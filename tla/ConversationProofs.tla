------------------------- MODULE ConversationProofs -------------------------
(***************************************************************************)
(* What holds of Conversation for any number of messages, attachments and  *)
(* concurrent requests.  The foreign keys are what the argument rests on:  *)
(* a row is only stored while the row it refers to is there, and only      *)
(* removed once no row refers to it.  Then comes the one check that no     *)
(* constraint repeats: an edit may write to a message that was deleted     *)
(* after the edit had looked at it, and only then.  Last is what devices   *)
(* are told: whoever writes to a message has yet to tell of it, and with   *)
(* nobody else at work on it tells what the tables hold.                   *)
(***************************************************************************)
EXTENDS Conversation, FiniteSetTheorems, TLAPS

Steps == {"idle", "conv", "select", "insert", "link", "update", "toggle",
          "write", "remove", "messages", "row", "notify", "done"}

(* The types of the tables and of what a handler knows of its request.  A   *)
(* request that writes to a message names one.                              *)
TableTypes ==
  /\ conv \in BOOLEAN
  /\ text \in [Msgs -> Texts]
  /\ link \in [Attachments -> Msgs \cup {None}]
  /\ sealed \in SUBSET Requests
  /\ reaction \in [Msgs -> Requests \cup {None}]
  /\ tag \in Requests \cup {None}
  /\ op \in [Requests -> Ops \cup {None}]
  /\ msg \in [Requests -> Msgs \cup {None}]
  /\ pc \in [Requests -> Steps]
  /\ \A r \in Requests : op[r] \in {"send", "edit", "delete", "react"} => msg[r] \in Msgs

(* The reactions of a message go with it: what makes an empty messages      *)
(* table mean an empty reactions table when the conversation's row goes.    *)
ReactionHasMessage == \A m \in Msgs : reaction[m] # None => Present(m)

(* The inductive invariant: each conjunct is one foreign key.               *)
RefInv == TableTypes /\ ReactionHasMessage /\ AttachmentHasMessage /\ NothingLeftBehind

-----------------------------------------------------------------------------

(* A fresh conversation has no attachment, no reaction and no sealed rows.  *)
LEMMA InitRef == Init => RefInv
<1> SUFFICES ASSUME Init PROVE RefInv
  OBVIOUS
<1>1. TableTypes
  BY ConversationAssumption DEF Init, TableTypes, Texts, Ops, Steps
<1>2. ReactionHasMessage /\ AttachmentHasMessage /\ NothingLeftBehind
  BY DEF Init, ReactionHasMessage, AttachmentHasMessage, NothingLeftBehind
<1>3. QED
  BY <1>1, <1>2 DEF RefInv

(* Taking a request in touches no table.                                    *)
LEMMA StartRef ==
  ASSUME RefInv, NEW r \in Requests, Start(r)
  PROVE  RefInv'
<1> USE DEF RefInv, TableTypes, ReactionHasMessage, AttachmentHasMessage, NothingLeftBehind,
            Present, Begin, Goto, tables, uploads, labels
<1>1. ASSUME NEW m \in Msgs, BeginSend(r, m) PROVE RefInv'
  BY <1>1 DEF BeginSend, Ops, Steps
<1>2. ASSUME NEW m \in Msgs, BeginEdit(r, m) \/ BeginDelete(r, m) \/ BeginReact(r, m)
      PROVE  RefInv'
  BY <1>2 DEF BeginEdit, BeginDelete, BeginReact, Ops, Steps
<1>3. ASSUME \/ BeginSeal(r) \/ BeginTag(r) \/ BeginMute(r) \/ BeginUnmute(r)
             \/ BeginRead(r) \/ BeginDrop(r)
      PROVE RefInv'
  BY <1>3 DEF BeginSeal, BeginTag, BeginMute, BeginUnmute, BeginRead, BeginDrop, Ops, Steps
<1>4. ASSUME NEW a \in Attachments, NEW m \in Msgs \cup {None}, BeginUpload(r, a, m)
      PROVE  RefInv'
  BY <1>4 DEF BeginUpload, Ops, Steps
<1>5. QED
  BY <1>1, <1>2, <1>3, <1>4 DEF Start

(* A statement that only reads, an event or a mark as read changes no       *)
(* column a foreign key is about.                                           *)
LEMMA QuietRef ==
  ASSUME RefInv, NEW r \in Requests, NEW s \in Steps, Goto(r, s),
         UNCHANGED <<conv, text, link, sealed, reaction, labels, op, msg>>
  PROVE  RefInv'
BY DEF RefInv, TableTypes, ReactionHasMessage, AttachmentHasMessage, NothingLeftBehind,
       Present, Goto, labels

(* The statements that only read, and the events after the last statement.  *)
LEMMA ReadRef ==
  ASSUME RefInv, NEW r \in Requests,
         \/ SendCheck(r) \/ SendDeliver(r) \/ SealCheck(r)
         \/ EditSelect(r) \/ EditNotify(r)
         \/ DeleteSelect(r) \/ DeleteCheck(r) \/ DeleteNotify(r)
         \/ ReactSelect(r) \/ ReactCheck(r) \/ ReactLookup(r) \/ ReactNotify(r)
         \/ TagCheck(r) \/ TagLookup(r) \/ UntagCheck(r) \/ MuteCheck(r) \/ UploadWrite(r)
         \/ ReadCheck(r) \/ ReadUpdate(r) \/ DropCheck(r)
  PROVE  RefInv'
<1>1. \E s \in Steps : Goto(r, s)
  BY DEF SendCheck, SendDeliver, SealCheck, EditSelect, EditNotify, DeleteSelect, DeleteCheck,
     DeleteNotify, ReactSelect, ReactCheck, ReactLookup, ReactNotify, TagCheck, TagLookup,
     UntagCheck, MuteCheck, UploadWrite, ReadCheck, ReadUpdate, DropCheck, Reads, Steps
<1>2. UNCHANGED <<conv, text, link, sealed, reaction, labels, op, msg>>
  BY DEF SendCheck, SendDeliver, SealCheck, EditSelect, EditNotify, DeleteSelect, DeleteCheck,
     DeleteNotify, ReactSelect, ReactCheck, ReactLookup, ReactNotify, TagCheck, TagLookup,
     UntagCheck, MuteCheck, UploadWrite, ReadCheck, ReadUpdate, DropCheck, Reads, tables, uploads,
     request
<1>3. QED
  BY <1>1, <1>2, QuietRef

(* The statements that store a row: each needs the row it refers to.        *)
LEMMA InsertRef ==
  ASSUME RefInv, NEW r \in Requests,
         \/ SendInsert(r) \/ SendLink(r) \/ SealInsert(r) \/ ReactInsert(r)
         \/ TagInsert(r) \/ MuteUpsert(r) \/ UploadInsert(r)
  PROVE  RefInv'
<1> USE ConversationAssumption
    DEF RefInv, TableTypes, ReactionHasMessage, AttachmentHasMessage, NothingLeftBehind,
        Present, At, Goto, request, uploads, labels
<1>1. CASE SendInsert(r)
  BY <1>1 DEF SendInsert, Referenced, Texts, Steps
<1>2. CASE SendLink(r)
  BY <1>2 DEF SendLink, Linkable
<1>3. CASE SealInsert(r)
  BY <1>3 DEF SealInsert, Referenced, Steps
<1>4. CASE ReactInsert(r)
  BY <1>4 DEF ReactInsert, Steps
<1>5. CASE TagInsert(r)
  BY <1>5 DEF TagInsert, Referenced, Steps
<1>6. CASE MuteUpsert(r)
  BY <1>6 DEF MuteUpsert, Referenced, Steps
<1>7. CASE UploadInsert(r)
  BY <1>7 DEF UploadInsert, Steps
<1>8. QED
  BY <1>1, <1>2, <1>3, <1>4, <1>5, <1>6, <1>7

(* The statements that overwrite or remove a row: none removes a message    *)
(* that something refers to, and a text is only replaced by a text.         *)
LEMMA UpdateRef ==
  ASSUME RefInv, NEW r \in Requests,
         \/ EditUpdate(r) \/ DeleteUpdate(r) \/ ReactRemove(r)
         \/ UntagDelete(r) \/ UnmuteDelete(r) \/ DropMessages(r) \/ DropRow(r)
  PROVE  RefInv'
<1> USE ConversationAssumption
    DEF RefInv, TableTypes, ReactionHasMessage, AttachmentHasMessage, NothingLeftBehind,
        Present, At, Goto, request, uploads, labels
<1>1. CASE EditUpdate(r)
  BY <1>1 DEF EditUpdate, Texts, Steps
<1>2. CASE DeleteUpdate(r)
  BY <1>2 DEF DeleteUpdate, Texts, Steps
<1>3. CASE ReactRemove(r)
  BY <1>3 DEF ReactRemove, Steps
<1>4. CASE DropMessages(r)
  BY <1>4 DEF DropMessages, Attached, Texts, Steps
<1>5. CASE DropRow(r)
  BY <1>5 DEF DropRow, Steps
<1>6. CASE UntagDelete(r) \/ UnmuteDelete(r)
  BY <1>6 DEF UntagDelete, UnmuteDelete, Steps
<1>7. QED
  BY <1>1, <1>2, <1>3, <1>4, <1>5, <1>6

(* Every step of every request keeps the references.                        *)
LEMMA NextRef == RefInv /\ [Next]_vars => RefInv'
<1> SUFFICES ASSUME RefInv, [Next]_vars PROVE RefInv'
  OBVIOUS
<1>1. CASE UNCHANGED vars
  BY <1>1 DEF vars, tables, uploads, labels, request, RefInv, TableTypes, ReactionHasMessage,
     AttachmentHasMessage, NothingLeftBehind, Present
<1>2. ASSUME NEW r \in Requests, Start(r) PROVE RefInv'
  BY <1>2, StartRef
<1>3. ASSUME NEW r \in Requests, Step(r) PROVE RefInv'
  BY <1>3, ReadRef, InsertRef, UpdateRef DEF Step
<1>4. QED
  BY <1>1, <1>2, <1>3 DEF Next

(* The references hold in every behaviour of the handlers.                  *)
THEOREM References == Spec => []RefInv
BY InitRef, NextRef, PTL DEF Spec

(* A conversation that is gone has left nothing behind, however many        *)
(* requests stored messages, reactions and encrypted messages while it was  *)
(* deleted (conversations.go:205-210).                                      *)
THEOREM NothingLeftBehindHolds == Spec => []NothingLeftBehind
<1>1. RefInv => NothingLeftBehind
  BY DEF RefInv
<1>2. QED
  BY <1>1, References, PTL

(* The message of an attachment is in the history, however many requests    *)
(* link attachments and delete (conversations.go:77-79 and 205).            *)
THEOREM AttachmentHasMessageHolds == Spec => []AttachmentHasMessage
<1>1. RefInv => AttachmentHasMessage
  BY DEF RefInv
<1>2. QED
  BY <1>1, References, PTL

-----------------------------------------------------------------------------
(* Files and the attachments they belong to.                                *)

(* Ids of attachments are new: nobody else uploads one, and it has no row   *)
(* before its upload stores it, and so no message.                          *)
FileInv ==
  /\ stored \subseteq Attachments /\ disk \subseteq Attachments
  /\ files \in [Requests -> SUBSET Attachments]
  /\ \A r \in Requests : pc[r] = "idle" => op[r] = None
  /\ \A a \in Attachments : a \notin stored => link[a] = None
  /\ \A r, s \in Requests :
       op[r] = "upload" /\ op[s] = "upload" /\ files[r] \cap files[s] # {} => r = s
  /\ \A r \in Requests : At(r, "upload", "write") => files[r] \cap disk = {}
  /\ \A r \in Requests : At(r, "upload", "insert") =>
       files[r] \cap stored = {} /\ files[r] \subseteq disk
  /\ AttachmentHasFile

LEMMA InitFile == Init => FileInv
  BY ConversationAssumption DEF Init, FileInv, AttachmentHasFile, At, Ops

(* Every step but those of an upload and SendLink leaves files, rows and    *)
(* what a request uploads alone.                                            *)
LEMMA QuietFile ==
  ASSUME RefInv, FileInv, NEW r \in Requests, NEW s \in Steps \ {"idle"}, Goto(r, s),
         op[r] # "upload", pc[r] # "idle", UNCHANGED <<uploads, files, op>>
  PROVE  FileInv'
<1>1. pc' = [pc EXCEPT ![r] = s] /\ stored' = stored /\ link' = link /\ disk' = disk
      /\ files' = files /\ op' = op
  BY DEF Goto, uploads
<1>2. QED
  BY <1>1 DEF FileInv, AttachmentHasFile, RefInv, TableTypes, At

LEMMA StartFile ==
  ASSUME RefInv, FileInv, NEW r \in Requests, Start(r)
  PROVE  FileInv'
<1> USE ConversationAssumption
    DEF FileInv, AttachmentHasFile, RefInv, TableTypes, At, Begin, Goto, tables, uploads, Ops
<1>1. ASSUME NEW m \in Msgs, BeginSend(r, m) PROVE FileInv'
  BY <1>1 DEF BeginSend
<1>2. ASSUME NEW m \in Msgs, BeginEdit(r, m) \/ BeginDelete(r, m) \/ BeginReact(r, m)
      PROVE  FileInv'
  BY <1>2 DEF BeginEdit, BeginDelete, BeginReact
<1>3. ASSUME \/ BeginSeal(r) \/ BeginTag(r) \/ BeginMute(r) \/ BeginUnmute(r)
             \/ BeginRead(r) \/ BeginDrop(r)
      PROVE FileInv'
  BY <1>3 DEF BeginSeal, BeginTag, BeginMute, BeginUnmute, BeginRead, BeginDrop
<1>4. ASSUME NEW a \in Attachments, NEW m \in Msgs \cup {None}, BeginUpload(r, a, m)
      PROVE  FileInv'
  BY <1>4 DEF BeginUpload
<1>5. QED
  BY <1>1, <1>2, <1>3, <1>4 DEF Start

(* An upload stores a row for a file it has written, or removes the file.   *)
LEMMA UploadFile ==
  ASSUME RefInv, FileInv, NEW r \in Requests, UploadWrite(r) \/ UploadInsert(r) \/ SendLink(r)
  PROVE  FileInv'
<1> USE DEF FileInv, AttachmentHasFile, RefInv, TableTypes, At, Goto, request
<1>1. CASE UploadWrite(r)
  BY <1>1 DEF UploadWrite
<1>2. CASE UploadInsert(r)
  BY <1>2 DEF UploadInsert, Removed
<1>3. CASE SendLink(r)
  BY <1>3 DEF SendLink, Linkable
<1>4. QED
  BY <1>1, <1>2, <1>3

LEMMA OtherFile ==
  ASSUME RefInv, FileInv, NEW r \in Requests, Step(r),
         ~UploadWrite(r), ~UploadInsert(r), ~SendLink(r)
  PROVE  FileInv'
<1>1. \E s \in Steps \ {"idle"} : Goto(r, s)
  BY DEF Step, TagCheck, TagLookup, TagInsert, UntagCheck, UntagDelete, MuteCheck, MuteUpsert,
     UnmuteDelete, SendCheck, SendInsert, SendDeliver, SealCheck, SealInsert, EditSelect,
     EditUpdate, EditNotify, DeleteSelect, DeleteCheck, DeleteUpdate, DeleteNotify, ReactSelect,
     ReactCheck, ReactLookup, ReactInsert, ReactRemove, ReactNotify, ReadCheck, ReadUpdate,
     DropCheck, DropMessages, DropRow, Reads, Steps
<1>2. UNCHANGED <<uploads, files, op>>
  BY DEF Step, TagCheck, TagLookup, TagInsert, UntagCheck, UntagDelete, MuteCheck, MuteUpsert,
     UnmuteDelete, SendCheck, SendInsert, SendDeliver, SealCheck, SealInsert, EditSelect,
     EditUpdate, EditNotify, DeleteSelect, DeleteCheck, DeleteUpdate, DeleteNotify, ReactSelect,
     ReactCheck, ReactLookup, ReactInsert, ReactRemove, ReactNotify, ReadCheck, ReadUpdate,
     DropCheck, DropMessages, DropRow, Reads, tables, request
<1>3. op[r] # "upload" /\ pc[r] # "idle"
  BY DEF Step, TagCheck, TagLookup, TagInsert, UntagCheck, UntagDelete, MuteCheck, MuteUpsert,
     UnmuteDelete, SendCheck, SendInsert, SendDeliver, SealCheck, SealInsert, EditSelect,
     EditUpdate, EditNotify, DeleteSelect, DeleteCheck, DeleteUpdate, DeleteNotify, ReactSelect,
     ReactCheck, ReactLookup, ReactInsert, ReactRemove, ReactNotify, ReadCheck, ReadUpdate,
     DropCheck, DropMessages, DropRow, At
<1>4. QED
  BY <1>1, <1>2, <1>3, QuietFile

(* Files, rows and uploads fit together in every behaviour of the handlers  *)
(* (attachments.go:153-196).                                                *)
THEOREM Files == Spec => []FileInv
<1>1. RefInv /\ FileInv /\ [Next]_vars => FileInv'
  <2> SUFFICES ASSUME RefInv, FileInv, [Next]_vars PROVE FileInv'
    OBVIOUS
  <2>1. CASE UNCHANGED vars
    BY <2>1 DEF vars, tables, uploads, request, FileInv, AttachmentHasFile, At
  <2>2. ASSUME NEW r \in Requests, Start(r) \/ Step(r) PROVE FileInv'
    BY <2>2, StartFile, UploadFile, OtherFile
  <2>3. QED
    BY <2>1, <2>2 DEF Next
<1>2. QED
  BY <1>1, InitFile, References, PTL DEF Spec

(* The file of every attachment is on the disk, and a file without a row is *)
(* one that is being uploaded, for any number of uploads and deletions      *)
(* (attachments.go:153-196).                                                *)
THEOREM AttachmentHasFileHolds == Spec => []AttachmentHasFile
<1>1. FileInv => AttachmentHasFile
  BY DEF FileInv
<1>2. QED
  BY <1>1, Files, PTL

(* An attachment has its message and its file, whatever is uploaded, sent   *)
(* and deleted at the same time (attachments.go:153-196,                    *)
(* conversations.go:77-79 and 205).                                         *)
THEOREM AttachmentIsWholeHolds == Spec => []AttachmentIsWhole
BY AttachmentHasMessageHolds, AttachmentHasFileHolds, PTL DEF AttachmentIsWhole

(* No message takes an attachment over from another (conversations.go:78),  *)
(* and no upload does.                                                      *)
THEOREM AttachmentStaysHolds == Spec => AttachmentStays
<1> DEFINE Stays == \A a \in Attachments : link[a] # None => link'[a] = link[a]
<1>1. RefInv /\ FileInv /\ [Next]_vars => [Stays]_vars
  <2> SUFFICES ASSUME RefInv, FileInv, Next PROVE Stays
    OBVIOUS
  <2>1. PICK r \in Requests : Start(r) \/ Step(r)
    BY DEF Next
  <2>2. CASE SendLink(r)
    BY <2>2 DEF SendLink, Linkable, RefInv, TableTypes
  <2>3. CASE UploadInsert(r)
    BY <2>3 DEF UploadInsert, FileInv
  <2>4. CASE ~SendLink(r) /\ ~UploadInsert(r)
    <3>1. link' = link
      BY <2>1, <2>4 DEF Start, Step, BeginSend, BeginSeal, BeginEdit, BeginDelete, BeginReact,
         BeginRead, BeginDrop, BeginTag, BeginMute, BeginUnmute, BeginUpload, Begin, TagCheck,
         TagLookup, TagInsert, UntagCheck, UntagDelete, MuteCheck, MuteUpsert, UnmuteDelete,
         UploadWrite, SendCheck, SendInsert, SendDeliver, SealCheck, SealInsert, EditSelect,
         EditUpdate, EditNotify, DeleteSelect, DeleteCheck, DeleteUpdate, DeleteNotify,
         ReactSelect, ReactCheck, ReactLookup, ReactInsert, ReactRemove, ReactNotify, ReadCheck,
         ReadUpdate, DropCheck, DropMessages, DropRow, Reads, tables, uploads
    <3>2. QED
      BY <3>1
  <2>5. QED
    BY <2>2, <2>3, <2>4
<1>2. QED
  BY <1>1, References, Files, PTL DEF Spec, AttachmentStays

-----------------------------------------------------------------------------
(* Counting what is marked as read.                                         *)

(* What mark-read has counted, over all requests, is what it has marked.    *)
CountInv ==
  /\ seen \in SUBSET AgentMsgs
  /\ ReadCountedOnce

(* An UPDATE counts the rows it changes and no row a second time.           *)
LEMMA UnreadCount ==
  ASSUME CountInv
  PROVE  /\ seen \cup Unread \in SUBSET AgentMsgs
         /\ counted + Cardinality(Unread) = Cardinality(seen \cup Unread)
<1>1. IsFiniteSet(seen) /\ IsFiniteSet(Unread)
  BY FS_Subset, ConversationAssumption DEF CountInv, Unread
<1>2. seen \cap Unread = {}
  BY DEF Unread
<1>3. Cardinality(seen \cup Unread) =
        Cardinality(seen) + Cardinality(Unread) - Cardinality(seen \cap Unread)
  BY <1>1, FS_Union
<1>4. Cardinality(seen \cap Unread) = 0
  BY <1>2, FS_EmptySet
<1>5. Cardinality(seen) \in Nat /\ Cardinality(Unread) \in Nat
  BY <1>1, FS_CardinalityType
<1>6. seen \cup Unread \in SUBSET AgentMsgs
  BY DEF CountInv, Unread
<1>7. counted + Cardinality(Unread) = Cardinality(seen \cup Unread)
  BY <1>3, <1>4, <1>5 DEF CountInv, ReadCountedOnce
<1>8. QED
  BY <1>6, <1>7

(* Concurrent mark-read requests report every message exactly once between  *)
(* them, however many there are (conversations.go:293-296).                 *)
THEOREM ReadCountedOnceHolds == Spec => []ReadCountedOnce
<1>1. Init => CountInv
  BY FS_EmptySet DEF Init, CountInv, ReadCountedOnce
<1>2. CountInv /\ [Next]_vars => CountInv'
  <2> SUFFICES ASSUME CountInv, [Next]_vars PROVE CountInv'
    OBVIOUS
  <2>1. CASE \E r \in Requests : ReadUpdate(r)
    BY <2>1, UnreadCount DEF ReadUpdate, CountInv, ReadCountedOnce
  <2>2. CASE ~\E r \in Requests : ReadUpdate(r)
    <3>1. seen' = seen /\ counted' = counted
      BY <2>2 DEF Next, Start, Step, BeginSend, BeginSeal, BeginEdit, BeginDelete, BeginReact,
         BeginRead, BeginDrop, BeginTag, BeginMute, BeginUnmute, BeginUpload, Begin, TagCheck,
         TagLookup, TagInsert, UntagCheck, UntagDelete, MuteCheck, MuteUpsert, UnmuteDelete,
         UploadWrite, UploadInsert, SendCheck, SendInsert, SendLink, SendDeliver, SealCheck,
         SealInsert, EditSelect, EditUpdate, EditNotify, DeleteSelect, DeleteCheck, DeleteUpdate,
         DeleteNotify, ReactSelect, ReactCheck, ReactLookup, ReactInsert, ReactRemove,
         ReactNotify, ReadCheck, DropCheck, DropMessages, DropRow, Reads, tables, events, vars
    <3>2. QED
      BY <3>1 DEF CountInv, ReadCountedOnce
  <2>3. QED
    BY <2>1, <2>2
<1>3. CountInv => ReadCountedOnce
  BY DEF CountInv
<1>4. QED
  BY <1>1, <1>2, <1>3, PTL DEF Spec

-----------------------------------------------------------------------------
(* Edits that cross a deletion.                                             *)

(* The types the argument needs beyond TableTypes.                          *)
RaceTypes ==
  /\ view \in [Msgs -> Texts]
  /\ deleted \in SUBSET Msgs
  /\ raced \in SUBSET Msgs
  /\ \A r \in Requests : pc[r] = "idle" => op[r] = None

\* Somebody has sent the message, or is at it.
HasSender(m) == \E s \in Requests : op[s] = "send" /\ msg[s] = m

(* A message has one sender, is in the table only after its sender's INSERT *)
(* and is deleted only after that: a deleted id is never stored again.      *)
SentOnce ==
  /\ \A r, s \in Requests : op[r] = "send" /\ op[s] = "send" /\ msg[r] = msg[s] => r = s
  /\ \A r \in Requests : op[r] = "send" /\ pc[r] \in {"conv", "insert"} =>
       ~Present(msg[r]) /\ msg[r] \notin deleted
  /\ \A m \in Msgs : Present(m) \/ m \in deleted => view[m] # "none" \/ HasSender(m)

(* An edit that has passed its check writes to a message that is not        *)
(* deleted, unless a deletion overlapped it.                                *)
EditChecked ==
  \A r \in Requests : At(r, "edit", "update") /\ msg[r] \notin raced =>
    msg[r] \notin deleted \/ ~Present(msg[r])

RaceInv == TableTypes /\ RaceTypes /\ SentOnce /\ EditChecked /\ DeletedTextOnlyByRace

(* Nothing is deleted in a fresh conversation.                              *)
LEMMA InitRace == Init => RaceInv
<1> SUFFICES ASSUME Init PROVE RaceInv
  OBVIOUS
<1>1. TableTypes
  BY InitRef DEF RefInv
<1>2. RaceTypes
  BY DEF Init, RaceTypes, Texts
<1>3. SentOnce
  BY ConversationAssumption DEF Init, SentOnce, Present, Ops
<1>4. EditChecked /\ DeletedTextOnlyByRace
  BY DEF Init, EditChecked, DeletedTextOnlyByRace, At
<1>5. QED
  BY <1>1, <1>2, <1>3, <1>4 DEF RaceInv

(* A request starts on an idle handler; only a new id is sent.              *)
LEMMA StartRace ==
  ASSUME RaceInv, NEW r \in Requests, Start(r), TableTypes'
  PROVE  RaceInv'
<1> USE ConversationAssumption
    DEF RaceInv, TableTypes, RaceTypes, SentOnce, EditChecked, DeletedTextOnlyByRace, HasSender,
        Present, At, Begin, Goto, tables, events, Ops
<1>1. ASSUME NEW m \in Msgs, BeginSend(r, m) PROVE RaceInv'
  BY <1>1 DEF BeginSend
<1>2. ASSUME NEW m \in Msgs, BeginEdit(r, m) \/ BeginDelete(r, m) \/ BeginReact(r, m)
      PROVE  RaceInv'
  BY <1>2 DEF BeginEdit, BeginDelete, BeginReact
<1>3. ASSUME \/ BeginSeal(r) \/ BeginTag(r) \/ BeginMute(r) \/ BeginUnmute(r)
             \/ BeginRead(r) \/ BeginDrop(r)
      PROVE RaceInv'
  BY <1>3 DEF BeginSeal, BeginTag, BeginMute, BeginUnmute, BeginRead, BeginDrop
<1>4. ASSUME NEW a \in Attachments, NEW m \in Msgs \cup {None}, BeginUpload(r, a, m)
      PROVE  RaceInv'
  BY <1>4 DEF BeginUpload
<1>5. QED
  BY <1>1, <1>2, <1>3, <1>4 DEF Start

(* Steps that leave messages, their deletion and what devices see alone,    *)
(* and do not take an edit or an unsent message forward.                    *)
LEMMA IdleRace ==
  ASSUME RaceInv, NEW r \in Requests, NEW s \in Steps, Goto(r, s), TableTypes',
         s # "idle", op[r] = "send" => s \notin {"conv", "insert"},
         op[r] = "edit" => s # "update",
         UNCHANGED <<text, deleted, view, op, msg>>, raced \subseteq raced', raced' \subseteq Msgs
  PROVE  RaceInv'
BY DEF RaceInv, TableTypes, RaceTypes, SentOnce, EditChecked, DeletedTextOnlyByRace, HasSender,
   Present, At, Goto

(* A race is about a message and is never forgotten.                        *)
LEMMA RaceGrows ==
  ASSUME RaceTypes, NEW r \in Requests, NEW m \in Msgs, Race(r, m)
  PROVE  raced \subseteq raced' /\ raced' \subseteq Msgs
BY DEF RaceTypes, Race

(* Handlers other than those that send, edit or delete a message.           *)
LEMMA OthersRace ==
  ASSUME RaceInv, NEW r \in Requests, TableTypes',
         \/ SealCheck(r) \/ SealInsert(r) \/ DeleteSelect(r) \/ DeleteCheck(r)
         \/ ReactSelect(r) \/ ReactCheck(r) \/ ReactLookup(r) \/ ReactInsert(r)
         \/ ReactRemove(r) \/ ReactNotify(r)
         \/ TagCheck(r) \/ TagLookup(r) \/ TagInsert(r) \/ UntagCheck(r) \/ UntagDelete(r)
         \/ MuteCheck(r) \/ MuteUpsert(r) \/ UnmuteDelete(r) \/ UploadWrite(r) \/ UploadInsert(r)
         \/ ReadCheck(r) \/ ReadUpdate(r) \/ DropCheck(r) \/ DropRow(r)
  PROVE  RaceInv'
<1> DEFINE Harmless(s) == /\ s # "idle" /\ Goto(r, s)
                          /\ op[r] = "send" => s \notin {"conv", "insert"}
                          /\ op[r] = "edit" => s # "update"
<1>1. \E s \in Steps : Harmless(s)
  BY DEF SealCheck, SealInsert, DeleteSelect, DeleteCheck, ReactSelect, ReactCheck, ReactLookup,
     ReactInsert, ReactRemove, ReactNotify, TagCheck, TagLookup, TagInsert, UntagCheck,
     UntagDelete, MuteCheck, MuteUpsert, UnmuteDelete, UploadWrite, UploadInsert, ReadCheck,
     ReadUpdate, DropCheck, DropRow, Reads, At, Steps
<1>2. UNCHANGED <<text, deleted, view, op, msg>>
  BY DEF SealCheck, SealInsert, DeleteSelect, DeleteCheck, ReactSelect, ReactCheck, ReactLookup,
     ReactInsert, ReactRemove, ReactNotify, TagCheck, TagLookup, TagInsert, UntagCheck,
     UntagDelete, MuteCheck, MuteUpsert, UnmuteDelete, UploadWrite, UploadInsert, ReadCheck,
     ReadUpdate, DropCheck, DropRow, Reads, tables, request, events
<1>3. op[r] = "react" => msg[r] \in Msgs
  BY DEF RaceInv, TableTypes
<1>4. raced \subseteq raced' /\ raced' \subseteq Msgs
  BY <1>3, RaceGrows DEF SealCheck, SealInsert, DeleteSelect, DeleteCheck, ReactSelect, ReactCheck,
     ReactLookup, ReactInsert, ReactRemove, ReactNotify, TagCheck, TagLookup, TagInsert, UntagCheck,
     UntagDelete, MuteCheck, MuteUpsert, UnmuteDelete, UploadWrite, UploadInsert, ReadCheck,
     ReadUpdate, DropCheck, DropRow, Reads, RaceInv, RaceTypes, At
<1>5. QED
  BY <1>1, <1>2, <1>4, IdleRace

(* Sending stores an id that nobody has deleted.                            *)
LEMMA SendRace ==
  ASSUME RaceInv, NEW r \in Requests, TableTypes',
         SendCheck(r) \/ SendInsert(r) \/ SendLink(r) \/ SendDeliver(r)
  PROVE  RaceInv'
<1>0. op[r] = "send" => msg[r] \in Msgs
  BY DEF RaceInv, TableTypes
<1> USE DEF RaceInv, TableTypes, RaceTypes, SentOnce, EditChecked, DeletedTextOnlyByRace,
        HasSender, Present, At, Goto, request, events
<1>1. CASE SendCheck(r)
  BY <1>1 DEF SendCheck, Reads, tables
<1>2. CASE SendInsert(r)
  BY <1>0, <1>2 DEF SendInsert
<1>3. CASE SendLink(r)
  BY <1>3 DEF SendLink
<1>4. CASE SendDeliver(r)
  <2>1. raced \subseteq raced' /\ raced' \subseteq Msgs
    BY <1>0, <1>4, RaceGrows DEF SendDeliver
  <2>2. QED
    BY <1>0, <1>4, <2>1 DEF SendDeliver, Texts, tables
<1>5. QED
  BY <1>1, <1>2, <1>3, <1>4

(* An edit looks before it writes; what it writes is blank no more, which   *)
(* is a deleted message's text only if the deletion came in between.        *)
LEMMA EditRace ==
  ASSUME RaceInv, NEW r \in Requests, TableTypes',
         EditSelect(r) \/ EditUpdate(r) \/ EditNotify(r)
  PROVE  RaceInv'
<1>0. op[r] = "edit" => msg[r] \in Msgs
  BY DEF RaceInv, TableTypes
<1> USE DEF RaceInv, TableTypes, RaceTypes, SentOnce, EditChecked, DeletedTextOnlyByRace,
        HasSender, Present, At, Goto, request, events
<1>1. CASE EditSelect(r)
  BY <1>0, <1>1 DEF EditSelect, Editable, Reads, tables
<1>2. CASE EditUpdate(r)
  <2>1. raced \subseteq raced' /\ raced' \subseteq Msgs
    BY <1>0, <1>2, RaceGrows DEF EditUpdate
  <2>2. QED
    BY <1>0, <1>2, <2>1 DEF EditUpdate
<1>3. CASE EditNotify(r)
  <2>1. raced \subseteq raced' /\ raced' \subseteq Msgs
    BY <1>0, <1>3, RaceGrows DEF EditNotify
  <2>2. r \in Texts /\ r # "none"
    BY ConversationAssumption DEF Texts
  <2>3. QED
    BY <1>0, <1>3, <2>1, <2>2 DEF EditNotify, tables
<1>4. QED
  BY <1>1, <1>2, <1>3

(* A deletion that meets an edit in flight is recorded as a race.           *)
LEMMA DeleteRace ==
  ASSUME RaceInv, NEW r \in Requests, TableTypes',
         DeleteUpdate(r) \/ DeleteNotify(r) \/ DropMessages(r)
  PROVE  RaceInv'
<1>0. op[r] = "delete" => msg[r] \in Msgs
  BY DEF RaceInv, TableTypes
<1> USE DEF RaceInv, TableTypes, RaceTypes, SentOnce, EditChecked, DeletedTextOnlyByRace,
        HasSender, Present, At, Goto, request, events
<1>1. CASE DeleteUpdate(r)
  <2>1. raced \subseteq raced' /\ raced' \subseteq Msgs
    BY <1>0, <1>1, RaceGrows DEF DeleteUpdate
  <2>2. ASSUME NEW s \in Requests, At(s, "edit", "update"), msg[s] = msg[r]
        PROVE  msg[r] \in raced'
    BY <1>0, <1>1, <2>2 DEF DeleteUpdate, Race, Overlaps, WorksOn, InFlight
  <2>3. QED
    BY <1>0, <1>1, <2>1, <2>2 DEF DeleteUpdate
<1>2. CASE DeleteNotify(r)
  <2>1. raced \subseteq raced' /\ raced' \subseteq Msgs
    BY <1>0, <1>2, RaceGrows DEF DeleteNotify
  <2>2. QED
    BY <1>0, <1>2, <2>1 DEF DeleteNotify, Texts, tables
<1>3. CASE DropMessages(r)
  BY <1>3 DEF DropMessages
<1>4. QED
  BY <1>1, <1>2, <1>3

(* Races are recorded in every behaviour of the handlers.                   *)
THEOREM Races == Spec => []RaceInv
<1>1. RefInv /\ RefInv' /\ RaceInv /\ [Next]_vars => RaceInv'
  <2> SUFFICES ASSUME RefInv, RefInv', RaceInv, [Next]_vars PROVE RaceInv'
    OBVIOUS
  <2>1. TableTypes'
    BY DEF RefInv
  <2>2. CASE UNCHANGED vars
    BY <2>1, <2>2 DEF vars, tables, labels, request, events, RaceInv, RaceTypes, SentOnce,
       EditChecked, DeletedTextOnlyByRace, HasSender, Present, At
  <2>3. ASSUME NEW r \in Requests, Start(r) PROVE RaceInv'
    BY <2>1, <2>3, StartRace
  <2>4. ASSUME NEW r \in Requests, Step(r) PROVE RaceInv'
    BY <2>1, <2>4, OthersRace, SendRace, EditRace, DeleteRace DEF Step
  <2>5. QED
    BY <2>2, <2>3, <2>4 DEF Next
<1>2. QED
  BY <1>1, InitRace, References, PTL DEF Spec

(* A deleted message shows a text again only if another request worked on   *)
(* it while it was edited or deleted (messages_edit_delete.go:53-66), for   *)
(* any number of requests.                                                  *)
THEOREM DeletedTextOnlyByRaceHolds == Spec => []DeletedTextOnlyByRace
<1>1. RaceInv => DeletedTextOnlyByRace
  BY DEF RaceInv
<1>2. QED
  BY <1>1, Races, PTL

-----------------------------------------------------------------------------
(* What devices are told.                                                   *)

\* The message has not been stored yet, or never was.
Unsent(m) ==
  /\ view[m] = "none"
  /\ \A s \in Requests : op[s] = "send" /\ msg[s] = m => pc[s] # "link"

(* Nobody gets past the first SELECT of a message that was not stored yet,  *)
(* and a device has heard nothing of it.                                    *)
UnsentAt(m) ==
  Unsent(m) =>
    /\ ~Present(m) /\ told[m] = "none"
    /\ \A s \in Requests :
         op[s] \in {"edit", "delete", "react"} /\ msg[s] = m => pc[s] \in {"select", "done"}

UnsentInv ==
  /\ \A m \in Msgs : UnsentAt(m)
  /\ \A r \in Requests : op[r] = "send" /\ pc[r] \in {"conv", "insert"} => view[msg[r]] = "none"

\* The request has written the text and has yet to tell devices of it.
Telling(r, m) ==
  msg[r] = m /\ (At(r, "send", "link") \/ At(r, "edit", "notify") \/ At(r, "delete", "notify"))

Tells(r) == IF op[r] = "send" THEN "original" ELSE IF op[r] = "edit" THEN r ELSE "blank"

(* The text of a message that nobody raced for is what devices see, or      *)
(* somebody is about to tell them exactly that.                             *)
TextAt(m) ==
  Present(m) /\ m \notin raced =>
    /\ \A r \in Requests : Telling(r, m) => text[m] = Tells(r)
    /\ view[m] = text[m] \/ \E r \in Requests : Telling(r, m)

\* A toggle does what it decided when it read the reaction.
FoundInv ==
  /\ found \in [Requests -> Requests \cup {None}]
  /\ \A r \in Requests :
       /\ At(r, "react", "insert") => found[r] = None
       /\ At(r, "react", "remove") =>
            found[r] # None /\ (msg[r] \notin raced => reaction[msg[r]] \in {found[r], None})

Toggled(r, m) == msg[r] = m /\ At(r, "react", "notify")

(* The same for the reaction.                                               *)
ReactionAt(m) ==
  Present(m) /\ m \notin raced =>
    /\ \A r \in Requests : Toggled(r, m) => (found[r] = None <=> reaction[m] # None)
    /\ \/ told[m] = "added" <=> reaction[m] # None
       \/ \E r \in Requests : Toggled(r, m)

(* The inductive invariant of DevicesUpToDate, on top of RaceInv.           *)
DeviceInv ==
  /\ UnsentInv
  /\ FoundInv
  /\ told \in [Msgs -> {"none", "added", "removed"}]
  /\ \A m \in Msgs : TextAt(m) /\ ReactionAt(m)

(* Nobody works on a fresh conversation, and devices see what it stores.    *)
LEMMA InitDevice == Init => DeviceInv
<1> SUFFICES ASSUME Init PROVE DeviceInv
  OBVIOUS
<1>0. \A r \in Requests : pc[r] = "idle" /\ op[r] = None
  BY DEF Init
<1>1. UnsentInv
  BY <1>0, ConversationAssumption DEF Init, UnsentInv, UnsentAt, Unsent, Present, Ops
<1>2. \A m \in Msgs : TextAt(m)
  BY <1>0 DEF Init, TextAt, Telling, At
<1>3. FoundInv
  BY <1>0 DEF Init, FoundInv, At
<1>4. \A m \in Msgs : ReactionAt(m)
  BY <1>0 DEF Init, ReactionAt, Toggled, At
<1>5. told \in [Msgs -> {"none", "added", "removed"}]
  BY DEF Init
<1>6. QED
  BY <1>1, <1>2, <1>3, <1>4, <1>5 DEF DeviceInv

\* What a request begins with.
Begins(r) ==
  /\ pc[r] = "idle" /\ op[r] = None
  /\ pc'[r] \in {"conv", "select", "write", "remove"}
  /\ op'[r] \in {"edit", "delete", "react"} => pc'[r] = "select"
  /\ op'[r] = "send" => pc'[r] = "conv" /\ view[msg'[r]] = "none"
  /\ \A s \in Requests : s # r => pc'[s] = pc[s] /\ op'[s] = op[s] /\ msg'[s] = msg[s]
  /\ UNCHANGED <<text, reaction, found, view, told, raced>>

LEMMA StartBegins ==
  ASSUME RaceInv, NEW r \in Requests, Start(r)
  PROVE  Begins(r)
<1> USE DEF RaceInv, TableTypes, RaceTypes, Begin, Goto, tables, events, Begins
<1>1. ASSUME NEW m \in Msgs, BeginSend(r, m) PROVE Begins(r)
  BY <1>1 DEF BeginSend
<1>2. ASSUME NEW m \in Msgs, BeginEdit(r, m) \/ BeginDelete(r, m) \/ BeginReact(r, m)
      PROVE  Begins(r)
  BY <1>2 DEF BeginEdit, BeginDelete, BeginReact
<1>3. ASSUME \/ BeginSeal(r) \/ BeginTag(r) \/ BeginMute(r) \/ BeginUnmute(r)
             \/ BeginRead(r) \/ BeginDrop(r)
      PROVE Begins(r)
  BY <1>3 DEF BeginSeal, BeginTag, BeginMute, BeginUnmute, BeginRead, BeginDrop
<1>4. ASSUME NEW a \in Attachments, NEW m \in Msgs \cup {None}, BeginUpload(r, a, m)
      PROVE  Begins(r)
  BY <1>4 DEF BeginUpload
<1>5. QED
  BY <1>1, <1>2, <1>3, <1>4 DEF Start

(* A request that has just begun has written nothing.                       *)
LEMMA StartDevice ==
  ASSUME RaceInv, DeviceInv, NEW r \in Requests, Start(r)
  PROVE  DeviceInv'
<1>1. Begins(r)
  BY StartBegins
<1> USE <1>1 DEF DeviceInv, Begins
<1>2. ASSUME NEW m \in Msgs, Unsent(m)' PROVE Unsent(m)
  BY <1>2, ConversationAssumption DEF Unsent, Ops
<1>3. UnsentInv'
  <2>1. ASSUME NEW m \in Msgs PROVE UnsentAt(m)'
    BY <1>2 DEF UnsentInv, UnsentAt, Present
  <2>2. ASSUME NEW s \in Requests, op'[s] = "send", pc'[s] \in {"conv", "insert"}
        PROVE  view'[msg'[s]] = "none"
    BY <2>2 DEF UnsentInv
  <2>3. QED
    BY <2>1, <2>2 DEF UnsentInv
<1>4. \A s \in Requests, m \in Msgs : (Telling(s, m)' <=> Telling(s, m)) /\ (Toggled(s, m)' <=> Toggled(s, m))
  BY DEF Telling, Toggled, At
<1>5. ASSUME NEW m \in Msgs PROVE TextAt(m)'
  <2>1. \A s \in Requests : s # r => (Tells(s)' = Tells(s))
    BY DEF Tells
  <2>2. ~Telling(r, m)
    BY DEF Telling, At
  <2>3. QED
    BY <1>4, <2>1, <2>2 DEF TextAt, Present
<1>6. FoundInv'
  BY DEF FoundInv, At
<1>7. ASSUME NEW m \in Msgs PROVE ReactionAt(m)'
  BY <1>4 DEF ReactionAt, Present
<1>8. QED
  BY <1>3, <1>5, <1>6, <1>7

\* A statement of request r.
Works(r) ==
  /\ pc[r] # "idle"
  /\ \A s \in Requests : s # r => pc'[s] = pc[s] /\ found'[s] = found[s]
  /\ UNCHANGED <<op, msg>>
  /\ raced \subseteq raced'

(* Statements that neither write texts and reactions nor tell of them.      *)
LEMMA IdleDevice ==
  ASSUME DeviceInv, NEW r \in Requests, Works(r), UNCHANGED <<text, reaction, found, view, told>>,
         op[r] = "send" => pc[r] # "link" /\ (pc'[r] = "done" \/ (pc[r] = "conv" /\ pc'[r] = "insert")),
         op[r] \in {"edit", "delete", "react"} =>
           /\ pc[r] = "select" => pc'[r] = "done" \/ Present(msg[r])
           /\ pc[r] \notin {"notify", "done"} /\ pc'[r] # "notify",
         op[r] = "react" => pc'[r] \notin {"insert", "remove"}
  PROVE  DeviceInv'
<1> USE DEF DeviceInv, Works
<1>1. ASSUME NEW m \in Msgs, Unsent(m)' PROVE Unsent(m)
  BY <1>1 DEF Unsent
<1>2. UnsentInv'
  <2>1. ASSUME NEW m \in Msgs PROVE UnsentAt(m)'
    BY <1>1 DEF UnsentInv, UnsentAt, Present
  <2>2. ASSUME NEW s \in Requests, op'[s] = "send", pc'[s] \in {"conv", "insert"}
        PROVE  view'[msg'[s]] = "none"
    BY <2>2 DEF UnsentInv
  <2>3. QED
    BY <2>1, <2>2 DEF UnsentInv
<1>3. \A s \in Requests, m \in Msgs : (Telling(s, m)' <=> Telling(s, m)) /\ (Toggled(s, m)' <=> Toggled(s, m))
  BY DEF Telling, Toggled, At
<1>4. ASSUME NEW m \in Msgs PROVE TextAt(m)'
  BY <1>3 DEF TextAt, Present, Tells
<1>5. FoundInv'
  BY DEF FoundInv, At
<1>6. ASSUME NEW m \in Msgs PROVE ReactionAt(m)'
  BY <1>3 DEF ReactionAt, Present
<1>7. QED
  BY <1>2, <1>4, <1>5, <1>6


(* Every statement is one.                                                  *)
LEMMA StepWorks ==
  ASSUME RaceInv, DeviceInv, NEW r \in Requests, Step(r)
  PROVE  Works(r)
<1>1. pc[r] # "idle" /\ UNCHANGED <<op, msg>>
  BY DEF Step, TagCheck, TagLookup, TagInsert, UntagCheck, UntagDelete, MuteCheck, MuteUpsert,
     UnmuteDelete, SendCheck, SendInsert, SendLink, SendDeliver, SealCheck, SealInsert, EditSelect,
     EditUpdate, EditNotify, DeleteSelect, DeleteCheck, DeleteUpdate, DeleteNotify, ReactSelect,
     ReactCheck, ReactLookup, ReactInsert, ReactRemove, ReactNotify, ReadCheck, ReadUpdate,
     UploadWrite, UploadInsert, DropCheck, DropMessages, DropRow, Reads, request, At
<1>2. pc' = pc \/ \E step \in Steps : Goto(r, step)
  BY DEF Step, TagCheck, TagLookup, TagInsert, UntagCheck, UntagDelete, MuteCheck, MuteUpsert,
     UnmuteDelete, SendCheck, SendInsert, SendLink, SendDeliver, SealCheck, SealInsert, EditSelect,
     EditUpdate, EditNotify, DeleteSelect, DeleteCheck, DeleteUpdate, DeleteNotify, ReactSelect,
     ReactCheck, ReactLookup, ReactInsert, ReactRemove, ReactNotify, ReadCheck, ReadUpdate,
     UploadWrite, UploadInsert, DropCheck, DropMessages, DropRow, Reads, Steps
<1>3. found' = found \/ \E q : found' = [found EXCEPT ![r] = q]
  BY DEF Step, TagCheck, TagLookup, TagInsert, UntagCheck, UntagDelete, MuteCheck, MuteUpsert,
     UnmuteDelete, SendCheck, SendInsert, SendLink, SendDeliver, SealCheck, SealInsert, EditSelect,
     EditUpdate, EditNotify, DeleteSelect, DeleteCheck, DeleteUpdate, DeleteNotify, ReactSelect,
     ReactCheck, ReactLookup, ReactInsert, ReactRemove, ReactNotify, ReadCheck, ReadUpdate,
     UploadWrite, UploadInsert, DropCheck, DropMessages, DropRow, Reads, request
<1>4. raced' = raced \/ \E m \in {msg[r]} : Race(r, m)
  BY DEF Step, TagCheck, TagLookup, TagInsert, UntagCheck, UntagDelete, MuteCheck, MuteUpsert,
     UnmuteDelete, SendCheck, SendInsert, SendLink, SendDeliver, SealCheck, SealInsert, EditSelect,
     EditUpdate, EditNotify, DeleteSelect, DeleteCheck, DeleteUpdate, DeleteNotify, ReactSelect,
     ReactCheck, ReactLookup, ReactInsert, ReactRemove, ReactNotify, ReadCheck, ReadUpdate,
     UploadWrite, UploadInsert, DropCheck, DropMessages, DropRow, Reads
<1>5. raced \subseteq raced'
  BY <1>4 DEF Race
<1>6. \A s \in Requests : s # r => pc'[s] = pc[s] /\ found'[s] = found[s]
  BY <1>2, <1>3 DEF Goto, RaceInv, TableTypes, DeviceInv, FoundInv
<1>7. QED
  BY <1>1, <1>5, <1>6 DEF Works

(* Handlers before their first write, and those that touch no message.      *)
LEMMA OthersDevice ==
  ASSUME RaceInv, DeviceInv, NEW r \in Requests, Works(r),
         \/ SendCheck(r) \/ SealCheck(r) \/ SealInsert(r) \/ EditSelect(r)
         \/ DeleteSelect(r) \/ DeleteCheck(r) \/ ReactSelect(r) \/ ReactCheck(r)
         \/ TagCheck(r) \/ TagLookup(r) \/ TagInsert(r) \/ UntagCheck(r) \/ UntagDelete(r)
         \/ MuteCheck(r) \/ MuteUpsert(r) \/ UnmuteDelete(r) \/ UploadWrite(r) \/ UploadInsert(r)
         \/ ReadCheck(r) \/ ReadUpdate(r) \/ DropCheck(r) \/ DropRow(r)
  PROVE  DeviceInv'
<1>1. UNCHANGED <<text, reaction, found, view, told>>
  BY DEF SendCheck, SealCheck, SealInsert, EditSelect, DeleteSelect, DeleteCheck, ReactSelect,
     ReactCheck, TagCheck, TagLookup, TagInsert, UntagCheck, UntagDelete, MuteCheck, MuteUpsert,
     UnmuteDelete, UploadWrite, UploadInsert, ReadCheck, ReadUpdate, DropCheck, DropRow, Reads,
     tables, request, events
<1>2. op[r] = "send" => pc[r] # "link" /\ (pc'[r] = "done" \/ (pc[r] = "conv" /\ pc'[r] = "insert"))
  <2> SUFFICES ASSUME op[r] = "send"
               PROVE  pc[r] # "link" /\ (pc'[r] = "done" \/ (pc[r] = "conv" /\ pc'[r] = "insert"))
    OBVIOUS
  <2>1. SendCheck(r)
    BY DEF SealCheck, SealInsert, EditSelect, DeleteSelect, DeleteCheck, ReactSelect,
       ReactCheck, TagCheck, TagLookup, TagInsert, UntagCheck, UntagDelete, MuteCheck, MuteUpsert,
       UnmuteDelete, UploadWrite, UploadInsert, ReadCheck, ReadUpdate, DropCheck, DropRow, At
  <2>2. pc[r] = "conv" /\ (Goto(r, "insert") \/ Goto(r, "done"))
    BY <2>1 DEF SendCheck, Reads, At
  <2>3. QED
    BY <2>2 DEF Goto, RaceInv, TableTypes
<1>3. ASSUME op[r] \in {"edit", "delete", "react"}
      PROVE  /\ pc[r] = "select" => pc'[r] = "done" \/ Present(msg[r])
             /\ pc[r] \notin {"notify", "done"} /\ pc'[r] # "notify"
             /\ op[r] = "react" => pc'[r] \notin {"insert", "remove"}
  <2>1. EditSelect(r) \/ DeleteSelect(r) \/ DeleteCheck(r) \/ ReactSelect(r) \/ ReactCheck(r)
    BY <1>3 DEF SendCheck, SealCheck, SealInsert, TagCheck, TagLookup, TagInsert, UntagCheck,
       UntagDelete, MuteCheck, MuteUpsert, UnmuteDelete, UploadWrite, UploadInsert, ReadCheck,
       ReadUpdate, DropCheck, DropRow, At
  <2>2. QED
    BY <2>1 DEF EditSelect, DeleteSelect, DeleteCheck, ReactSelect, ReactCheck, Reads, At, Goto,
       Editable, RaceInv, TableTypes
<1>4. QED
  BY <1>1, <1>2, <1>3, IdleDevice

(* A request that writes to a message while nobody else works on it, so     *)
(* that it is not raced for, meets no other one that has yet to tell.       *)
LEMMA Alone ==
  ASSUME NEW r \in Requests, NEW m \in Msgs, Race(r, m), m \notin raced'
  PROVE  \A s \in Requests : s # r => ~WorksOn(s, m) /\ ~Telling(s, m) /\ ~Toggled(s, m)
BY DEF Race, Overlaps, WorksOn, InFlight, Telling, Toggled, At

\* Others tell of what they told of before.
LEMMA OthersTell ==
  ASSUME NEW r \in Requests, Works(r)
  PROVE  \A s \in Requests, m \in Msgs :
           s # r => /\ Telling(s, m)' <=> Telling(s, m)
                    /\ Toggled(s, m)' <=> Toggled(s, m)
                    /\ Tells(s)' = Tells(s)
BY DEF Works, Telling, Toggled, Tells, At

(* A statement that leaves the text of a message alone, and what devices    *)
(* see of it.                                                               *)
LEMMA SameText ==
  ASSUME DeviceInv, NEW r \in Requests, Works(r), NEW m \in Msgs,
         text'[m] = text[m], view'[m] = view[m], op[r] = "react" \/ m # msg[r]
  PROVE  TextAt(m)'
<1>1. ~Telling(r, m) /\ ~Telling(r, m)'
  BY DEF Telling, At, Works
<1>2. \A s \in Requests : Telling(s, m)' <=> Telling(s, m)
  BY <1>1, OthersTell
<1>3. \A s \in Requests : Telling(s, m) => Tells(s)' = Tells(s)
  BY <1>1, OthersTell
<1>4. TextAt(m) /\ raced \subseteq raced'
  BY DEF DeviceInv, Works
<1>5. QED
  BY <1>2, <1>3, <1>4 DEF TextAt, Present

(* The same for the reaction.                                               *)
LEMMA SameReaction ==
  ASSUME DeviceInv, NEW r \in Requests, Works(r), NEW m \in Msgs,
         Present(m)' => Present(m), reaction'[m] = reaction[m], told'[m] = told[m],
         op[r] # "react" \/ m # msg[r]
  PROVE  ReactionAt(m)'
<1>1. ~Toggled(r, m) /\ ~Toggled(r, m)'
  BY DEF Toggled, At, Works
<1>2. \A s \in Requests : Toggled(s, m)' <=> Toggled(s, m)
  BY <1>1, OthersTell
<1>3. \A s \in Requests : Toggled(s, m) => found'[s] = found[s]
  BY <1>1 DEF Works
<1>4. ReactionAt(m) /\ raced \subseteq raced'
  BY DEF DeviceInv, Works
<1>5. QED
  BY <1>2, <1>3, <1>4 DEF ReactionAt

\* Request r writes message m, or tells of it, and no other one.
Writes(r, m) ==
  /\ Works(r) /\ msg[r] = m
  /\ \A n \in Msgs \ {m} :
       text'[n] = text[n] /\ view'[n] = view[n] /\ reaction'[n] = reaction[n] /\ told'[n] = told[n]
  /\ told' \in [Msgs -> {"none", "added", "removed"}]

\* The message was stored, by a request that is past its INSERT.
Sent(m) ==
  /\ ~Unsent(m)'
  /\ \A s \in Requests : op[s] = "send" /\ msg[s] = m => pc'[s] \notin {"conv", "insert"}

(* What is left to show of such a statement: that it keeps its message.     *)
LEMMA WriteDevice ==
  ASSUME TableTypes, DeviceInv, NEW r \in Requests, NEW m \in Msgs, Writes(r, m), Sent(m),
         FoundInv', TextAt(m)', ReactionAt(m)'
  PROVE  DeviceInv'
<1> USE DEF DeviceInv, Writes
<1>1. UnsentInv'
  <2>1. ASSUME NEW n \in Msgs PROVE UnsentAt(n)'
    <3>1. CASE n = m
      BY <3>1 DEF UnsentAt, Sent
    <3>2. CASE n # m
      <4>1. Unsent(n)' => Unsent(n)
        BY <3>2 DEF Unsent, Works
      <4>2. QED
        BY <3>2, <4>1 DEF UnsentInv, UnsentAt, Present, Works
    <3>3. QED
      BY <3>1, <3>2
  <2>2. ASSUME NEW s \in Requests, op'[s] = "send", pc'[s] \in {"conv", "insert"}
        PROVE  view'[msg'[s]] = "none"
    <3>1. op[s] = "send" /\ msg'[s] = msg[s] /\ msg[s] # m
      BY <2>2 DEF Works, Sent
    <3>2. s # r
      BY <3>1
    <3>3. view[msg[s]] = "none"
      BY <2>2, <3>1, <3>2 DEF UnsentInv, Works
    <3>4. QED
      BY <3>1, <3>3 DEF TableTypes
  <2>3. QED
    BY <2>1, <2>2 DEF UnsentInv
<1>2. ASSUME NEW n \in Msgs PROVE TextAt(n)' /\ ReactionAt(n)'
  <2>1. CASE n # m
    BY <2>1, SameText, SameReaction DEF Present
  <2>2. CASE n = m
    BY <2>2
  <2>3. QED
    BY <2>1, <2>2
<1>3. QED
  BY <1>1, <1>2

(* A handler past its first SELECT works on a message that was stored, and  *)
(* no handler tells devices that it was not.                                *)
LEMMA PastSelect ==
  ASSUME RaceInv, DeviceInv, NEW r \in Requests, op[r] \in {"edit", "delete", "react"},
         pc[r] \notin {"idle", "select", "done"}, Works(r), NEW m \in Msgs, m = msg[r],
         view'[m] = view[m] \/ view'[m] # "none"
  PROVE  Sent(m)
<1>1. ~Unsent(m)
  BY DEF DeviceInv, UnsentInv, UnsentAt
<1>2. ~Unsent(m)'
  <2>1. CASE view[m] # "none"
    BY <2>1 DEF Unsent
  <2>2. CASE view[m] = "none"
    <3>1. PICK s \in Requests : op[s] = "send" /\ msg[s] = m /\ pc[s] = "link"
      BY <1>1, <2>2 DEF Unsent
    <3>2. QED
      BY <3>1 DEF Unsent, Works
  <2>3. QED
    BY <2>1, <2>2
<1>3. ASSUME NEW s \in Requests, op[s] = "send", msg[s] = m PROVE pc'[s] \notin {"conv", "insert"}
  <2>1. s # r
    BY <1>3
  <2>2. pc[s] \in {"conv", "insert"} => view[m] = "none"
    BY <1>3 DEF DeviceInv, UnsentInv
  <2>3. pc[s] \in {"conv", "insert"} => Unsent(m)
    BY <1>3, <2>2 DEF Unsent, RaceInv, SentOnce
  <2>4. QED
    BY <1>1, <2>1, <2>3 DEF Works
<1>4. QED
  BY <1>2, <1>3 DEF Sent

(* Toggles of other requests read a reaction that only a race may change.   *)
LEMMA SameFound ==
  ASSUME TableTypes, DeviceInv, NEW r \in Requests, NEW m \in Msgs, Writes(r, m),
         reaction'[m] = reaction[m] \/ Race(r, m),
         found' = found, pc'[r] \notin {"insert", "remove"}
  PROVE  FoundInv'
<1> USE DEF DeviceInv, FoundInv, Writes, Works
<1>1. ASSUME NEW s \in Requests, At(s, "react", "insert")' PROVE found'[s] = None
  BY <1>1 DEF At
<1>2. ASSUME NEW s \in Requests, At(s, "react", "remove")'
      PROVE  found'[s] # None /\ (msg'[s] \notin raced' => reaction'[msg'[s]] \in {found'[s], None})
  <2>1. s # r /\ At(s, "react", "remove") /\ found'[s] = found[s] /\ msg'[s] = msg[s] /\ msg[s] \in Msgs
    BY <1>2 DEF At, TableTypes
  <2>2. CASE msg[s] # m \/ reaction'[m] = reaction[m]
    BY <2>1, <2>2
  <2>3. CASE msg[s] = m /\ Race(r, m)
    <3>1. WorksOn(s, m)
      BY <2>1, <2>3 DEF WorksOn, InFlight, At
    <3>2. m \in raced'
      BY <2>1, <3>1, <2>3, Alone
    <3>3. QED
      BY <2>1, <2>3, <3>2
  <2>4. QED
    BY <2>2, <2>3
<1>3. QED
  BY <1>1, <1>2

(* The INSERT of a message makes its sender the one who tells of it.        *)
LEMMA SendInsertDevice ==
  ASSUME RefInv, RaceInv, DeviceInv, NEW r \in Requests, Works(r), SendInsert(r)
  PROVE  DeviceInv'
<1>0. op[r] = "send" /\ pc[r] = "insert" /\ UNCHANGED <<reaction, found, view, told, op, msg, raced>>
  BY DEF SendInsert, At, request, events
<1>1. CASE ~Referenced
  <2>1. pc'[r] = "done" /\ UNCHANGED text
    BY <1>1 DEF SendInsert, Goto, RaceInv, TableTypes
  <2>2. QED
    BY <1>0, <2>1, IdleDevice
<1>2. CASE Referenced
  <2> DEFINE m == msg[r]
  <2>0. m \in Msgs /\ text \in [Msgs -> Texts] /\ m' = m
    BY <1>0 DEF RaceInv, TableTypes
  <2>1. text' = [text EXCEPT ![m] = "original"] /\ pc'[r] = "link"
    BY <1>2 DEF SendInsert, Goto, RaceInv, TableTypes
  <2>2. Unsent(m) /\ told[m] = "none" /\ reaction[m] = None
    <3>1. view[m] = "none"
      BY <1>0 DEF DeviceInv, UnsentInv
    <3>2. Unsent(m)
      BY <1>0, <3>1 DEF Unsent, RaceInv, SentOnce
    <3>3. ~Present(m) /\ told[m] = "none"
      BY <2>0, <3>2 DEF DeviceInv, UnsentInv, UnsentAt
    <3>4. QED
      BY <2>0, <3>2, <3>3 DEF RefInv, ReactionHasMessage
  <2>3. \A s \in Requests : s # r => ~Telling(s, m) /\ ~Toggled(s, m)
    <3>1. \A s \in Requests : op[s] \in {"edit", "delete", "react"} /\ msg[s] = m =>
                                pc[s] \in {"select", "done"}
      BY <2>0, <2>2 DEF DeviceInv, UnsentInv, UnsentAt
    <3>2. \A s \in Requests : op[s] = "send" /\ msg[s] = m => s = r
      BY <1>0 DEF RaceInv, SentOnce
    <3>3. QED
      BY <3>1, <3>2 DEF Telling, Toggled, At
  <2>4. Writes(r, m)
    BY <1>0, <2>0, <2>1 DEF Writes, DeviceInv
  <2>5. Sent(m)
    <3>1. \A s \in Requests : op[s] = "send" /\ msg[s] = m => s = r
      BY <1>0 DEF RaceInv, SentOnce
    <3>2. QED
      BY <1>0, <2>1, <3>1 DEF Sent, Unsent
  <2>6. FoundInv'
    BY <1>0, <2>0, <2>1, <2>4, SameFound DEF RaceInv
  <2>7. text'[m] = "original" /\ Tells(r)' = "original" /\ Telling(r, m)' /\ ~Toggled(r, m)'
    BY <1>0, <2>0, <2>1 DEF Tells, Telling, Toggled, At
  <2> HIDE DEF m
  <2>8. TextAt(m)'
    <3>1. \A s \in Requests : Telling(s, m)' => s = r
      BY <2>0, <2>3, OthersTell
    <3>2. QED
      BY <2>0, <2>7, <3>1 DEF TextAt
  <2>9. ReactionAt(m)'
    <3>1. \A s \in Requests : ~Toggled(s, m)'
      BY <2>0, <2>3, <2>7, OthersTell
    <3>2. told'[m] = "none" /\ reaction'[m] = None
      BY <1>0, <2>2
    <3>3. QED
      BY <2>0, <3>1, <3>2 DEF ReactionAt
  <2>10. QED
    BY <2>0, <2>4, <2>5, <2>6, <2>8, <2>9, WriteDevice DEF RaceInv
<1>3. QED
  BY <1>1, <1>2

(* Linking an attachment is not told, and leaves the text alone.            *)
LEMMA SendLinkDevice ==
  ASSUME DeviceInv, NEW r \in Requests, SendLink(r)
  PROVE  DeviceInv'
<1>1. UNCHANGED <<text, reaction, op, msg, pc, found, view, told, raced>>
  BY DEF SendLink, events
<1>2. QED
  BY <1>1 DEF DeviceInv, UnsentInv, UnsentAt, Unsent, FoundInv, TextAt, Telling, Tells, ReactionAt,
     Toggled, Present, At

(* Whoever tells of a message tells what is in the table, unless it was     *)
(* raced for.                                                               *)
LEMMA TellDevice ==
  ASSUME RaceInv, DeviceInv, NEW r \in Requests, NEW m \in Msgs, Works(r), Sent(m), Race(r, m),
         Telling(r, m), pc'[r] = "done", Present(m) => view' = [view EXCEPT ![m] = Tells(r)],
         view' = view \/ view' = [view EXCEPT ![m] = Tells(r)],
         UNCHANGED <<text, reaction, found, told>>
  PROVE  DeviceInv'
<1>1. view \in [Msgs -> Texts]
  BY DEF RaceInv, RaceTypes
<1>2. Writes(r, m)
  BY <1>1 DEF Writes, Telling, DeviceInv
<1>3. FoundInv'
  BY <1>2, SameFound DEF RaceInv
<1>4. TextAt(m)'
  <2> SUFFICES ASSUME Present(m)', m \notin raced'
               PROVE  /\ \A s \in Requests : ~Telling(s, m)'
                      /\ view'[m] = text'[m]
    BY DEF TextAt
  <2>1. \A s \in Requests : ~Telling(s, m)'
    <3>1. ~Telling(r, m)'
      BY DEF Telling, At
    <3>2. QED
      BY <3>1, Alone, OthersTell
  <2>2. Present(m) /\ m \notin raced
    BY DEF Present, Works
  <2>3. text[m] = Tells(r)
    BY <2>2 DEF DeviceInv, TextAt
  <2>4. QED
    BY <1>1, <2>1, <2>2, <2>3
<1>5. ReactionAt(m)'
  <2>1. op[r] # "react"
    BY DEF Telling, At
  <2>2. QED
    BY <2>1, SameReaction DEF Present
<1>6. QED
  BY <1>2, <1>3, <1>4, <1>5, WriteDevice DEF RaceInv

(* A sender delivers what it stored; nobody else has sent the id.           *)
LEMMA SendDeliverDevice ==
  ASSUME RaceInv, DeviceInv, NEW r \in Requests, Works(r), SendDeliver(r)
  PROVE  DeviceInv'
<1>1. PICK m \in Msgs : m = msg[r]
  BY DEF SendDeliver, At, RaceInv, TableTypes
<1>2. /\ op[r] = "send" /\ pc[r] = "link" /\ view' = [view EXCEPT ![m] = "original"]
      /\ Race(r, m) /\ UNCHANGED <<text, reaction, found, told, op, msg>>
  BY <1>1 DEF SendDeliver, At, tables, request
<1>3. pc'[r] = "done"
  BY DEF SendDeliver, Goto, RaceInv, TableTypes
<1>4. Telling(r, m) /\ Tells(r) = "original"
  BY <1>1, <1>2 DEF Telling, Tells, At
<1>5. Sent(m)
  <2>1. \A s \in Requests : op[s] = "send" /\ msg[s] = m => s = r
    BY <1>1, <1>2 DEF RaceInv, SentOnce
  <2>2. view'[m] = "original"
    BY <1>2 DEF RaceInv, RaceTypes
  <2>3. QED
    BY <1>3, <2>1, <2>2 DEF Sent, Unsent
<1>6. QED
  BY <1>2, <1>3, <1>4, <1>5, TellDevice

(* The events of an edit and of a deletion; an edit does not look for the   *)
(* devices of a conversation that is gone, and so has no message.           *)
LEMMA NotifyDevice ==
  ASSUME RefInv, RaceInv, DeviceInv, NEW r \in Requests, Works(r), EditNotify(r) \/ DeleteNotify(r)
  PROVE  DeviceInv'
<1>1. PICK m \in Msgs : m = msg[r]
  BY DEF EditNotify, DeleteNotify, At, RaceInv, TableTypes
<1>2. /\ op[r] \in {"edit", "delete"} /\ pc[r] = "notify"
      /\ Race(r, m) /\ UNCHANGED <<text, reaction, found, told, op, msg>>
  BY <1>1 DEF EditNotify, DeleteNotify, At, tables, request
<1>3. pc'[r] = "done"
  BY DEF EditNotify, DeleteNotify, Goto, RaceInv, TableTypes
<1>4. Telling(r, m)
  BY <1>1, <1>2 DEF Telling, At
<1>5. /\ Present(m) => view' = [view EXCEPT ![m] = Tells(r)]
      /\ view' = view \/ view' = [view EXCEPT ![m] = Tells(r)]
  <2>1. CASE EditNotify(r)
    <3>1. Tells(r) = r
      BY <2>1 DEF EditNotify, Tells, At
    <3>2. CASE conv
      BY <1>1, <2>1, <3>1, <3>2 DEF EditNotify
    <3>3. CASE ~conv
      BY <1>1, <2>1, <3>3 DEF EditNotify, RefInv, NothingLeftBehind
    <3>4. QED
      BY <3>2, <3>3
  <2>2. CASE DeleteNotify(r)
    BY <1>1, <2>2 DEF DeleteNotify, Tells, At
  <2>3. QED
    BY <2>1, <2>2
<1>6. Sent(m)
  <2>1. Tells(r) # "none"
    BY <1>2, ConversationAssumption DEF Tells
  <2>2. view'[m] = view[m] \/ view'[m] # "none"
    BY <1>5, <2>1 DEF RaceInv, RaceTypes
  <2>3. QED
    BY <1>1, <1>2, <2>2, PastSelect
<1>7. QED
  BY <1>2, <1>3, <1>4, <1>5, <1>6, TellDevice

(* The UPDATE of an edit and of a deletion: who writes has yet to tell.     *)
LEMMA UpdateDevice ==
  ASSUME RaceInv, DeviceInv, NEW r \in Requests, Works(r), EditUpdate(r) \/ DeleteUpdate(r)
  PROVE  DeviceInv'
<1>1. PICK m \in Msgs : m = msg[r]
  BY DEF EditUpdate, DeleteUpdate, At, RaceInv, TableTypes
<1>2. /\ op[r] \in {"edit", "delete"} /\ pc[r] = "update"
      /\ Race(r, m) /\ UNCHANGED <<reaction, found, view, told, op, msg>>
  BY <1>1 DEF EditUpdate, DeleteUpdate, At, events, request
<1>3. pc'[r] = "notify"
  BY DEF EditUpdate, DeleteUpdate, Goto, RaceInv, TableTypes
<1>4. text' = IF Present(m) THEN [text EXCEPT ![m] = Tells(r)] ELSE text
  BY <1>1 DEF EditUpdate, DeleteUpdate, Tells, At
<1>5. text \in [Msgs -> Texts]
  BY DEF RaceInv, TableTypes
<1>6. Writes(r, m)
  BY <1>1, <1>2, <1>4, <1>5 DEF Writes, DeviceInv
<1>7. Sent(m)
  BY <1>1, <1>2, PastSelect
<1>8. FoundInv'
  BY <1>2, <1>3, <1>6, SameFound DEF RaceInv
<1>9. Tells(r)' = Tells(r) /\ Telling(r, m)'
  BY <1>1, <1>2, <1>3 DEF Tells, Telling, At
<1>10. TextAt(m)'
  <2> SUFFICES ASSUME Present(m)', m \notin raced'
               PROVE  \A s \in Requests : Telling(s, m)' => text'[m] = Tells(s)'
    BY <1>9 DEF TextAt
  <2>1. \A s \in Requests : Telling(s, m)' => s = r
    BY <1>2, Alone, OthersTell
  <2>2. text'[m] = Tells(r)
    BY <1>4, <1>5 DEF Present
  <2>3. QED
    BY <1>9, <2>1, <2>2
<1>11. ReactionAt(m)'
  <2>1. Present(m)' => Present(m)
    BY <1>4 DEF Present
  <2>2. QED
    BY <1>2, <2>1, SameReaction
<1>12. QED
  BY <1>6, <1>7, <1>8, <1>10, <1>11, WriteDevice DEF RaceInv

(* A toggle that finds no reaction goes on to add one, and otherwise to     *)
(* remove the one it found.                                                 *)
LEMMA ReactLookupDevice ==
  ASSUME RaceInv, DeviceInv, NEW r \in Requests, Works(r), ReactLookup(r)
  PROVE  DeviceInv'
<1>1. PICK m \in Msgs : m = msg[r]
  BY DEF ReactLookup, At, RaceInv, TableTypes
<1>2. /\ op[r] = "react" /\ pc[r] = "toggle" /\ found' = [found EXCEPT ![r] = reaction[m]]
      /\ UNCHANGED <<text, reaction, view, told, op, msg, raced>>
  BY <1>1 DEF ReactLookup, At, tables, events
<1>3. /\ reaction[m] = None => pc'[r] = "insert"
      /\ reaction[m] # None => pc'[r] = "remove"
  BY <1>1 DEF ReactLookup, Goto, RaceInv, TableTypes
<1>4. found \in [Requests -> Requests \cup {None}] /\ reaction[m] \in Requests \cup {None}
  BY DEF DeviceInv, FoundInv, RaceInv, TableTypes
<1>5. found'[r] = reaction[m] /\ found' \in [Requests -> Requests \cup {None}]
  BY <1>2, <1>4
<1>6. Writes(r, m)
  BY <1>1, <1>2 DEF Writes, DeviceInv
<1>7. Sent(m)
  BY <1>1, <1>2, PastSelect
<1>8. FoundInv'
  BY <1>1, <1>2, <1>3, <1>5 DEF DeviceInv, FoundInv, Works, At
<1>9. TextAt(m)'
  BY <1>2, SameText
<1>10. ReactionAt(m)'
  <2>1. ~Toggled(r, m) /\ ~Toggled(r, m)'
    BY <1>2, <1>3 DEF Toggled, At
  <2>2. \A s \in Requests : Toggled(s, m)' <=> Toggled(s, m)
    BY <2>1, OthersTell
  <2>3. \A s \in Requests : Toggled(s, m) => found'[s] = found[s]
    BY <2>1 DEF Works
  <2>4. QED
    BY <1>2, <2>2, <2>3 DEF DeviceInv, ReactionAt, Present
<1>11. QED
  BY <1>6, <1>7, <1>8, <1>9, <1>10, WriteDevice DEF RaceInv

(* Adding and removing the reaction, unless somebody else was faster.       *)
LEMMA ToggleDevice ==
  ASSUME RaceInv, DeviceInv, NEW r \in Requests, Works(r), ReactInsert(r) \/ ReactRemove(r)
  PROVE  DeviceInv'
<1>1. PICK m \in Msgs : m = msg[r]
  BY DEF ReactInsert, ReactRemove, At, RaceInv, TableTypes
<1>2. /\ op[r] = "react" /\ pc[r] \in {"insert", "remove"} /\ Race(r, m)
      /\ UNCHANGED <<text, found, view, told, op, msg>>
  BY <1>1 DEF ReactInsert, ReactRemove, At, request, events
<1>3. pc'[r] \in {"notify", "done"}
  BY DEF ReactInsert, ReactRemove, Goto, RaceInv, TableTypes
<1>4. reaction \in [Msgs -> Requests \cup {None}]
  BY DEF RaceInv, TableTypes
<1>5. reaction' = reaction \/ \E q \in Requests \cup {None} : reaction' = [reaction EXCEPT ![m] = q]
  BY <1>1, <1>4 DEF ReactInsert, ReactRemove
<1>6. Writes(r, m)
  BY <1>1, <1>2, <1>4, <1>5 DEF Writes, DeviceInv
<1>7. Sent(m)
  BY <1>1, <1>2, PastSelect
<1>8. FoundInv'
  BY <1>2, <1>3, <1>6, SameFound DEF RaceInv
<1>9. TextAt(m)'
  BY <1>2, SameText
<1>10. ReactionAt(m)'
  <2> SUFFICES ASSUME Present(m)', m \notin raced'
               PROVE  /\ \A s \in Requests : Toggled(s, m)' => (found'[s] = None <=> reaction'[m] # None)
                      /\ \/ told'[m] = "added" <=> reaction'[m] # None
                         \/ \E s \in Requests : Toggled(s, m)'
    BY DEF ReactionAt
  <2>1. \A s \in Requests : Toggled(s, m)' => s = r
    BY <1>2, Alone, OthersTell
  <2>2. \A s \in Requests : ~Toggled(s, m)
    BY <1>2, Alone DEF Toggled, At
  <2>3. Present(m) /\ m \notin raced
    BY <1>2 DEF Present, Works
  <2>4. told[m] = "added" <=> reaction[m] # None
    BY <2>2, <2>3 DEF DeviceInv, ReactionAt
  <2>5. CASE ReactInsert(r) /\ reaction[m] = None
    <3>1. reaction' = [reaction EXCEPT ![m] = r] /\ pc'[r] = "notify"
      BY <1>1, <2>3, <2>5 DEF ReactInsert, Goto, RaceInv, TableTypes
    <3>2. reaction'[m] # None
      BY <1>4, <3>1, ConversationAssumption
    <3>3. found'[r] = None
      BY <1>2, <2>5 DEF ReactInsert, DeviceInv, FoundInv
    <3>4. Toggled(r, m)'
      BY <1>1, <1>2, <3>1 DEF Toggled, At
    <3>5. QED
      BY <2>1, <3>2, <3>3, <3>4
  <2>6. CASE ReactInsert(r) /\ reaction[m] # None
    <3>1. reaction' = reaction /\ pc'[r] = "done"
      BY <1>1, <2>6 DEF ReactInsert, Goto, RaceInv, TableTypes
    <3>2. ~Toggled(r, m)'
      BY <3>1 DEF Toggled, At
    <3>3. QED
      BY <1>2, <2>1, <2>4, <3>1, <3>2
  <2>7. CASE ReactRemove(r)
    <3>1. found[r] # None /\ reaction[m] \in {found[r], None}
      BY <1>1, <2>3, <2>7 DEF ReactRemove, DeviceInv, FoundInv
    <3>2. pc'[r] = "notify"
      BY <2>7 DEF ReactRemove, Goto, RaceInv, TableTypes
    <3>3. reaction'[m] = None
      BY <1>1, <1>4, <2>7, <3>1 DEF ReactRemove
    <3>4. Toggled(r, m)'
      BY <1>1, <1>2, <3>2 DEF Toggled, At
    <3>5. QED
      BY <1>2, <2>1, <3>1, <3>3, <3>4
  <2>8. QED
    BY <2>5, <2>6, <2>7
<1>11. QED
  BY <1>6, <1>7, <1>8, <1>9, <1>10, WriteDevice DEF RaceInv

(* Devices are told what the toggle did.                                    *)
LEMMA ReactNotifyDevice ==
  ASSUME RaceInv, DeviceInv, NEW r \in Requests, Works(r), ReactNotify(r)
  PROVE  DeviceInv'
<1>1. PICK m \in Msgs : m = msg[r]
  BY DEF ReactNotify, At, RaceInv, TableTypes
<1>2. /\ op[r] = "react" /\ pc[r] = "notify" /\ Race(r, m)
      /\ told' = [told EXCEPT ![m] = IF found[r] = None THEN "added" ELSE "removed"]
      /\ UNCHANGED <<text, reaction, found, view, op, msg>>
  BY <1>1 DEF ReactNotify, At, tables, request
<1>3. pc'[r] = "done"
  BY DEF ReactNotify, Goto, RaceInv, TableTypes
<1>4. told \in [Msgs -> {"none", "added", "removed"}]
  BY DEF DeviceInv
<1>5. Writes(r, m)
  BY <1>1, <1>2, <1>4 DEF Writes
<1>6. Sent(m)
  BY <1>1, <1>2, PastSelect
<1>7. FoundInv'
  BY <1>2, <1>3, <1>5, SameFound DEF RaceInv
<1>8. TextAt(m)'
  BY <1>2, SameText
<1>9. ReactionAt(m)'
  <2> SUFFICES ASSUME Present(m)', m \notin raced'
               PROVE  /\ \A s \in Requests : ~Toggled(s, m)'
                      /\ told'[m] = "added" <=> reaction'[m] # None
    BY DEF ReactionAt
  <2>1. ~Toggled(r, m)' /\ Toggled(r, m)
    BY <1>1, <1>2, <1>3 DEF Toggled, At
  <2>2. \A s \in Requests : ~Toggled(s, m)'
    BY <1>2, <2>1, Alone, OthersTell
  <2>3. Present(m) /\ m \notin raced
    BY <1>2 DEF Present, Works
  <2>4. found[r] = None <=> reaction[m] # None
    BY <2>1, <2>3 DEF DeviceInv, ReactionAt
  <2>5. told'[m] = "added" <=> found[r] = None
    BY <1>2, <1>4
  <2>6. QED
    BY <1>2, <2>2, <2>4, <2>5
<1>10. QED
  BY <1>5, <1>6, <1>7, <1>8, <1>9, WriteDevice DEF RaceInv

(* The messages of a conversation that is deleted are gone; a device that   *)
(* shows them still is not told.                                            *)
LEMMA DropDevice ==
  ASSUME RaceInv, DeviceInv, NEW r \in Requests, Works(r), DropMessages(r)
  PROVE  DeviceInv'
<1>1. op[r] = "drop" /\ UNCHANGED <<found, view, told, op, msg, raced>>
  BY DEF DropMessages, At, request, events
<1>2. CASE UNCHANGED <<text, reaction>>
  BY <1>1, <1>2, IdleDevice
<1>3. CASE text' = [m \in Msgs |-> "none"] /\ reaction' = [m \in Msgs |-> None]
  <2>1. UnsentInv'
    <3>1. \A m \in Msgs : Unsent(m)' => Unsent(m)
      BY <1>1 DEF Unsent, Works
    <3>2. \A m \in Msgs : UnsentAt(m)'
      BY <1>1, <1>3, <3>1 DEF DeviceInv, UnsentInv, UnsentAt, Present, Works
    <3>3. QED
      BY <1>1, <3>2 DEF DeviceInv, UnsentInv, Works
  <2>2. FoundInv'
    <3>1. \A s \in Requests : op[s] = "react" => msg[s] \in Msgs
      BY DEF RaceInv, TableTypes
    <3>2. QED
      BY <1>1, <1>3, <3>1 DEF DeviceInv, FoundInv, Works, At
  <2>3. \A m \in Msgs : TextAt(m)' /\ ReactionAt(m)'
    BY <1>3 DEF TextAt, ReactionAt, Present
  <2>4. QED
    BY <1>1, <2>1, <2>2, <2>3 DEF DeviceInv
<1>4. QED
  BY <1>2, <1>3 DEF DropMessages

(* What devices were told, over every behaviour of the handlers.            *)
THEOREM Devices == Spec => []DeviceInv
<1>1. RefInv /\ RaceInv /\ DeviceInv /\ [Next]_vars => DeviceInv'
  <2> SUFFICES ASSUME RefInv, RaceInv, DeviceInv, [Next]_vars PROVE DeviceInv'
    OBVIOUS
  <2>1. CASE UNCHANGED vars
    <3>1. UNCHANGED <<text, reaction, op, msg, pc, found, view, told, raced>>
      BY <2>1 DEF vars, tables, request, events
    <3>2. QED
      BY <3>1 DEF DeviceInv, UnsentInv, UnsentAt, Unsent, FoundInv, TextAt, Telling, Tells,
         ReactionAt, Toggled, Present, At
  <2>2. ASSUME NEW r \in Requests, Start(r) PROVE DeviceInv'
    BY <2>2, StartDevice
  <2>3. ASSUME NEW r \in Requests, Step(r) PROVE DeviceInv'
    <3>1. Works(r)
      BY <2>3, StepWorks
    <3>2. QED
      BY <2>3, <3>1, OthersDevice, SendInsertDevice, SendLinkDevice, SendDeliverDevice,
         NotifyDevice, UpdateDevice, ReactLookupDevice, ToggleDevice, ReactNotifyDevice, DropDevice
         DEF Step
  <2>4. QED
    BY <2>2, <2>3, <2>1 DEF Next
<1>2. QED
  BY <1>1, InitDevice, References, Races, PTL DEF Spec

(* Once nobody works on a message, devices show the text and the reaction   *)
(* that the tables hold, unless requests raced for it, for any number of    *)
(* requests (messages_edit_delete.go:66-97 and 169-194, reactions.go:46-69  *)
(* and 145-182).                                                            *)
THEOREM DevicesUpToDateHolds == Spec => []DevicesUpToDate
<1>1. DeviceInv => DevicesUpToDate
  <2> SUFFICES ASSUME DeviceInv, NEW m \in Msgs, Present(m), m \notin raced, Quiet(m)
               PROVE  view[m] = text[m] /\ (told[m] = "added" <=> reaction[m] # None)
    BY DEF DevicesUpToDate
  <2>1. \A r \in Requests : ~Telling(r, m) /\ ~Toggled(r, m)
    BY DEF Quiet, WorksOn, InFlight, Telling, Toggled, At
  <2>2. QED
    BY <2>1 DEF DeviceInv, TextAt, ReactionAt
<1>2. QED
  BY <1>1, Devices, PTL
=============================================================================
