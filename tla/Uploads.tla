------------------------------ MODULE Uploads ------------------------------
(***************************************************************************)
(* The files of one ticket: attachments and recordings, as rows of the     *)
(* database and as objects of the storage (backend/apps/tickets/views.py,  *)
(* serializers.py, tasks.py; videos/; contacts/gdpr.py).                   *)
(*                                                                         *)
(* Agents upload the files of a reply before they post it; those no reply  *)
(* took are purged. The requester's come with a message, or without one.   *)
(* A recording is processed by a task, and expires. Erasing the ticket's   *)
(* contact takes what it uploaded. Storage follows no transaction.         *)
(*                                                                         *)
(* Left out: the content of files and their limits, transcription (it does *)
(* nothing yet), recordings that agents create, agents whose account is    *)
(* deleted, and the inbound mails' files, which are InboundMail's.         *)
(***************************************************************************)
EXTENDS Integers, FiniteSets

CONSTANTS
  MaxFiles,     \* bound on the attachments,
  MaxVideos,    \* the recordings,
  MaxMessages,  \* and the messages ever created
  MaxRetries,   \* of a recording's processing
  Procs,        \* requests and tasks under way
  Faults,       \* what may happen, besides, once: a subset of FaultKinds
  MaxFaults,    \* how many of them, in all
  None

FaultKinds ==
  {"late",      \* a request saves a row that changed since it was loaded
   "crash",     \* a worker is killed while it processes a recording
   "unqueued",  \* a recording's task couldn't be queued
   "storage"}   \* the storage fails to delete

ASSUME UploadsAssumption ==
  /\ MaxFiles \in Nat /\ MaxVideos \in Nat /\ MaxMessages \in Nat
  /\ MaxRetries \in Nat /\ MaxFaults \in Nat /\ Faults \subseteq FaultKinds

VARIABLES
  ticket,    \* "live", "erased" once its contact is anonymized, or "deleted"
  msg,       \* TicketMessage: who wrote each
  att,       \* TicketAttachment: its row, if any
  video,     \* VideoRecording: its row, if any
  stored,    \* the objects in the storage
  tasks,     \* process_video: the recordings to process, after how many retries
  pc, job,   \* what each request and worker does, and what it has in hand
  whose,     \* history: who uploaded each attachment
  named,     \* history: the files each reply was posted with, not removed since
  late,      \* history: the objects stored since the last erasure
  strayed,   \* history: the objects left without a row or a task to delete them
  happened   \* the faults that happened

rows == <<msg, att, video>>
procs == <<pc, job>>
history == <<whose, named, late>>
vars == <<ticket, msg, att, video, stored, tasks, pc, job, whose, named, late,
          strayed, happened>>

Files == 1 .. MaxFiles
Videos == 1 .. MaxVideos
Messages == 1 .. MaxMessages

FileObjects(F) == {"file"} \X F
Originals(V) == {"original"} \X V
Objects == FileObjects(Files) \cup Originals(Videos) \cup ({"thumbnail"} \X Videos)

Attachments == [by : {"agent", "nobody"}, msg : Messages \cup {None},
                awaiting : BOOLEAN, old : BOOLEAN]
Recordings == [status : {"uploading", "processing", "ready", "failed",
                         "expired", "deleted"},
               expires : {"later", "past", None}]

ASSUME NoneAssumption ==
  None \notin Messages \cup Attachments \cup Recordings \cup {"agent", "requester"}

Jobs == [files : SUBSET Files, row : Attachments \cup {None}, msg : Messages \cup {None},
         kind : {"file", "video", None}, video : Videos \cup {None}, tries : 0 .. MaxRetries,
         result : {"ready", "failed", None}, objects : SUBSET Objects]

TypeOK ==
  /\ ticket \in {"live", "erased", "deleted"}
  /\ msg \in [Messages -> {"none", "agent", "requester", "gone"}]
  /\ att \in [Files -> Attachments \cup {None}]
  /\ video \in [Videos -> Recordings \cup {None}]
  /\ stored \in SUBSET Objects
  /\ tasks \in SUBSET (Videos \X (0 .. MaxRetries))
  /\ pc \in [Procs -> {"idle", "post", "patch", "upload", "attach", "record",
                       "queue", "shred", "probe", "finish", "delete", "expire"}]
  /\ job \in [Procs -> Jobs \cup {None}]
  /\ whose \in [Files -> {"agent", "requester", None}]
  /\ named \in [Messages -> SUBSET Files]
  /\ late \in SUBSET Objects /\ strayed \in SUBSET Objects
  /\ happened \in SUBSET Faults

Init ==
  /\ ticket = "live"
  /\ msg = [m \in Messages |-> "none"] /\ att = [f \in Files |-> None]
  /\ video = [v \in Videos |-> None]
  /\ stored = {} /\ tasks = {}
  /\ pc = [p \in Procs |-> "idle"] /\ job = [p \in Procs |-> None]
  /\ whose = [f \in Files |-> None] /\ named = [m \in Messages |-> {}]
  /\ late = {} /\ strayed = {} /\ happened = {}

-----------------------------------------------------------------------------

Fault(f) ==
  /\ f \in Faults \ happened /\ Cardinality(happened) < MaxFaults
  /\ happened' = happened \cup {f}

Without(kinds) == happened \cap kinds = {}

FaultIf(cond, f) == IF cond THEN Fault(f) ELSE UNCHANGED happened

NoJob == [files |-> {}, row |-> None, msg |-> None, kind |-> None, video |-> None,
          tries |-> 0, result |-> None, objects |-> {}]

Goto(p, step, j) ==
  pc' = [pc EXCEPT ![p] = step] /\ job' = [job EXCEPT ![p] = j]

Begin(p, step, j) == pc[p] = "idle" /\ Goto(p, step, j)

Return(p) == Goto(p, "idle", None)

Shown == {f \in Files : att[f] # None}
Kept == {v \in Videos : video[v] # None /\ video[v].status # "deleted"}
Written == {m \in Messages : msg[m] \in {"agent", "requester"}}

(* Ids are taken in order: which is taken makes no difference.             *)
NextOf(ids, used) == {n \in ids \ used : \A k \in ids \ used : n <= k}
NewFiles == NextOf(Files, {f \in Files : whose[f] # None})
NewVideos == NextOf(Videos, {v \in Videos : video[v] # None})
NewMessages == NextOf(Messages, {m \in Messages : msg[m] # "none"})

(* The file is stored, then its row is inserted: it stays if the ticket is *)
(* no more. An object stored on an erased ticket waits for a new erasure.  *)
StoreFile(f, by, m, awaiting) ==
  LET o == <<"file", f>> IN
  /\ stored' = stored \cup {o}
  /\ whose' = [whose EXCEPT ![f] = IF by = "agent" THEN "agent" ELSE "requester"]
  /\ IF ticket # "deleted"
     THEN /\ att' = [att EXCEPT ![f] = [by |-> by, msg |-> m, awaiting |-> awaiting,
                                        old |-> FALSE]]
          /\ late' = IF ticket = "erased" THEN late \cup {o} ELSE late
          /\ UNCHANGED strayed
     ELSE strayed' = strayed \cup {o} /\ UNCHANGED <<att, late>>

(* The rows of F go, and leave their objects in the storage.               *)
LoseRows(F) ==
  /\ att' = [f \in Files |-> IF f \in F THEN None ELSE att[f]]
  /\ named' = [m \in Messages |-> named[m] \ F]
  /\ strayed' = strayed \cup (FileObjects(F \cap Shown) \cap stored)

(***************************************************************************)
(* Agents                                                                  *)
(***************************************************************************)

(* TicketAttachmentViewSet.perform_create: for a message, or for the reply *)
(* to come.                                                                *)
AgentUploads(f, m) ==
  /\ ticket # "deleted" /\ f \in NewFiles /\ m \in Written \cup {None}
  /\ StoreFile(f, "agent", m, m = None)
  /\ UNCHANGED <<ticket, msg, video, tasks, procs, named, happened>>

Free(f) == f \in Shown /\ att[f].by = "agent" /\ att[f].msg = None

(* The files of a reply are those its author uploaded, on no message ...   *)
ChooseFiles(p, F) ==
  /\ ticket # "deleted" /\ F # {} /\ \A f \in F : Free(f)
  /\ Begin(p, "post", [NoJob EXCEPT !.files = F])
  /\ UNCHANGED <<ticket, rows, stored, tasks, history, strayed, happened>>

(* Mutant of AllLinked: the reply takes those that are left.               *)
SomeLinked(F) == TRUE

(* ... and still are when they are linked, or nothing is written.          *)
AllLinked(F) == \A f \in F : Free(f)

PostReply(p) ==
  LET F == job[p].files IN
  /\ pc[p] = "post"
  /\ Return(p)
  /\ IF ticket # "deleted" /\ AllLinked(F)
     THEN \E m \in NewMessages :
            /\ msg' = [msg EXCEPT ![m] = "agent"]
            /\ att' = [f \in Files |-> IF f \in F /\ Free(f)
                         THEN [att[f] EXCEPT !.msg = m, !.awaiting = FALSE] ELSE att[f]]
            /\ named' = [named EXCEPT ![m] = F]
     ELSE UNCHANGED <<msg, att, named>>
  /\ UNCHANGED <<ticket, video, stored, tasks, whose, late, strayed, happened>>

(* An upload's row is changed: put on a message of its ticket, or renamed. *)
Patch(p, f, m) ==
  /\ f \in Shown /\ m \in Written \cup {None, att[f].msg}
  /\ Begin(p, "patch", [NoJob EXCEPT !.files = {f}, !.row = att[f], !.msg = m])
  /\ UNCHANGED <<ticket, rows, stored, tasks, history, strayed, happened>>

(* The whole row is saved as it was loaded, deleted since or not.          *)
SavePatch(p) ==
  LET f == CHOOSE g \in job[p].files : TRUE
      new == [job[p].row EXCEPT !.msg = job[p].msg]
  IN
  /\ pc[p] = "patch"
  /\ Return(p)
  /\ IF ticket # "deleted" /\ new.msg \in Written \cup {None}
     THEN /\ att' = [att EXCEPT ![f] = new]
          /\ named' = [m \in Messages |-> IF m = new.msg THEN named[m] ELSE named[m] \ {f}]
          /\ FaultIf(att[f] # job[p].row, "late")
     ELSE UNCHANGED <<att, named, happened>>
  /\ UNCHANGED <<ticket, msg, video, stored, tasks, whose, late, strayed>>

DestroyAttachment(f) ==
  /\ f \in Shown
  /\ LoseRows({f})
  /\ UNCHANGED <<ticket, msg, video, stored, tasks, procs, whose, late, happened>>

(* By an agent, or by the session that wrote it: its attachments' rows go  *)
(* with it.                                                                *)
DeleteMessage(m) ==
  /\ m \in Written
  /\ msg' = [msg EXCEPT ![m] = "gone"]
  /\ LoseRows({f \in Shown : att[f].msg = m})
  /\ UNCHANGED <<ticket, video, stored, tasks, procs, whose, late, happened>>

DeleteRecording(v) ==
  /\ v \in Kept
  /\ video' = [video EXCEPT ![v].status = "deleted"]
  /\ strayed' = strayed \cup (Originals({v}) \cap stored)
  /\ UNCHANGED <<ticket, msg, att, stored, tasks, procs, history, happened>>

DeleteTicket ==
  /\ ticket # "deleted"
  /\ ticket' = "deleted"
  /\ msg' = [m \in Messages |-> IF m \in Written THEN "gone" ELSE msg[m]]
  /\ att' = [f \in Files |-> None] /\ named' = [m \in Messages |-> {}]
  /\ video' = [v \in Videos |-> IF v \in Kept THEN [video[v] EXCEPT !.status = "deleted"]
                                ELSE video[v]]
  /\ strayed' = strayed \cup ((FileObjects(Shown) \cup Originals(Kept)) \cap stored)
  /\ UNCHANGED <<stored, tasks, procs, whose, late, happened>>

(***************************************************************************)
(* The requester                                                           *)
(***************************************************************************)

(* The public form's endpoints, of a file or a recording: the ticket is    *)
(* found, not an erased contact's ...                                      *)
FindTicket(p, kind) ==
  /\ ticket = "live"
  /\ Begin(p, "upload", [NoJob EXCEPT !.kind = kind])
  /\ UNCHANGED <<ticket, rows, stored, tasks, history, strayed, happened>>

(* Mutant of ToQueue: it is stored, and that's all.                        *)
NotQueued(p, v) == Return(p)

ToQueue(p, v) == Goto(p, "queue", [NoJob EXCEPT !.video = v])

StoreVideo(p, v, expires) ==
  LET o == <<"original", v>> IN
  /\ stored' = stored \cup {o}
  /\ IF ticket # "deleted"
     THEN /\ video' = [video EXCEPT ![v] = [status |-> "uploading", expires |-> expires]]
          /\ ToQueue(p, v)
          /\ late' = IF ticket = "erased" THEN late \cup {o} ELSE late
          /\ UNCHANGED strayed
     ELSE /\ video' = [video EXCEPT ![v] = [status |-> "deleted", expires |-> None]]
          /\ strayed' = strayed \cup {o}
          /\ Return(p) /\ UNCHANGED late

(* ... then what it sends is stored, on no message.                        *)
SaveUpload(p) ==
  /\ pc[p] = "upload"
  /\ IF job[p].kind = "file"
     THEN /\ \E f \in NewFiles : StoreFile(f, "nobody", None, FALSE)
          /\ Return(p) /\ UNCHANGED video
     ELSE /\ \E v \in NewVideos : StoreVideo(p, v, "later")
          /\ UNCHANGED <<att, whose>>
  /\ UNCHANGED <<ticket, msg, tasks, named, happened>>

(* The widget's: a message, refused on an erased ticket, is committed ...  *)
WidgetMessage(p, kind) ==
  /\ ticket = "live"
  /\ \E m \in NewMessages :
       /\ msg' = [msg EXCEPT ![m] = "requester"]
       /\ Begin(p, "attach", [NoJob EXCEPT !.kind = kind, !.msg = m])
  /\ UNCHANGED <<ticket, att, video, stored, tasks, history, strayed, happened>>

(* ... then its attachment, and its recording, which never expires.        *)
SaveAttachment(p) ==
  /\ pc[p] = "attach"
  /\ IF job[p].msg \in Written
     THEN /\ \E f \in NewFiles : StoreFile(f, "nobody", job[p].msg, FALSE)
          /\ IF job[p].kind = "video" THEN Goto(p, "record", NoJob) ELSE Return(p)
     ELSE Return(p) /\ UNCHANGED <<att, stored, whose, late, strayed>>
  /\ UNCHANGED <<ticket, msg, video, tasks, named, happened>>

Record(p) ==
  /\ pc[p] = "record"
  /\ \E v \in NewVideos : StoreVideo(p, v, None)
  /\ UNCHANGED <<ticket, msg, att, tasks, whose, named, happened>>

QueueProcessing(p) ==
  /\ pc[p] = "queue"
  /\ Return(p)
  /\ \/ tasks' = tasks \cup {<<job[p].video, 0>>} /\ UNCHANGED happened
     \/ Fault("unqueued") /\ UNCHANGED tasks
  /\ UNCHANGED <<ticket, rows, stored, history, strayed>>

(* The conversation page's, in one transaction.                            *)
PostAttachment(f) ==
  /\ ticket = "live" /\ f \in NewFiles
  /\ \E m \in NewMessages :
       /\ msg' = [msg EXCEPT ![m] = "requester"]
       /\ StoreFile(f, "nobody", m, FALSE)
  /\ UNCHANGED <<ticket, video, tasks, procs, named, happened>>

(***************************************************************************)
(* Deleting them                                                           *)
(***************************************************************************)

(* Mutant of ByTheContact: those of its messages only.                     *)
OnMessages(f) == att[f].by = "nobody" /\ att[f].msg # None

(* An upload with no uploader counts as the contact's.                     *)
ByTheContact(f) == att[f].by = "nobody"

(* anonymize_contact: the rows, in a transaction. It may be done again.    *)
Erase(p) ==
  LET F == {f \in Shown : ByTheContact(f)} IN
  /\ ticket # "deleted"
  /\ ticket' = "erased"
  /\ Begin(p, "shred", [NoJob EXCEPT !.objects = FileObjects(F) \cup Originals(Kept)])
  /\ att' = [f \in Files |-> IF f \in F THEN None ELSE att[f]]
  /\ video' = [v \in Videos |-> IF v \in Kept THEN [video[v] EXCEPT !.status = "deleted"]
                                ELSE video[v]]
  /\ late' = {}
  /\ UNCHANGED <<msg, stored, tasks, whose, named, strayed, happened>>

(* An agent's upload that no message took within a day.                    *)
Orphan(f) == Free(f) /\ att[f].awaiting /\ att[f].old

Purge(p) ==
  LET F == {f \in Files : Orphan(f)} IN
  /\ F # {}
  /\ Begin(p, "shred", [NoJob EXCEPT !.objects = FileObjects(F)])
  /\ att' = [f \in Files |-> IF f \in F THEN None ELSE att[f]]
  /\ UNCHANGED <<ticket, msg, video, stored, tasks, history, strayed, happened>>

(* The files, once the rows' deletion is committed: nothing tries again.   *)
Shred(p) ==
  /\ pc[p] = "shred"
  /\ Return(p)
  /\ \/ /\ stored' = stored \ job[p].objects
        /\ UNCHANGED <<strayed, happened>>
     \/ \E o \in job[p].objects \cap stored :
          /\ Fault("storage")
          /\ stored' = (stored \ job[p].objects) \cup {o}
          /\ strayed' = strayed \cup {o}
  /\ UNCHANGED <<ticket, rows, tasks, history>>

(***************************************************************************)
(* Recordings' tasks                                                       *)
(***************************************************************************)

(* process_video marks it. A recording deleted meanwhile ends the task.    *)
Start(w, t) ==
  /\ t \in tasks /\ tasks' = tasks \ {t}
  /\ pc[w] = "idle"
  /\ IF t[1] \in Kept
     THEN /\ Goto(w, "probe", [NoJob EXCEPT !.video = t[1], !.tries = t[2]])
          /\ video' = [video EXCEPT ![t[1]].status = "processing"]
     ELSE UNCHANGED <<procs, video>>
  /\ UNCHANGED <<ticket, msg, att, stored, history, strayed, happened>>

(* It is downloaded, and a thumbnail stored, that the row isn't told of.   *)
(* FFmpeg may fail, which is ignored, or take too long.                    *)
Probe(w) ==
  LET v == job[w].video
      End(result) == Goto(w, "finish", [job[w] EXCEPT !.result = result])
  IN
  /\ pc[w] = "probe"
  /\ \/ /\ <<"original", v>> \in stored
        /\ End("ready")
        /\ \/ /\ stored' = stored \cup {<<"thumbnail", v>>}
              /\ strayed' = strayed \cup {<<"thumbnail", v>>}
           \/ UNCHANGED <<stored, strayed>>
     \/ End("failed") /\ UNCHANGED <<stored, strayed>>
  /\ UNCHANGED <<ticket, rows, tasks, history, happened>>

(* Mutant of MayRetry: for ever.                                           *)
RetriesForever(tries) == TRUE

MayRetry(tries) == tries < MaxRetries

(* It is marked; a recording deleted meanwhile ends the task.              *)
Finish(w) ==
  LET v == job[w].video IN
  /\ pc[w] = "finish"
  /\ Return(w)
  /\ IF v \in Kept
     THEN /\ video' = [video EXCEPT ![v].status = job[w].result]
          /\ tasks' = IF job[w].result = "failed" /\ MayRetry(job[w].tries)
                      THEN tasks \cup {<<v, job[w].tries + 1>>} ELSE tasks
     ELSE UNCHANGED <<video, tasks>>
  /\ UNCHANGED <<ticket, msg, att, stored, history, strayed, happened>>

MayExpire(status) == status \in {"ready", "failed"}

(* cleanup_expired_videos: what its row knows of is deleted ...            *)
Sweep(w, v) ==
  /\ v \in Kept /\ video[v].expires = "past" /\ MayExpire(video[v].status)
  /\ Begin(w, "delete", [NoJob EXCEPT !.video = v])
  /\ UNCHANGED <<ticket, rows, stored, tasks, history, strayed, happened>>

DeleteFiles(w) ==
  /\ pc[w] = "delete"
  /\ \/ /\ stored' = stored \ {<<"original", job[w].video>>}
        /\ Goto(w, "expire", job[w]) /\ UNCHANGED happened
     \/ Fault("storage") /\ Return(w) /\ UNCHANGED stored
  /\ UNCHANGED <<ticket, rows, tasks, history, strayed>>

(* ... and it is marked.                                                   *)
MarkExpired(w) ==
  LET v == job[w].video IN
  /\ pc[w] = "expire"
  /\ Return(w)
  /\ video' = IF v \in Kept THEN [video EXCEPT ![v].status = "expired"] ELSE video
  /\ UNCHANGED <<ticket, msg, att, stored, tasks, history, strayed, happened>>

Crash(w) ==
  /\ pc[w] \in {"probe", "finish"} /\ Fault("crash")
  /\ Return(w)
  /\ UNCHANGED <<ticket, rows, stored, tasks, history, strayed>>

(* Days pass: nothing that is under way takes that long.                   *)
Age ==
  /\ \A p \in Procs : pc[p] = "idle"
  /\ att' = [f \in Files |-> IF f \in Shown THEN [att[f] EXCEPT !.old = TRUE] ELSE None]
  /\ video' = [v \in Videos |-> IF video[v] # None /\ video[v].expires = "later"
                                THEN [video[v] EXCEPT !.expires = "past"] ELSE video[v]]
  /\ UNCHANGED <<ticket, msg, stored, tasks, procs, history, strayed, happened>>

Goes(p) ==
  \/ PostReply(p) \/ SavePatch(p) \/ SaveUpload(p) \/ SaveAttachment(p)
  \/ Record(p) \/ QueueProcessing(p) \/ Shred(p)
  \/ Probe(p) \/ Finish(p) \/ DeleteFiles(p) \/ MarkExpired(p)

Next ==
  \/ \E p \in Procs :
       \/ \E F \in SUBSET Files : ChooseFiles(p, F)
       \/ \E f \in Files, m \in Messages \cup {None} : Patch(p, f, m)
       \/ \E kind \in {"file", "video"} : FindTicket(p, kind) \/ WidgetMessage(p, kind)
       \/ \E t \in tasks : Start(p, t)
       \/ \E v \in Videos : Sweep(p, v)
       \/ Erase(p) \/ Purge(p) \/ Crash(p) \/ Goes(p)
  \/ \E f \in Files :
       \/ DestroyAttachment(f) \/ PostAttachment(f)
       \/ \E m \in Messages \cup {None} : AgentUploads(f, m)
  \/ \E m \in Messages : DeleteMessage(m)
  \/ \E v \in Videos : DeleteRecording(v)
  \/ DeleteTicket \/ Age

Spec == Init /\ [][Next]_vars

-----------------------------------------------------------------------------

(* A reply keeps the files it was posted with, until someone removes them: *)
(* no purge, however late its author was, and no erasure of the contact    *)
(* takes them. Except what a row saved as it was before takes back.        *)
RepliesWhole ==
  Without({"late"}) =>
    \A m \in Messages : \A f \in named[m] :
      f \in Shown /\ att[f].msg = m /\ <<"file", f>> \in stored

(* What an erased contact uploaded is gone, but for what requests under    *)
(* way stored since, that erasing again takes, and objects whose row had   *)
(* already gone without them.                                              *)
InHand == UNION {job[p].objects : p \in {q \in Procs : pc[q] = "shred"}}
ContactsObjects ==
  FileObjects({f \in Files : whose[f] = "requester"})
  \cup ({"original", "thumbnail"} \X Videos)

ErasedIsGone ==
  ticket = "erased" => ContactsObjects \cap stored \subseteq late \cup strayed \cup InHand

(* A recording neither ready nor failed is some task's to finish, whoever  *)
(* sweeps it or erases it meanwhile: it may expire in the end. But for one *)
(* whose task was lost, which stays as it is, and is never swept.          *)
NoneForgotten ==
  Without({"crash", "unqueued"}) =>
    \A v \in Kept : video[v].status \in {"uploading", "processing"} =>
      \/ \E t \in tasks : t[1] = v
      \/ \E p \in Procs : pc[p] \in {"queue", "probe", "finish"} /\ job[p].video = v

=============================================================================
