--------------------------- MODULE Uploads_proofs ---------------------------
(***************************************************************************)
(* Proofs about the files of one ticket, for any number of files,          *)
(* recordings, messages, requests and faults: the types; that a reply      *)
(* keeps its files; that what an erased contact uploaded is gone; that no  *)
(* recording under way is forgotten.                                       *)
(***************************************************************************)
EXTENDS Uploads, TLAPS

(* What a request or a worker has in hand at step s.                       *)
JobFor(s, j) ==
  /\ s # "idle" => j \in Jobs
  /\ s = "patch" => j.row \in Attachments /\ \E f \in Files : j.files = {f}
  /\ s \in {"queue", "probe", "finish", "delete", "expire"} => j.video \in Videos
  /\ s = "finish" => j.result \in {"ready", "failed"}

(* The types, of each part of the state.                                   *)
FilesTyped ==
  /\ msg \in [Messages -> {"none", "agent", "requester", "gone"}]
  /\ att \in [Files -> Attachments \cup {None}]
  /\ whose \in [Files -> {"agent", "requester", None}]
  /\ named \in [Messages -> SUBSET Files]
VideosTyped ==
  /\ video \in [Videos -> Recordings \cup {None}]
  /\ tasks \in SUBSET (Videos \X (0 .. MaxRetries))
StorageTyped ==
  /\ ticket \in {"live", "erased", "deleted"}
  /\ stored \in SUBSET Objects /\ late \in SUBSET Objects /\ strayed \in SUBSET Objects
Steps == {"idle", "post", "patch", "upload", "attach", "record",
          "queue", "shred", "probe", "finish", "delete", "expire"}
ProcsTyped ==
  /\ pc \in [Procs -> Steps] /\ job \in [Procs -> Jobs \cup {None}]
  /\ \A p \in Procs : JobFor(pc[p], job[p])

(* The types, with what is in hand.                                        *)
Typed == FilesTyped /\ VideosTyped /\ StorageTyped /\ ProcsTyped /\ happened \in SUBSET Faults

(* The types hold at first.                                                *)
LEMMA InitTyped == Init => Typed
<1> SUFFICES ASSUME Init PROVE Typed
  OBVIOUS
<1>1. FilesTyped
  BY DEF Init, FilesTyped
<1>2. VideosTyped
  BY DEF Init, VideosTyped
<1>3. StorageTyped
  BY DEF Init, StorageTyped
<1>4. ProcsTyped
  BY DEF Init, ProcsTyped, JobFor, Steps
<1>5. happened \in SUBSET Faults
  BY DEF Init
<1> QED
  BY <1>1, <1>2, <1>3, <1>4, <1>5, Zenon DEF Typed

(* Faults that happened stay so.                                           *)
LEMMA Happens ==
  ASSUME happened \in SUBSET Faults, [Next]_vars
  PROVE  happened' \in SUBSET Faults /\ happened \subseteq happened'
<1>1. UNCHANGED happened \/ \E f : Fault(f)
  <2>1. ASSUME NEW p \in Procs, NEW F \in SUBSET Files, ChooseFiles(p, F)
        PROVE  UNCHANGED happened
    BY <2>1 DEF ChooseFiles
  <2>2. ASSUME NEW p \in Procs, NEW f \in Files, NEW m, Patch(p, f, m)
        PROVE  UNCHANGED happened
    BY <2>2 DEF Patch
  <2>3. ASSUME NEW p \in Procs, NEW kind, FindTicket(p, kind) \/ WidgetMessage(p, kind)
        PROVE  UNCHANGED happened
    BY <2>3 DEF FindTicket, WidgetMessage
  <2>4. ASSUME NEW p \in Procs, NEW t \in tasks, Start(p, t) PROVE UNCHANGED happened
    BY <2>4 DEF Start
  <2>5. ASSUME NEW p \in Procs, NEW v \in Videos, Sweep(p, v) PROVE UNCHANGED happened
    BY <2>5 DEF Sweep
  <2>6. ASSUME NEW p \in Procs, Erase(p) \/ Purge(p) \/ Crash(p)
        PROVE  UNCHANGED happened \/ \E f : Fault(f)
    BY <2>6, Zenon DEF Erase, Purge, Crash
  <2>7. ASSUME NEW p \in Procs, Goes(p)
        PROVE  UNCHANGED happened \/ \E f : Fault(f)
    BY <2>7, Zenon
    DEF Goes, PostReply, SavePatch, FaultIf, SaveUpload, SaveAttachment, Record,
        QueueProcessing, Shred, Probe, Finish, DeleteFiles, MarkExpired
  <2>8. ASSUME NEW f \in Files, DestroyAttachment(f) \/ PostAttachment(f)
        PROVE  UNCHANGED happened
    BY <2>8 DEF DestroyAttachment, PostAttachment
  <2>9. ASSUME NEW f \in Files, NEW m, AgentUploads(f, m) PROVE UNCHANGED happened
    BY <2>9 DEF AgentUploads
  <2>10. ASSUME NEW m \in Messages, DeleteMessage(m) PROVE UNCHANGED happened
    BY <2>10 DEF DeleteMessage
  <2>11. ASSUME NEW v \in Videos, DeleteRecording(v) PROVE UNCHANGED happened
    BY <2>11 DEF DeleteRecording
  <2>12. DeleteTicket \/ Age => UNCHANGED happened
    BY DEF DeleteTicket, Age
  <2>13. UNCHANGED vars => UNCHANGED happened
    BY DEF vars
  <2> QED
    BY <2>1, <2>2, <2>3, <2>4, <2>5, <2>6, <2>7, <2>8, <2>9, <2>10, <2>11, <2>12, <2>13, Zenon
    DEF Next
<1> QED
  BY <1>1 DEF Fault

(* The steps that may change attachments, and what is known of them.       *)
FileSteps ==
  \/ UNCHANGED <<att, named, whose>>
  \/ /\ UNCHANGED named
     /\ \E f \in NewFiles, by \in {"agent", "nobody"}, m \in Messages \cup {None}, w \in BOOLEAN :
          StoreFile(f, by, m, w)
  \/ \E p \in Procs : PostReply(p) \/ SavePatch(p) \/ Erase(p) \/ Purge(p)
  \/ \E F \in SUBSET Files : LoseRows(F) /\ UNCHANGED <<whose, stored>>
  \/ DeleteTicket \/ Age

(* No other step does.                                                     *)
LEMMA FileMoves == Typed /\ [Next]_vars => FileSteps
<1> SUFFICES ASSUME Typed, [Next]_vars PROVE FileSteps
  OBVIOUS
<1>1. ASSUME NEW p \in Procs, NEW F \in SUBSET Files, ChooseFiles(p, F)
      PROVE  UNCHANGED <<att, named, whose>>
  BY <1>1 DEF ChooseFiles, rows, history
<1>2. ASSUME NEW p \in Procs, NEW f \in Files, NEW m, Patch(p, f, m)
      PROVE  UNCHANGED <<att, named, whose>>
  BY <1>2 DEF Patch, rows, history
<1>3. ASSUME NEW p \in Procs, NEW kind, FindTicket(p, kind) \/ WidgetMessage(p, kind)
      PROVE  UNCHANGED <<att, named, whose>>
  BY <1>3 DEF FindTicket, WidgetMessage, rows, history
<1>4. ASSUME NEW p \in Procs, NEW t \in tasks, Start(p, t) PROVE UNCHANGED <<att, named, whose>>
  BY <1>4 DEF Start, history
<1>5. ASSUME NEW p \in Procs, NEW v \in Videos, Sweep(p, v)
      PROVE  UNCHANGED <<att, named, whose>>
  BY <1>5 DEF Sweep, rows, history
<1>6. ASSUME NEW p \in Procs, \/ Crash(p) \/ Record(p) \/ QueueProcessing(p) \/ Shred(p)
                              \/ Probe(p) \/ Finish(p) \/ DeleteFiles(p) \/ MarkExpired(p)
      PROVE  UNCHANGED <<att, named, whose>>
  BY <1>6 DEF Crash, Record, QueueProcessing, Shred, Probe, Finish, DeleteFiles, MarkExpired,
              rows, history
<1>7. ASSUME NEW p \in Procs, SaveUpload(p) PROVE FileSteps
  <2>1. CASE UNCHANGED <<att, whose>>
    BY <1>7, <2>1 DEF SaveUpload, FileSteps
  <2>2. CASE \E f \in NewFiles : StoreFile(f, "nobody", None, FALSE)
    BY <1>7, <2>2, Zenon DEF SaveUpload, FileSteps
  <2> QED
    BY <1>7, <2>1, <2>2, Zenon DEF SaveUpload
<1>8. ASSUME NEW p \in Procs, SaveAttachment(p) PROVE FileSteps
  <2>1. CASE UNCHANGED <<att, whose>>
    BY <1>8, <2>1 DEF SaveAttachment, FileSteps
  <2>2. CASE job[p].msg \in Written /\ \E f \in NewFiles : StoreFile(f, "nobody", job[p].msg, FALSE)
    <3>1. job[p].msg \in Messages \cup {None}
      BY <2>2 DEF Written
    <3> QED
      BY <1>8, <2>2, <3>1, Zenon DEF SaveAttachment, FileSteps
  <2> QED
    BY <1>8, <2>1, <2>2, Zenon DEF SaveAttachment
<1>9. ASSUME NEW f \in Files, PostAttachment(f) PROVE FileSteps
  <2>1. PICK m \in NewMessages : StoreFile(f, "nobody", m, FALSE)
    BY <1>9 DEF PostAttachment
  <2>2. f \in NewFiles /\ UNCHANGED named /\ m \in Messages \cup {None}
    BY <1>9 DEF PostAttachment, NewMessages, NextOf
  <2> QED
    BY <2>1, <2>2, Zenon DEF FileSteps
<1>10. ASSUME NEW f \in Files, DestroyAttachment(f) PROVE FileSteps
  <2>1. LoseRows({f}) /\ UNCHANGED <<whose, stored>> /\ {f} \in SUBSET Files
    BY <1>10 DEF DestroyAttachment
  <2> QED
    BY <2>1, Zenon DEF FileSteps
<1>11. ASSUME NEW f \in Files, NEW m \in Messages \cup {None}, AgentUploads(f, m) PROVE FileSteps
  <2>1. /\ f \in NewFiles /\ StoreFile(f, "agent", m, m = None) /\ UNCHANGED named
        /\ (m = None) \in BOOLEAN
    BY <1>11 DEF AgentUploads
  <2> QED
    BY <2>1, Zenon DEF FileSteps
<1>12. ASSUME NEW m \in Messages, DeleteMessage(m) PROVE FileSteps
  <2>1. LoseRows({f \in Shown : att[f].msg = m}) /\ UNCHANGED <<whose, stored>>
    BY <1>12 DEF DeleteMessage
  <2>2. {f \in Shown : att[f].msg = m} \in SUBSET Files
    BY DEF Shown
  <2> QED
    BY <2>1, <2>2, Zenon DEF FileSteps
<1>13. ASSUME NEW v \in Videos, DeleteRecording(v) PROVE UNCHANGED <<att, named, whose>>
  BY <1>13 DEF DeleteRecording, history
<1>14. UNCHANGED vars => UNCHANGED <<att, named, whose>>
  BY DEF vars
<1>15. ASSUME NEW p \in Procs, Goes(p) PROVE FileSteps
  BY <1>15, <1>6, <1>7, <1>8, Zenon DEF Goes, FileSteps
<1> QED
  BY <1>1, <1>2, <1>3, <1>4, <1>5, <1>6, <1>9, <1>10, <1>11, <1>12, <1>13, <1>14, <1>15, Zenon
  DEF Next, FileSteps

(* A stored file, whoever uploaded it, and its row.                        *)
LEMMA StoreFileIs ==
  ASSUME FilesTyped, StorageTyped, NEW f \in NewFiles, NEW by \in {"agent", "nobody"},
         NEW m \in Messages \cup {None}, NEW w \in BOOLEAN, StoreFile(f, by, m, w)
  PROVE  /\ f \in Files /\ whose[f] = None
         /\ stored' = stored \cup {<<"file", f>>}
         /\ whose' = [whose EXCEPT ![f] = IF by = "agent" THEN "agent" ELSE "requester"]
         /\ whose' \in [Files -> {"agent", "requester", None}]
         /\ att' \in [Files -> Attachments \cup {None}]
         /\ \/ UNCHANGED <<att, late>> /\ strayed' = strayed \cup {<<"file", f>>}
            \/ /\ UNCHANGED strayed
               /\ \E a \in Attachments : a.by = by /\ a.msg = m /\ att' = [att EXCEPT ![f] = a]
               /\ late' = IF ticket = "erased" THEN late \cup {<<"file", f>>} ELSE late
<1>1. /\ f \in Files /\ whose[f] = None
      /\ stored' = stored \cup {<<"file", f>>}
      /\ whose' = [whose EXCEPT ![f] = IF by = "agent" THEN "agent" ELSE "requester"]
  BY DEF StoreFile, NewFiles, NextOf
<1>2. whose' \in [Files -> {"agent", "requester", None}]
  BY <1>1 DEF FilesTyped
<1>3. CASE ticket # "deleted"
  <2>1. PICK a \in Attachments : a = [by |-> by, msg |-> m, awaiting |-> w, old |-> FALSE]
    BY DEF Attachments
  <2>2. a.by = by /\ a.msg = m
    BY <2>1
  <2>3. /\ UNCHANGED strayed /\ att' = [att EXCEPT ![f] = a]
        /\ late' = IF ticket = "erased" THEN late \cup {<<"file", f>>} ELSE late
    BY <1>3, <2>1, Zenon DEF StoreFile
  <2>4. att' \in [Files -> Attachments \cup {None}]
    BY <2>3 DEF FilesTyped
  <2> QED
    BY <1>1, <1>2, <2>2, <2>3, <2>4, Zenon
<1>4. CASE ticket = "deleted"
  <2>1. UNCHANGED <<att, late>> /\ strayed' = strayed \cup {<<"file", f>>}
    BY <1>4 DEF StoreFile
  <2>2. att' \in [Files -> Attachments \cup {None}]
    BY <2>1 DEF FilesTyped
  <2> QED
    BY <1>1, <1>2, <2>1, <2>2, Zenon
<1> QED
  BY <1>3, <1>4

(* A row put on a message, at once or by a saved change.                   *)
LEMMA PutOn ==
  ASSUME NEW a \in Attachments, NEW m \in Messages \cup {None}
  PROVE  /\ [a EXCEPT !.msg = m] \in Attachments
         /\ [a EXCEPT !.msg = m].by = a.by /\ [a EXCEPT !.msg = m].msg = m
         /\ [a EXCEPT !.msg = m, !.awaiting = FALSE] \in Attachments
         /\ [a EXCEPT !.msg = m, !.awaiting = FALSE].by = a.by
         /\ [a EXCEPT !.msg = m, !.awaiting = FALSE].msg = m
         /\ [a EXCEPT !.old = TRUE] \in Attachments
         /\ [a EXCEPT !.old = TRUE].by = a.by /\ [a EXCEPT !.old = TRUE].msg = a.msg
<1>1. PICK b \in Attachments : b = [a EXCEPT !.msg = m]
  BY DEF Attachments
<1>2. [a EXCEPT !.msg = m, !.awaiting = FALSE] = [b EXCEPT !.awaiting = FALSE]
  BY <1>1 DEF Attachments
<1>3. b.by = a.by /\ b.msg = m
  BY <1>1 DEF Attachments
<1>4. [b EXCEPT !.awaiting = FALSE] \in Attachments /\ [b EXCEPT !.awaiting = FALSE].by = b.by
      /\ [b EXCEPT !.awaiting = FALSE].msg = b.msg
  BY DEF Attachments
<1>5. [a EXCEPT !.old = TRUE] \in Attachments
      /\ [a EXCEPT !.old = TRUE].by = a.by /\ [a EXCEPT !.old = TRUE].msg = a.msg
  BY DEF Attachments
<1> QED
  BY <1>1, <1>2, <1>3, <1>4, <1>5, Zenon

(* A reply posted: the files it names were free, and are its.              *)
LEMMA PostReplyIs ==
  ASSUME Typed, NEW p \in Procs, PostReply(p)
  PROVE  /\ UNCHANGED whose
         /\ \/ UNCHANGED <<att, named, msg>>
            \/ \E m \in Messages, F \in SUBSET Files :
                 /\ msg[m] = "none" /\ msg' = [msg EXCEPT ![m] = "agent"]
                 /\ \A f \in F : Free(f)
                 /\ named' = [named EXCEPT ![m] = F]
                 /\ att' = [f \in Files |-> IF f \in F
                              THEN [att[f] EXCEPT !.msg = m, !.awaiting = FALSE] ELSE att[f]]
<1>1. job[p].files \in SUBSET Files
  BY DEF PostReply, Typed, ProcsTyped, JobFor, Jobs
<1>2. CASE UNCHANGED <<msg, att, named>>
  BY <1>2 DEF PostReply
<1>3. CASE ~UNCHANGED <<msg, att, named>>
  <2> DEFINE F == job[p].files
  <2>1. \A f \in F : Free(f)
    BY <1>3 DEF PostReply, AllLinked
  <2>2. PICK m \in NewMessages :
          /\ msg' = [msg EXCEPT ![m] = "agent"]
          /\ att' = [f \in Files |-> IF f \in F /\ Free(f)
                       THEN [att[f] EXCEPT !.msg = m, !.awaiting = FALSE] ELSE att[f]]
          /\ named' = [named EXCEPT ![m] = F]
    BY <1>3, Zenon DEF PostReply
  <2>3. m \in Messages /\ msg[m] = "none"
    BY DEF NewMessages, NextOf
  <2>4. att' = [f \in Files |-> IF f \in F
                  THEN [att[f] EXCEPT !.msg = m, !.awaiting = FALSE] ELSE att[f]]
    BY <2>1, <2>2
  <2> HIDE DEF F
  <2>5. F \in SUBSET Files
    BY <1>1 DEF F
  <2>6. UNCHANGED whose
    BY DEF PostReply
  <2> QED
    BY <2>1, <2>2, <2>3, <2>4, <2>5, <2>6, Zenon
<1> QED
  BY <1>2, <1>3

(* A row saved as it was loaded, but for its message.                      *)
LEMMA SavePatchIs ==
  ASSUME Typed, NEW p \in Procs, SavePatch(p)
  PROVE  /\ UNCHANGED <<whose, stored>>
         /\ \/ UNCHANGED <<att, named>>
            \/ \E f \in Files, a \in Attachments :
                 /\ pc[p] = "patch" /\ job[p].files = {f} /\ job[p].row \in Attachments
                 /\ a.by = job[p].row.by
                 /\ ticket # "deleted" /\ att' = [att EXCEPT ![f] = a]
                 /\ named' = [m \in Messages |->
                                IF m = a.msg THEN named[m] ELSE named[m] \ {f}]
                 /\ att[f] = job[p].row \/ "late" \in happened'
<1>1. /\ UNCHANGED <<whose, stored>> /\ pc[p] = "patch"
  BY DEF SavePatch
<1>2. PICK f \in Files : job[p].files = {f} /\ job[p].row \in Attachments
  BY <1>1 DEF Typed, ProcsTyped, JobFor
<1>3. (CHOOSE g \in job[p].files : TRUE) = f
  BY <1>2
<1>4. job[p].msg \in Messages \cup {None}
  BY <1>1 DEF Typed, ProcsTyped, JobFor, Jobs
<1>5. PICK a \in Attachments : a = [job[p].row EXCEPT !.msg = job[p].msg] /\ a.by = job[p].row.by
  BY <1>2, <1>4, PutOn
<1>6. CASE UNCHANGED <<att, named>>
  BY <1>1, <1>6
<1>7. CASE ~UNCHANGED <<att, named>>
  <2>1. /\ ticket # "deleted" /\ att' = [att EXCEPT ![f] = a]
        /\ named' = [m \in Messages |-> IF m = a.msg THEN named[m] ELSE named[m] \ {f}]
        /\ FaultIf(att[f] # job[p].row, "late")
    BY <1>3, <1>5, <1>7, Zenon DEF SavePatch
  <2>2. att[f] = job[p].row \/ "late" \in happened'
    BY <2>1 DEF FaultIf, Fault
  <2> QED
    BY <1>1, <1>2, <1>5, <2>1, <2>2, Zenon
<1> QED
  BY <1>6, <1>7

(* Rows that go.                                                           *)
LEMMA LoseRowsIs ==
  ASSUME FilesTyped, NEW F \in SUBSET Files, LoseRows(F)
  PROVE  /\ att' \in [Files -> Attachments \cup {None}]
         /\ named' \in [Messages -> SUBSET Files]
         /\ \A f \in Files : att'[f] = IF f \in F THEN None ELSE att[f]
         /\ \A m \in Messages : named'[m] = named[m] \ F
BY DEF LoseRows, FilesTyped

(* Messages are written, and go.                                           *)
LEMMA MsgNext ==
  ASSUME Typed, [Next]_vars
  PROVE  msg' \in [Messages -> {"none", "agent", "requester", "gone"}]
<1> DEFINE Fine == msg' \in [Messages -> {"none", "agent", "requester", "gone"}]
<1> USE DEF Typed, FilesTyped
<1>1. ASSUME NEW p \in Procs, NEW F \in SUBSET Files, ChooseFiles(p, F) PROVE Fine
  BY <1>1 DEF ChooseFiles, rows
<1>2. ASSUME NEW p \in Procs, NEW f \in Files, NEW m, Patch(p, f, m) PROVE Fine
  BY <1>2 DEF Patch, rows
<1>3. ASSUME NEW p \in Procs, NEW kind, FindTicket(p, kind) PROVE Fine
  BY <1>3 DEF FindTicket, rows
<1>4. ASSUME NEW p \in Procs, NEW kind, WidgetMessage(p, kind) PROVE Fine
  BY <1>4 DEF WidgetMessage
<1>5. ASSUME NEW p \in Procs, NEW t \in tasks, Start(p, t) PROVE Fine
  BY <1>5 DEF Start
<1>6. ASSUME NEW p \in Procs, NEW v \in Videos, Sweep(p, v) PROVE Fine
  BY <1>6 DEF Sweep, rows
<1>7. ASSUME NEW p \in Procs, \/ Crash(p) \/ Record(p) \/ QueueProcessing(p) \/ Shred(p)
                              \/ Probe(p) \/ Finish(p) \/ DeleteFiles(p) \/ MarkExpired(p)
                              \/ Erase(p) \/ Purge(p) \/ SavePatch(p) \/ SaveUpload(p)
                              \/ SaveAttachment(p)
      PROVE  Fine
  <2>1. UNCHANGED msg
    BY <1>7
    DEF Crash, Record, QueueProcessing, Shred, Probe, Finish, DeleteFiles, MarkExpired, rows,
        Erase, Purge, SavePatch, SaveUpload, SaveAttachment
  <2> QED
    BY <2>1
<1>8. ASSUME NEW p \in Procs, PostReply(p) PROVE Fine
  BY <1>8, PostReplyIs
<1>9. ASSUME NEW f \in Files, DestroyAttachment(f) PROVE Fine
  BY <1>9 DEF DestroyAttachment
<1>10. ASSUME NEW f \in Files, PostAttachment(f) PROVE Fine
  BY <1>10 DEF PostAttachment
<1>11. ASSUME NEW f \in Files, NEW m, AgentUploads(f, m) PROVE Fine
  BY <1>11 DEF AgentUploads
<1>12. ASSUME NEW m \in Messages, DeleteMessage(m) PROVE Fine
  BY <1>12 DEF DeleteMessage
<1>13. ASSUME NEW v \in Videos, DeleteRecording(v) PROVE Fine
  BY <1>13 DEF DeleteRecording
<1>14. DeleteTicket => Fine
  BY DEF DeleteTicket
<1>15. Age => Fine
  BY DEF Age
<1>16. UNCHANGED vars => Fine
  BY DEF vars
<1> HIDE DEF Fine, Typed, FilesTyped
<1>17. Fine
  BY <1>1, <1>2, <1>3, <1>4, <1>5, <1>6, <1>7, <1>8, <1>9, <1>10, <1>11, <1>12, <1>13, <1>14,
     <1>15, <1>16, Zenon DEF Next, Goes
<1> QED
  BY <1>17 DEF Fine

(* Attachments keep their types.                                           *)
LEMMA FilesNext == Typed /\ [Next]_vars => FilesTyped'
<1> SUFFICES ASSUME Typed, [Next]_vars PROVE FilesTyped'
  OBVIOUS
<1> DEFINE Fine == /\ att' \in [Files -> Attachments \cup {None}]
                   /\ whose' \in [Files -> {"agent", "requester", None}]
                   /\ named' \in [Messages -> SUBSET Files]
<1> SUFFICES Fine
  BY MsgNext DEF FilesTyped
<1>1. CASE UNCHANGED <<att, named, whose>>
  BY <1>1 DEF Typed, FilesTyped
<1>2. ASSUME NEW f \in NewFiles, NEW by \in {"agent", "nobody"}, NEW m \in Messages \cup {None},
             NEW w \in BOOLEAN, UNCHANGED named, StoreFile(f, by, m, w)
      PROVE  Fine
  <2>1. FilesTyped /\ StorageTyped
    BY DEF Typed
  <2>2. /\ att' \in [Files -> Attachments \cup {None}]
        /\ whose' \in [Files -> {"agent", "requester", None}]
    BY <1>2, <2>1, StoreFileIs, Zenon
  <2> QED
    BY <1>2, <2>1, <2>2 DEF FilesTyped
<1>3. ASSUME NEW p \in Procs, PostReply(p) PROVE Fine
  <2>1. CASE UNCHANGED <<att, named, msg>>
    BY <1>3, <2>1, PostReplyIs DEF Typed, FilesTyped
  <2>2. ASSUME NEW m \in Messages, NEW F \in SUBSET Files, \A f \in F : Free(f),
               named' = [named EXCEPT ![m] = F],
               att' = [f \in Files |-> IF f \in F
                         THEN [att[f] EXCEPT !.msg = m, !.awaiting = FALSE] ELSE att[f]]
        PROVE  Fine
    <3>1. ASSUME NEW f \in F PROVE [att[f] EXCEPT !.msg = m, !.awaiting = FALSE] \in Attachments
      <4>1. att[f] \in Attachments
        BY <2>2 DEF Free, Shown, Typed, FilesTyped
      <4> QED
        BY <4>1, PutOn
    <3>2. att' \in [Files -> Attachments \cup {None}]
      BY <2>2, <3>1 DEF Typed, FilesTyped
    <3> QED
      BY <1>3, <2>2, <3>2, PostReplyIs DEF Typed, FilesTyped
  <2> HIDE DEF Fine
  <2> QED
    BY <1>3, <2>1, <2>2, PostReplyIs
<1>4. ASSUME NEW p \in Procs, SavePatch(p) PROVE Fine
  BY <1>4, SavePatchIs DEF Typed, FilesTyped
<1>5. ASSUME NEW p \in Procs, Erase(p) \/ Purge(p) PROVE Fine
  <2>1. UNCHANGED <<named, whose>>
    BY <1>5 DEF Erase, Purge, history
  <2>2. \E F : att' = [f \in Files |-> IF f \in F THEN None ELSE att[f]]
    BY <1>5 DEF Erase, Purge
  <2> QED
    BY <2>1, <2>2 DEF Typed, FilesTyped
<1>6. ASSUME NEW F \in SUBSET Files, LoseRows(F), UNCHANGED whose PROVE Fine
  BY <1>6, LoseRowsIs DEF Typed, FilesTyped
<1>7. CASE DeleteTicket
  BY <1>7 DEF DeleteTicket, Typed, FilesTyped
<1>8. CASE Age
  <2>1. ASSUME NEW f \in Shown PROVE [att[f] EXCEPT !.old = TRUE] \in Attachments
    <3>1. att[f] \in Attachments
      BY DEF Shown, Typed, FilesTyped
    <3>2. None \in Messages \cup {None}
      OBVIOUS
    <3> QED
      BY <3>1, <3>2, PutOn
  <2>2. /\ att' = [f \in Files |-> IF f \in Shown THEN [att[f] EXCEPT !.old = TRUE] ELSE None]
        /\ UNCHANGED <<named, whose>>
    BY <1>8 DEF Age, history
  <2> QED
    BY <2>1, <2>2 DEF Typed, FilesTyped
<1> HIDE DEF Fine
<1> QED
  BY <1>1, <1>2, <1>3, <1>4, <1>5, <1>6, <1>7, <1>8, FileMoves, Zenon DEF FileSteps

(* The steps that may change recordings.                                   *)
VideoSteps ==
  \/ UNCHANGED video
  \/ \E p \in Procs, v \in NewVideos, e \in {"later", None} : StoreVideo(p, v, e)
  \/ \E v \in Videos : DeleteRecording(v)
  \/ \E p \in Procs : \/ Finish(p) \/ MarkExpired(p) \/ Erase(p)
                      \/ \E t \in tasks : Start(p, t)
  \/ DeleteTicket \/ Age

(* No other step does.                                                     *)
LEMMA VideoMoves == [Next]_vars => VideoSteps
<1> SUFFICES ASSUME [Next]_vars PROVE VideoSteps
  OBVIOUS
<1>1. ASSUME NEW p \in Procs, NEW F \in SUBSET Files, ChooseFiles(p, F) PROVE UNCHANGED video
  BY <1>1 DEF ChooseFiles, rows
<1>2. ASSUME NEW p \in Procs, NEW f \in Files, NEW m, Patch(p, f, m) PROVE UNCHANGED video
  BY <1>2 DEF Patch, rows
<1>3. ASSUME NEW p \in Procs, NEW kind, FindTicket(p, kind) \/ WidgetMessage(p, kind)
      PROVE  UNCHANGED video
  BY <1>3 DEF FindTicket, WidgetMessage, rows
<1>4. ASSUME NEW p \in Procs, NEW v \in Videos, Sweep(p, v) PROVE UNCHANGED video
  BY <1>4 DEF Sweep, rows
<1>5. ASSUME NEW p \in Procs, \/ Crash(p) \/ QueueProcessing(p) \/ Shred(p) \/ Probe(p)
                              \/ DeleteFiles(p) \/ Purge(p) \/ PostReply(p) \/ SavePatch(p)
                              \/ SaveAttachment(p)
      PROVE  UNCHANGED video
  BY <1>5 DEF Crash, QueueProcessing, Shred, Probe, DeleteFiles, Purge, PostReply, SavePatch,
              SaveAttachment, rows
<1>6. ASSUME NEW p \in Procs, SaveUpload(p) \/ Record(p) PROVE VideoSteps
  BY <1>6, Zenon DEF SaveUpload, Record, VideoSteps
<1>7. ASSUME NEW f \in Files, DestroyAttachment(f) \/ PostAttachment(f) PROVE UNCHANGED video
  BY <1>7 DEF DestroyAttachment, PostAttachment
<1>8. ASSUME NEW f \in Files, NEW m, AgentUploads(f, m) PROVE UNCHANGED video
  BY <1>8 DEF AgentUploads
<1>9. ASSUME NEW m \in Messages, DeleteMessage(m) PROVE UNCHANGED video
  BY <1>9 DEF DeleteMessage
<1>10. UNCHANGED vars => UNCHANGED video
  BY DEF vars
<1> QED
  BY <1>1, <1>2, <1>3, <1>4, <1>5, <1>6, <1>7, <1>8, <1>9, <1>10, Zenon DEF Next, Goes, VideoSteps

(* A recording whose status or expiry changes is one still.                *)
LEMMA RecordingIs ==
  ASSUME NEW r \in Recordings,
         NEW s \in {"uploading", "processing", "ready", "failed", "expired", "deleted"}
  PROVE  /\ [r EXCEPT !.status = s] \in Recordings /\ [r EXCEPT !.status = s].status = s
         /\ [r EXCEPT !.expires = "past"] \in Recordings
         /\ [r EXCEPT !.expires = "past"].status = r.status
BY DEF Recordings

(* A stored recording, its row, and the task that queues it.               *)
LEMMA StoreVideoIs ==
  ASSUME VideosTyped, NEW p \in Procs, NEW v \in NewVideos, NEW e \in {"later", None},
         StoreVideo(p, v, e)
  PROVE  /\ v \in Videos /\ video[v] = None
         /\ stored' = stored \cup {<<"original", v>>}
         /\ \E r \in Recordings :
              /\ video' = [video EXCEPT ![v] = r]
              /\ \/ /\ r.status = "uploading" /\ ToQueue(p, v) /\ UNCHANGED strayed
                    /\ late' = IF ticket = "erased" THEN late \cup {<<"original", v>>} ELSE late
                 \/ /\ r.status = "deleted" /\ Return(p) /\ UNCHANGED late
                    /\ strayed' = strayed \cup {<<"original", v>>}
<1>1. v \in Videos /\ video[v] = None /\ stored' = stored \cup {<<"original", v>>}
  BY DEF StoreVideo, NewVideos, NextOf
<1>2. CASE ticket # "deleted"
  <2>1. PICK r \in Recordings : r = [status |-> "uploading", expires |-> e]
    BY DEF Recordings
  <2>2. r.status = "uploading"
    BY <2>1
  <2>3. /\ video' = [video EXCEPT ![v] = r] /\ ToQueue(p, v) /\ UNCHANGED strayed
        /\ late' = IF ticket = "erased" THEN late \cup {<<"original", v>>} ELSE late
    BY <1>2, <2>1, Zenon DEF StoreVideo
  <2> QED
    BY <1>1, <2>2, <2>3, Zenon
<1>3. CASE ticket = "deleted"
  <2>1. PICK r \in Recordings : r = [status |-> "deleted", expires |-> None]
    BY DEF Recordings
  <2>2. r.status = "deleted"
    BY <2>1
  <2>3. /\ video' = [video EXCEPT ![v] = r] /\ Return(p) /\ UNCHANGED late
        /\ strayed' = strayed \cup {<<"original", v>>}
    BY <1>3, <2>1, Zenon DEF StoreVideo
  <2> QED
    BY <1>1, <2>2, <2>3, Zenon
<1> QED
  BY <1>2, <1>3

(* A worker's processing ends.                                             *)
LEMMA FinishIs ==
  ASSUME Typed, NEW p \in Procs, Finish(p)
  PROVE  \E v \in Videos :
           /\ pc[p] = "finish" /\ job[p].video = v /\ Return(p)
           /\ \/ v \notin Kept /\ UNCHANGED <<video, tasks>>
              \/ /\ v \in Kept /\ video[v] \in Recordings
                 /\ \E s \in {"ready", "failed"} : video' = [video EXCEPT ![v].status = s]
                 /\ \/ UNCHANGED tasks
                    \/ \E n \in 0 .. MaxRetries : tasks' = tasks \cup {<<v, n>>}
<1>1. pc[p] = "finish" /\ Return(p)
  BY DEF Finish
<1>2. PICK v \in Videos : job[p].video = v /\ job[p].result \in {"ready", "failed"}
                          /\ job[p].tries \in 0 .. MaxRetries
  BY <1>1 DEF Typed, ProcsTyped, JobFor, Jobs
<1>3. CASE v \notin Kept
  BY <1>1, <1>2, <1>3 DEF Finish
<1>4. CASE v \in Kept
  <2>1. /\ video' = [video EXCEPT ![v].status = job[p].result]
        /\ tasks' = IF job[p].result = "failed" /\ MayRetry(job[p].tries)
                    THEN tasks \cup {<<v, job[p].tries + 1>>} ELSE tasks
    BY <1>2, <1>4, Zenon DEF Finish
  <2>2. video[v] \in Recordings
    BY <1>4 DEF Kept, Typed, VideosTyped
  <2>3. UNCHANGED tasks \/ \E n \in 0 .. MaxRetries : tasks' = tasks \cup {<<v, n>>}
    <3>1. CASE MayRetry(job[p].tries)
      <4>1. job[p].tries + 1 \in 0 .. MaxRetries
        BY <1>2, <3>1, UploadsAssumption DEF MayRetry
      <4> QED
        BY <2>1, <4>1, Zenon
    <3>2. CASE ~MayRetry(job[p].tries)
      BY <2>1, <3>2, Zenon
    <3> QED
      BY <3>1, <3>2
  <2> QED
    BY <1>1, <1>2, <1>4, <2>1, <2>2, <2>3, Zenon
<1> QED
  BY <1>3, <1>4

(* Recordings deleted with the ticket, or by an erasure.                   *)
AllDeleted == video' = [v \in Videos |-> IF v \in Kept THEN [video[v] EXCEPT !.status = "deleted"]
                                         ELSE video[v]]

(* Recordings keep their types.                                            *)
LEMMA VideoNext ==
  ASSUME Typed, [Next]_vars
  PROVE  video' \in [Videos -> Recordings \cup {None}]
<1> DEFINE Fine == video' \in [Videos -> Recordings \cup {None}]
<1>1. UNCHANGED video => Fine
  BY DEF Typed, VideosTyped
<1>2. ASSUME NEW p \in Procs, NEW v \in NewVideos, NEW e \in {"later", None}, StoreVideo(p, v, e)
      PROVE  Fine
  BY <1>2, StoreVideoIs DEF Typed, VideosTyped
<1>3. ASSUME NEW v \in Videos, DeleteRecording(v) PROVE Fine
  <2>1. video[v] \in Recordings /\ video' = [video EXCEPT ![v].status = "deleted"]
    BY <1>3 DEF DeleteRecording, Kept, Typed, VideosTyped
  <2> QED
    BY <2>1, RecordingIs DEF Typed, VideosTyped
<1>4. ASSUME NEW p \in Procs, Finish(p) PROVE Fine
  <2>1. CASE UNCHANGED video
    BY <1>1, <2>1
  <2>2. ASSUME NEW v \in Videos, video[v] \in Recordings, NEW s \in {"ready", "failed"},
               video' = [video EXCEPT ![v].status = s]
        PROVE  Fine
    BY <2>2, RecordingIs DEF Typed, VideosTyped
  <2> HIDE DEF Fine
  <2> QED
    BY <1>4, <2>1, <2>2, FinishIs, Zenon
<1>5. ASSUME NEW p \in Procs, MarkExpired(p) PROVE Fine
  <2>1. CASE UNCHANGED video
    BY <1>1, <2>1
  <2>2. CASE job[p].video \in Kept /\ video' = [video EXCEPT ![job[p].video].status = "expired"]
    <3>1. job[p].video \in Videos /\ video[job[p].video] \in Recordings
      BY <2>2 DEF Kept, Typed, VideosTyped
    <3> QED
      BY <2>2, <3>1, RecordingIs DEF Typed, VideosTyped
  <2> QED
    BY <1>5, <2>1, <2>2 DEF MarkExpired
<1>6. AllDeleted => Fine
  <2>1. ASSUME NEW v \in Kept PROVE [video[v] EXCEPT !.status = "deleted"] \in Recordings
    <3>1. video[v] \in Recordings
      BY DEF Kept, Typed, VideosTyped
    <3> QED
      BY <3>1, RecordingIs
  <2> QED
    BY <2>1 DEF AllDeleted, Typed, VideosTyped
<1>7. ASSUME NEW p \in Procs, Erase(p) PROVE AllDeleted
  BY <1>7, Zenon DEF Erase, AllDeleted
<1>8. ASSUME NEW p \in Procs, NEW t \in tasks, Start(p, t) PROVE Fine
  <2>1. CASE UNCHANGED video
    BY <1>1, <2>1
  <2>2. CASE t[1] \in Kept /\ video' = [video EXCEPT ![t[1]].status = "processing"]
    <3>1. t[1] \in Videos /\ video[t[1]] \in Recordings
      BY <2>2 DEF Kept, Typed, VideosTyped
    <3> QED
      BY <2>2, <3>1, RecordingIs DEF Typed, VideosTyped
  <2> QED
    BY <1>8, <2>1, <2>2 DEF Start
<1>9. DeleteTicket => AllDeleted
  BY Zenon DEF DeleteTicket, AllDeleted
<1>10. Age => Fine
  <2>1. ASSUME NEW v \in Videos, video[v] # None
        PROVE  [video[v] EXCEPT !.expires = "past"] \in Recordings
    <3>1. video[v] \in Recordings
      BY <2>1 DEF Typed, VideosTyped
    <3> QED
      BY <3>1 DEF Recordings
  <2> QED
    BY <2>1 DEF Age, Typed, VideosTyped
<1> HIDE DEF Fine
<1>11. Fine
  BY <1>1, <1>2, <1>3, <1>4, <1>5, <1>6, <1>7, <1>8, <1>9, <1>10, VideoMoves, Zenon
  DEF VideoSteps
<1> QED
  BY <1>11 DEF Fine

(* The tasks queued: only three steps change them.                         *)
LEMMA TaskMoves ==
  ASSUME [Next]_vars
  PROVE  \/ UNCHANGED tasks
         \/ \E p \in Procs : \/ QueueProcessing(p) \/ Finish(p)
                             \/ \E t \in tasks : Start(p, t)
<1>1. ASSUME NEW p \in Procs, NEW F \in SUBSET Files, ChooseFiles(p, F) PROVE UNCHANGED tasks
  BY <1>1 DEF ChooseFiles
<1>2. ASSUME NEW p \in Procs, NEW f \in Files, NEW m, Patch(p, f, m) PROVE UNCHANGED tasks
  BY <1>2 DEF Patch
<1>3. ASSUME NEW p \in Procs, NEW kind, FindTicket(p, kind) \/ WidgetMessage(p, kind)
      PROVE  UNCHANGED tasks
  BY <1>3 DEF FindTicket, WidgetMessage
<1>4. ASSUME NEW p \in Procs, NEW v \in Videos, Sweep(p, v) PROVE UNCHANGED tasks
  BY <1>4 DEF Sweep
<1>5. ASSUME NEW p \in Procs, \/ Crash(p) \/ Shred(p) \/ Probe(p) \/ DeleteFiles(p) \/ Purge(p)
                              \/ PostReply(p) \/ SavePatch(p) \/ SaveAttachment(p) \/ Erase(p)
                              \/ SaveUpload(p) \/ Record(p) \/ MarkExpired(p)
      PROVE  UNCHANGED tasks
  BY <1>5 DEF Crash, Shred, Probe, DeleteFiles, Purge, PostReply, SavePatch,
              SaveAttachment, Erase, SaveUpload, Record, MarkExpired
<1>6. ASSUME NEW f \in Files, DestroyAttachment(f) \/ PostAttachment(f) PROVE UNCHANGED tasks
  BY <1>6 DEF DestroyAttachment, PostAttachment
<1>7. ASSUME NEW f \in Files, NEW m, AgentUploads(f, m) PROVE UNCHANGED tasks
  BY <1>7 DEF AgentUploads
<1>8. ASSUME NEW m \in Messages, DeleteMessage(m) PROVE UNCHANGED tasks
  BY <1>8 DEF DeleteMessage
<1>9. ASSUME NEW v \in Videos, DeleteRecording(v) PROVE UNCHANGED tasks
  BY <1>9 DEF DeleteRecording
<1>10. DeleteTicket \/ Age \/ UNCHANGED vars => UNCHANGED tasks
  BY DEF DeleteTicket, Age, vars
<1> QED
  BY <1>1, <1>2, <1>3, <1>4, <1>5, <1>6, <1>7, <1>8, <1>9, <1>10, Zenon DEF Next, Goes

(* Recordings and their tasks keep their types.                            *)
LEMMA VideosNext == Typed /\ [Next]_vars => VideosTyped'
<1> SUFFICES ASSUME Typed, [Next]_vars PROVE VideosTyped'
  OBVIOUS
<1>1. tasks' \in SUBSET (Videos \X (0 .. MaxRetries))
  <2>1. CASE UNCHANGED tasks
    BY <2>1 DEF Typed, VideosTyped
  <2>2. ASSUME NEW p \in Procs, QueueProcessing(p)
        PROVE  tasks' \in SUBSET (Videos \X (0 .. MaxRetries))
    <3>1. job[p].video \in Videos /\ tasks' \subseteq tasks \cup {<<job[p].video, 0>>}
      BY <2>2 DEF QueueProcessing, Typed, ProcsTyped, JobFor
    <3>2. 0 \in 0 .. MaxRetries
      BY UploadsAssumption
    <3> QED
      BY <3>1, <3>2 DEF Typed, VideosTyped
  <2>3. ASSUME NEW p \in Procs, Finish(p) PROVE tasks' \in SUBSET (Videos \X (0 .. MaxRetries))
    BY <2>3, FinishIs DEF Typed, VideosTyped
  <2>4. ASSUME NEW p \in Procs, NEW t \in tasks, Start(p, t)
        PROVE  tasks' \in SUBSET (Videos \X (0 .. MaxRetries))
    BY <2>4 DEF Start, Typed, VideosTyped
  <2> QED
    BY <2>1, <2>2, <2>3, <2>4, TaskMoves
<1> QED
  BY <1>1, VideoNext DEF VideosTyped

(* The steps that may change what is stored, or what is known of it.       *)
StorageSteps ==
  \/ UNCHANGED <<ticket, stored, late, strayed>>
  \/ /\ UNCHANGED <<ticket, named>>
     /\ \E f \in NewFiles, by \in {"agent", "nobody"}, m \in Messages \cup {None}, w \in BOOLEAN :
          StoreFile(f, by, m, w)
  \/ /\ UNCHANGED ticket
     /\ \E p \in Procs, v \in NewVideos, e \in {"later", None} : StoreVideo(p, v, e)
  \/ \E p \in Procs : Shred(p) \/ Probe(p) \/ DeleteFiles(p) \/ Erase(p)
  \/ \E F \in SUBSET Files : LoseRows(F) /\ UNCHANGED <<ticket, stored, late>>
  \/ \E v \in Videos : DeleteRecording(v)
  \/ DeleteTicket

(* No other step does.                                                     *)
LEMMA StorageMoves == [Next]_vars => StorageSteps
<1> SUFFICES ASSUME [Next]_vars PROVE StorageSteps
  OBVIOUS
<1> DEFINE Same == UNCHANGED <<ticket, stored, late, strayed>>
<1>1. ASSUME NEW p \in Procs, NEW F \in SUBSET Files, ChooseFiles(p, F) PROVE Same
  BY <1>1 DEF ChooseFiles, history
<1>2. ASSUME NEW p \in Procs, NEW f \in Files, NEW m, Patch(p, f, m) PROVE Same
  BY <1>2 DEF Patch, history
<1>3. ASSUME NEW p \in Procs, NEW kind, FindTicket(p, kind) \/ WidgetMessage(p, kind) PROVE Same
  BY <1>3 DEF FindTicket, WidgetMessage, history
<1>4. ASSUME NEW p \in Procs, NEW v \in Videos, Sweep(p, v) PROVE Same
  BY <1>4 DEF Sweep, history
<1>5. ASSUME NEW p \in Procs, NEW t \in tasks, Start(p, t) PROVE Same
  BY <1>5 DEF Start, history
<1>6. ASSUME NEW p \in Procs, \/ Crash(p) \/ QueueProcessing(p) \/ Purge(p) \/ PostReply(p)
                              \/ SavePatch(p) \/ Finish(p) \/ MarkExpired(p)
      PROVE  Same
  BY <1>6 DEF Crash, QueueProcessing, Purge, PostReply, SavePatch, Finish, MarkExpired, history
<1>7. ASSUME NEW p \in Procs, SaveUpload(p) PROVE StorageSteps
  <2>1. None \in Messages \cup {None} /\ UNCHANGED <<ticket, named>>
    BY <1>7 DEF SaveUpload
  <2> QED
    BY <1>7, <2>1, Zenon DEF SaveUpload, StorageSteps
<1>8. ASSUME NEW p \in Procs, Record(p) PROVE StorageSteps
  BY <1>8, Zenon DEF Record, StorageSteps
<1>9. ASSUME NEW p \in Procs, SaveAttachment(p) PROVE StorageSteps
  <2>1. CASE UNCHANGED <<stored, late, strayed>>
    BY <1>9, <2>1 DEF SaveAttachment, StorageSteps
  <2>2. CASE job[p].msg \in Written /\ \E f \in NewFiles : StoreFile(f, "nobody", job[p].msg, FALSE)
    <3>1. job[p].msg \in Messages \cup {None} /\ UNCHANGED <<ticket, named>>
      BY <1>9, <2>2 DEF Written, SaveAttachment
    <3> QED
      BY <2>2, <3>1, Zenon DEF StorageSteps
  <2> QED
    BY <1>9, <2>1, <2>2, Zenon DEF SaveAttachment
<1>10. ASSUME NEW f \in Files, PostAttachment(f) PROVE StorageSteps
  <2>1. PICK m \in NewMessages : StoreFile(f, "nobody", m, FALSE)
    BY <1>10 DEF PostAttachment
  <2>2. f \in NewFiles /\ UNCHANGED <<ticket, named>> /\ m \in Messages \cup {None}
    BY <1>10 DEF PostAttachment, NewMessages, NextOf
  <2> QED
    BY <2>1, <2>2, Zenon DEF StorageSteps
<1>11. ASSUME NEW f \in Files, DestroyAttachment(f) PROVE StorageSteps
  <2>1. LoseRows({f}) /\ UNCHANGED <<ticket, stored, late>> /\ {f} \in SUBSET Files
    BY <1>11 DEF DestroyAttachment
  <2> QED
    BY <2>1, Zenon DEF StorageSteps
<1>12. ASSUME NEW f \in Files, NEW m \in Messages \cup {None}, AgentUploads(f, m)
       PROVE  StorageSteps
  <2>1. /\ f \in NewFiles /\ StoreFile(f, "agent", m, m = None) /\ UNCHANGED <<ticket, named>>
        /\ (m = None) \in BOOLEAN
    BY <1>12 DEF AgentUploads
  <2> QED
    BY <2>1, Zenon DEF StorageSteps
<1>13. ASSUME NEW m \in Messages, DeleteMessage(m) PROVE StorageSteps
  <2>1. LoseRows({f \in Shown : att[f].msg = m}) /\ UNCHANGED <<ticket, stored, late>>
    BY <1>13 DEF DeleteMessage
  <2>2. {f \in Shown : att[f].msg = m} \in SUBSET Files
    BY DEF Shown
  <2> QED
    BY <2>1, <2>2, Zenon DEF StorageSteps
<1>14. Age \/ UNCHANGED vars => Same
  BY DEF Age, vars, history
<1> HIDE DEF Same
<1>15. Same => StorageSteps
  BY DEF Same, StorageSteps
<1>16. ASSUME NEW p \in Procs, Goes(p) PROVE StorageSteps
  BY <1>6, <1>7, <1>8, <1>9, <1>15, <1>16, Zenon DEF Goes, StorageSteps
<1> QED
  BY <1>1, <1>2, <1>3, <1>4, <1>5, <1>6, <1>10, <1>11, <1>12, <1>13, <1>14, <1>15, <1>16, Zenon
  DEF Next, StorageSteps

(* A thumbnail stored, and known to nobody; or nothing.                    *)
LEMMA ProbeIs ==
  ASSUME Typed, NEW p \in Procs, Probe(p)
  PROVE  /\ UNCHANGED <<ticket, rows, tasks, history, happened>>
         /\ \E v \in Videos :
              /\ pc[p] = "probe" /\ job[p].video = v
              /\ \/ UNCHANGED <<stored, strayed>>
                 \/ /\ stored' = stored \cup {<<"thumbnail", v>>}
                    /\ strayed' = strayed \cup {<<"thumbnail", v>>}
              /\ \E s \in {"ready", "failed"} : Goto(p, "finish", [job[p] EXCEPT !.result = s])
<1>1. pc[p] = "probe" /\ UNCHANGED <<ticket, rows, tasks, history, happened>>
  BY DEF Probe
<1>2. PICK v \in Videos : v = job[p].video
  BY <1>1 DEF Typed, ProcsTyped, JobFor
<1>3. \/ UNCHANGED <<stored, strayed>>
      \/ /\ stored' = stored \cup {<<"thumbnail", v>>}
         /\ strayed' = strayed \cup {<<"thumbnail", v>>}
  BY <1>2 DEF Probe
<1>4. \E s \in {"ready", "failed"} : Goto(p, "finish", [job[p] EXCEPT !.result = s])
  BY Zenon DEF Probe
<1> QED
  BY <1>1, <1>2, <1>3, <1>4, Zenon

(* What is stored keeps its types.                                         *)
LEMMA StorageNext == Typed /\ [Next]_vars => StorageTyped'
<1> SUFFICES ASSUME Typed, [Next]_vars PROVE StorageTyped'
  OBVIOUS
<1> USE DEF Objects, FileObjects, Originals
<1>1. CASE UNCHANGED <<ticket, stored, late, strayed>>
  BY <1>1 DEF Typed, StorageTyped
<1>2. ASSUME UNCHANGED ticket, NEW f \in NewFiles, NEW by \in {"agent", "nobody"},
             NEW m \in Messages \cup {None}, NEW w \in BOOLEAN, StoreFile(f, by, m, w)
      PROVE  StorageTyped'
  <2>1. <<"file", f>> \in Objects
    BY DEF NewFiles, NextOf
  <2>2. /\ stored' = stored \cup {<<"file", f>>} /\ strayed' \subseteq strayed \cup {<<"file", f>>}
        /\ late' \subseteq late \cup {<<"file", f>>}
    BY <1>2, StoreFileIs DEF Typed
  <2> QED
    BY <1>2, <2>1, <2>2 DEF Typed, StorageTyped
<1>3. ASSUME UNCHANGED ticket, NEW p \in Procs, NEW v \in NewVideos, NEW e \in {"later", None},
             StoreVideo(p, v, e)
      PROVE  StorageTyped'
  <2>1. <<"original", v>> \in Objects
    BY DEF NewVideos, NextOf
  <2>2. /\ stored' = stored \cup {<<"original", v>>}
        /\ strayed' \subseteq strayed \cup {<<"original", v>>}
        /\ late' \subseteq late \cup {<<"original", v>>}
    BY <1>3, StoreVideoIs DEF Typed
  <2> QED
    BY <1>3, <2>1, <2>2 DEF Typed, StorageTyped
<1>4. ASSUME NEW p \in Procs, Shred(p) PROVE StorageTyped'
  BY <1>4 DEF Shred, history, Typed, StorageTyped
<1>5. ASSUME NEW p \in Procs, Probe(p) PROVE StorageTyped'
  <2>1. \A v \in Videos : <<"thumbnail", v>> \in Objects
    OBVIOUS
  <2>2. UNCHANGED <<ticket, late>>
    BY <1>5 DEF Probe, history
  <2>3. PICK v \in Videos : \/ UNCHANGED <<stored, strayed>>
                           \/ /\ stored' = stored \cup {<<"thumbnail", v>>}
                              /\ strayed' = strayed \cup {<<"thumbnail", v>>}
    BY <1>5, ProbeIs, Zenon
  <2> QED
    BY <2>1, <2>2, <2>3 DEF Typed, StorageTyped
<1>6. ASSUME NEW p \in Procs, DeleteFiles(p) PROVE StorageTyped'
  BY <1>6 DEF DeleteFiles, history, Typed, StorageTyped
<1>7. ASSUME NEW p \in Procs, Erase(p) PROVE StorageTyped'
  BY <1>7 DEF Erase, Typed, StorageTyped
<1>8. ASSUME NEW F \in SUBSET Files, LoseRows(F), UNCHANGED <<ticket, stored, late>>
      PROVE  StorageTyped'
  BY <1>8 DEF LoseRows, Typed, StorageTyped
<1>9. ASSUME NEW v \in Videos, DeleteRecording(v) PROVE StorageTyped'
  BY <1>9 DEF DeleteRecording, history, Typed, StorageTyped
<1>10. CASE DeleteTicket
  BY <1>10 DEF DeleteTicket, Typed, StorageTyped
<1> QED
  BY <1>1, <1>2, <1>3, <1>4, <1>5, <1>6, <1>7, <1>8, <1>9, <1>10, StorageMoves, Zenon
  DEF StorageSteps

(* A process gets to step s with j in hand.                                *)
LEMMA GotoTyped ==
  ASSUME ProcsTyped, NEW p \in Procs, NEW s \in Steps, NEW j \in Jobs \cup {None},
         JobFor(s, j), Goto(p, s, j)
  PROVE  ProcsTyped'
<1>1. pc' = [pc EXCEPT ![p] = s] /\ job' = [job EXCEPT ![p] = j]
  BY DEF Goto
<1>2. pc' \in [Procs -> Steps] /\ job' \in [Procs -> Jobs \cup {None}]
  BY <1>1 DEF ProcsTyped
<1>3. ASSUME NEW q \in Procs PROVE JobFor(pc'[q], job'[q])
  <2>1. CASE q = p
    <3>1. pc'[q] = s /\ job'[q] = j
      BY <1>1, <2>1 DEF ProcsTyped
    <3> QED
      BY <3>1
  <2>2. CASE q # p
    <3>1. pc'[q] = pc[q] /\ job'[q] = job[q]
      BY <1>1, <2>2 DEF ProcsTyped
    <3> QED
      BY <3>1 DEF ProcsTyped
  <2> QED
    BY <2>1, <2>2
<1> QED
  BY <1>2, <1>3 DEF ProcsTyped, JobFor

(* It returns, with nothing in hand.                                       *)
LEMMA ReturnTyped ==
  ASSUME ProcsTyped, NEW p \in Procs, Return(p)
  PROVE  ProcsTyped'
<1>1. "idle" \in Steps /\ None \in Jobs \cup {None} /\ JobFor("idle", None)
  BY DEF Steps, JobFor
<1> QED
  BY <1>1, GotoTyped DEF Return

(* What processes begin with.                                              *)
LEMMA NewJobIs ==
  /\ NoJob \in Jobs
  /\ \A F \in SUBSET Files : [NoJob EXCEPT !.files = F] \in Jobs
  /\ \A O \in SUBSET Objects : [NoJob EXCEPT !.objects = O] \in Jobs
  /\ \A k \in {"file", "video"} :
       /\ [NoJob EXCEPT !.kind = k] \in Jobs
       /\ \A m \in Messages : [NoJob EXCEPT !.kind = k, !.msg = m] \in Jobs
  /\ \A v \in Videos :
       /\ [NoJob EXCEPT !.video = v] \in Jobs /\ [NoJob EXCEPT !.video = v].video = v
       /\ \A n \in 0 .. MaxRetries :
            /\ [NoJob EXCEPT !.video = v, !.tries = n] \in Jobs
            /\ [NoJob EXCEPT !.video = v, !.tries = n].video = v
<1>1. NoJob \in Jobs
  <2>1. 0 \in 0 .. MaxRetries
    BY UploadsAssumption
  <2> QED
    BY <2>1 DEF NoJob, Jobs
<1>2. \A F \in SUBSET Files : [NoJob EXCEPT !.files = F] \in Jobs
  BY <1>1 DEF Jobs
<1>3. \A O \in SUBSET Objects : [NoJob EXCEPT !.objects = O] \in Jobs
  BY <1>1 DEF Jobs
<1>4. ASSUME NEW k \in {"file", "video"}
      PROVE  /\ [NoJob EXCEPT !.kind = k] \in Jobs
             /\ \A m \in Messages : [NoJob EXCEPT !.kind = k, !.msg = m] \in Jobs
  <2>1. [NoJob EXCEPT !.kind = k] \in Jobs
    BY <1>1 DEF Jobs
  <2>2. ASSUME NEW m \in Messages PROVE [NoJob EXCEPT !.kind = k, !.msg = m] \in Jobs
    <3>1. PICK j \in Jobs : j = [NoJob EXCEPT !.kind = k]
      BY <2>1
    <3>2. [NoJob EXCEPT !.kind = k, !.msg = m] = [j EXCEPT !.msg = m]
      BY <1>1, <3>1 DEF Jobs
    <3>3. [j EXCEPT !.msg = m] \in Jobs
      BY DEF Jobs
    <3> QED
      BY <3>2, <3>3
  <2> QED
    BY <2>1, <2>2
<1>5. ASSUME NEW v \in Videos
      PROVE  /\ [NoJob EXCEPT !.video = v] \in Jobs /\ [NoJob EXCEPT !.video = v].video = v
             /\ \A n \in 0 .. MaxRetries :
                  /\ [NoJob EXCEPT !.video = v, !.tries = n] \in Jobs
                  /\ [NoJob EXCEPT !.video = v, !.tries = n].video = v
  <2>1. [NoJob EXCEPT !.video = v] \in Jobs /\ [NoJob EXCEPT !.video = v].video = v
    BY <1>1 DEF Jobs
  <2>2. ASSUME NEW n \in 0 .. MaxRetries
        PROVE  /\ [NoJob EXCEPT !.video = v, !.tries = n] \in Jobs
               /\ [NoJob EXCEPT !.video = v, !.tries = n].video = v
    <3>1. PICK j \in Jobs : j = [NoJob EXCEPT !.video = v] /\ j.video = v
      BY <2>1
    <3>2. [NoJob EXCEPT !.video = v, !.tries = n] = [j EXCEPT !.tries = n]
      BY <1>1, <3>1 DEF Jobs
    <3>3. [j EXCEPT !.tries = n] \in Jobs /\ [j EXCEPT !.tries = n].video = j.video
      BY DEF Jobs
    <3> QED
      BY <3>1, <3>2, <3>3
  <2> QED
    BY <2>1, <2>2
<1> QED
  BY <1>1, <1>2, <1>3, <1>4, <1>5, Zenon

(* One field of a job set: the others stay.                                *)
LEMMA JobWith ==
  ASSUME NEW j \in Jobs
  PROVE  /\ \A a \in Attachments :
              /\ [j EXCEPT !.row = a] \in Jobs /\ [j EXCEPT !.row = a].files = j.files
              /\ [j EXCEPT !.row = a].row = a
         /\ \A m \in Messages \cup {None} :
              /\ [j EXCEPT !.msg = m] \in Jobs /\ [j EXCEPT !.msg = m].files = j.files
              /\ [j EXCEPT !.msg = m].row = j.row
         /\ \A s \in {"ready", "failed"} :
              /\ [j EXCEPT !.result = s] \in Jobs /\ [j EXCEPT !.result = s].video = j.video
              /\ [j EXCEPT !.result = s].result = s
<1>1. ASSUME NEW a \in Attachments
      PROVE  /\ [j EXCEPT !.row = a] \in Jobs /\ [j EXCEPT !.row = a].files = j.files
             /\ [j EXCEPT !.row = a].row = a
  BY DEF Jobs
<1>2. ASSUME NEW m \in Messages \cup {None}
      PROVE  /\ [j EXCEPT !.msg = m] \in Jobs /\ [j EXCEPT !.msg = m].files = j.files
             /\ [j EXCEPT !.msg = m].row = j.row
  BY DEF Jobs
<1>3. ASSUME NEW s \in {"ready", "failed"}
      PROVE  /\ [j EXCEPT !.result = s] \in Jobs /\ [j EXCEPT !.result = s].video = j.video
             /\ [j EXCEPT !.result = s].result = s
  BY DEF Jobs
<1> QED
  BY <1>1, <1>2, <1>3, Zenon

(* What a changed upload is loaded with.                                   *)
Loaded(f, a, m) == [NoJob EXCEPT !.files = {f}, !.row = a, !.msg = m]

(* It is a job, with that file and that row.                               *)
LEMMA LoadedIs ==
  ASSUME NEW f \in Files, NEW a \in Attachments, NEW m \in Messages \cup {None}
  PROVE  Loaded(f, a, m) \in Jobs /\ Loaded(f, a, m).files = {f} /\ Loaded(f, a, m).row = a
<1> DEFINE i == [NoJob EXCEPT !.files = {f}]
           k == [i EXCEPT !.row = a]
           j == [k EXCEPT !.msg = m]
<1>1. i \in Jobs /\ i.files = {f}
  BY NewJobIs DEF NoJob
<1>2. Loaded(f, a, m) = j
  BY NewJobIs DEF Loaded, Jobs
<1> HIDE DEF i
<1>3. k \in Jobs /\ k.files = {f} /\ k.row = a
  BY <1>1, JobWith
<1> HIDE DEF k
<1>4. j \in Jobs /\ j.files = {f} /\ j.row = a
  BY <1>3, JobWith
<1> HIDE DEF j
<1> QED
  BY <1>2, <1>4

(* What is in hand keeps its types.                                        *)
LEMMA ProcsNext == Typed /\ [Next]_vars => ProcsTyped'
<1> SUFFICES ASSUME Typed, [Next]_vars PROVE ProcsTyped'
  OBVIOUS
<1>1. ProcsTyped
  BY DEF Typed
<1>2. UNCHANGED procs => ProcsTyped'
  BY <1>1 DEF procs, ProcsTyped, JobFor
<1>3. ASSUME NEW p \in Procs, NEW F \in SUBSET Files, ChooseFiles(p, F) PROVE ProcsTyped'
  <2>1. Goto(p, "post", [NoJob EXCEPT !.files = F])
    BY <1>3 DEF ChooseFiles, Begin
  <2>2. [NoJob EXCEPT !.files = F] \in Jobs /\ "post" \in Steps
    BY NewJobIs DEF Steps
  <2>3. JobFor("post", [NoJob EXCEPT !.files = F])
    BY <2>2 DEF JobFor
  <2> QED
    BY <1>1, <2>1, <2>2, <2>3, GotoTyped
<1>4. ASSUME NEW p \in Procs, NEW f \in Files, NEW m \in Messages \cup {None}, Patch(p, f, m)
      PROVE  ProcsTyped'
  <2>1. att[f] \in Attachments
    BY <1>4 DEF Patch, Shown, Typed, FilesTyped
  <2> DEFINE j == Loaded(f, att[f], m)
  <2>2. j \in Jobs /\ j.files = {f} /\ j.row = att[f]
    BY <2>1, LoadedIs
  <2>3. Goto(p, "patch", j)
    BY <1>4, Zenon DEF Patch, Begin, Loaded
  <2> HIDE DEF j
  <2>4. j \in Jobs /\ JobFor("patch", j) /\ "patch" \in Steps
    BY <2>1, <2>2 DEF JobFor, Steps
  <2> QED
    BY <1>1, <2>3, <2>4, GotoTyped
<1>5. ASSUME NEW p \in Procs, NEW k \in {"file", "video"}, FindTicket(p, k) PROVE ProcsTyped'
  <2>1. Goto(p, "upload", [NoJob EXCEPT !.kind = k])
    BY <1>5 DEF FindTicket, Begin
  <2>2. [NoJob EXCEPT !.kind = k] \in Jobs /\ "upload" \in Steps
    BY NewJobIs DEF Steps
  <2>3. JobFor("upload", [NoJob EXCEPT !.kind = k])
    BY <2>2 DEF JobFor
  <2> QED
    BY <1>1, <2>1, <2>2, <2>3, GotoTyped
<1>6. ASSUME NEW p \in Procs, NEW k \in {"file", "video"}, WidgetMessage(p, k) PROVE ProcsTyped'
  <2>1. PICK m \in Messages : Goto(p, "attach", [NoJob EXCEPT !.kind = k, !.msg = m])
    BY <1>6 DEF WidgetMessage, Begin, NewMessages, NextOf
  <2>2. [NoJob EXCEPT !.kind = k, !.msg = m] \in Jobs /\ "attach" \in Steps
    BY NewJobIs DEF Steps
  <2>3. JobFor("attach", [NoJob EXCEPT !.kind = k, !.msg = m])
    BY <2>2 DEF JobFor
  <2> QED
    BY <1>1, <2>1, <2>2, <2>3, GotoTyped
<1>7. ASSUME NEW p \in Procs, NEW t \in tasks, Start(p, t) PROVE ProcsTyped'
  <2>1. t[1] \in Videos /\ t[2] \in 0 .. MaxRetries
    BY DEF Typed, VideosTyped
  <2>2. PICK j \in Jobs : j = [NoJob EXCEPT !.video = t[1], !.tries = t[2]] /\ j.video = t[1]
    BY <2>1, NewJobIs, Zenon
  <2>3. UNCHANGED procs \/ Goto(p, "probe", j)
    BY <1>7, <2>2, Zenon DEF Start
  <2>4. JobFor("probe", j) /\ "probe" \in Steps
    BY <2>1, <2>2 DEF JobFor, Steps
  <2> QED
    BY <1>1, <1>2, <2>3, <2>4, GotoTyped
<1>8. ASSUME NEW p \in Procs, NEW v \in Videos, Sweep(p, v) PROVE ProcsTyped'
  <2>1. PICK j \in Jobs : j = [NoJob EXCEPT !.video = v] /\ j.video = v
    BY NewJobIs, Zenon
  <2>2. Goto(p, "delete", j)
    BY <1>8, <2>1 DEF Sweep, Begin
  <2>3. JobFor("delete", j) /\ "delete" \in Steps
    BY <2>1 DEF JobFor, Steps
  <2> QED
    BY <1>1, <2>2, <2>3, GotoTyped
<1>9. ASSUME NEW p \in Procs, Erase(p) \/ Purge(p) PROVE ProcsTyped'
  <2>1. PICK O \in SUBSET Objects : Goto(p, "shred", [NoJob EXCEPT !.objects = O])
    <3>1. FileObjects({f \in Shown : ByTheContact(f)}) \cup Originals(Kept) \in SUBSET Objects
      BY DEF FileObjects, Originals, Objects, Shown, Kept
    <3>2. FileObjects({f \in Files : Orphan(f)}) \in SUBSET Objects
      BY DEF FileObjects, Objects
    <3> QED
      BY <1>9, <3>1, <3>2, Zenon DEF Erase, Purge, Begin
  <2>2. [NoJob EXCEPT !.objects = O] \in Jobs /\ "shred" \in Steps
    BY NewJobIs DEF Steps
  <2>3. JobFor("shred", [NoJob EXCEPT !.objects = O])
    BY <2>2 DEF JobFor
  <2> QED
    BY <1>1, <2>1, <2>2, <2>3, GotoTyped
<1>10. ASSUME NEW p \in Procs, NEW v \in Videos, ToQueue(p, v) PROVE ProcsTyped'
  <2>1. PICK j \in Jobs : j = [NoJob EXCEPT !.video = v] /\ j.video = v
    BY NewJobIs, Zenon
  <2>2. Goto(p, "queue", j)
    BY <1>10, <2>1 DEF ToQueue
  <2>3. JobFor("queue", j) /\ "queue" \in Steps
    BY <2>1 DEF JobFor, Steps
  <2> QED
    BY <1>1, <2>2, <2>3, GotoTyped
<1>11. ASSUME NEW p \in Procs, NEW v \in NewVideos, NEW e \in {"later", None},
              StoreVideo(p, v, e)
       PROVE  ProcsTyped'
  <2>1. v \in Videos /\ (ToQueue(p, v) \/ Return(p))
    BY <1>11, StoreVideoIs, Zenon DEF Typed
  <2> QED
    BY <1>1, <1>10, <2>1, ReturnTyped
<1>12. ASSUME NEW p \in Procs, SaveUpload(p) PROVE ProcsTyped'
  <2>1. Return(p) \/ \E v \in NewVideos : StoreVideo(p, v, "later")
    BY <1>12, Zenon DEF SaveUpload
  <2> QED
    BY <1>1, <1>11, <2>1, ReturnTyped
<1>13. ASSUME NEW p \in Procs, SaveAttachment(p) PROVE ProcsTyped'
  <2>1. Return(p) \/ Goto(p, "record", NoJob)
    BY <1>13, Zenon DEF SaveAttachment
  <2>2. NoJob \in Jobs /\ JobFor("record", NoJob) /\ "record" \in Steps
    BY NewJobIs DEF JobFor, Steps
  <2> QED
    BY <1>1, <2>1, <2>2, ReturnTyped, GotoTyped
<1>14. ASSUME NEW p \in Procs, Record(p) PROVE ProcsTyped'
  BY <1>11, <1>14 DEF Record
<1>15. ASSUME NEW p \in Procs, Probe(p) PROVE ProcsTyped'
  <2>1. PICK s \in {"ready", "failed"} : Goto(p, "finish", [job[p] EXCEPT !.result = s])
    BY <1>15, ProbeIs, Zenon
  <2>2. job[p] \in Jobs /\ job[p].video \in Videos
    BY <1>1, <1>15 DEF Probe, ProcsTyped, JobFor
  <2> DEFINE j == [job[p] EXCEPT !.result = s]
  <2>3. j \in Jobs /\ j.video = job[p].video /\ j.result = s
    BY <2>2, JobWith
  <2> HIDE DEF j
  <2>4. JobFor("finish", j) /\ "finish" \in Steps
    BY <2>2, <2>3 DEF JobFor, Steps
  <2>5. Goto(p, "finish", j)
    BY <2>1 DEF j
  <2> QED
    BY <1>1, <2>3, <2>4, <2>5, GotoTyped
<1>16. ASSUME NEW p \in Procs, DeleteFiles(p) PROVE ProcsTyped'
  <2>1. Return(p) \/ Goto(p, "expire", job[p])
    BY <1>16, Zenon DEF DeleteFiles
  <2>2. job[p] \in Jobs /\ JobFor("expire", job[p]) /\ "expire" \in Steps
    BY <1>1, <1>16 DEF DeleteFiles, ProcsTyped, JobFor, Steps
  <2> QED
    BY <1>1, <2>1, <2>2, ReturnTyped, GotoTyped
<1>17. ASSUME NEW p \in Procs, \/ PostReply(p) \/ SavePatch(p) \/ QueueProcessing(p) \/ Shred(p)
                               \/ Finish(p) \/ MarkExpired(p) \/ Crash(p)
       PROVE  ProcsTyped'
  <2>1. Return(p)
    BY <1>17, Zenon DEF PostReply, SavePatch, QueueProcessing, Shred, Finish, MarkExpired, Crash
  <2> QED
    BY <1>1, <2>1, ReturnTyped
<1>18. ASSUME NEW f \in Files, DestroyAttachment(f) \/ PostAttachment(f) PROVE UNCHANGED procs
  BY <1>18 DEF DestroyAttachment, PostAttachment
<1>19. ASSUME NEW f \in Files, NEW m, AgentUploads(f, m) PROVE UNCHANGED procs
  BY <1>19 DEF AgentUploads
<1>20. ASSUME NEW m \in Messages, DeleteMessage(m) PROVE UNCHANGED procs
  BY <1>20 DEF DeleteMessage
<1>21. ASSUME NEW v \in Videos, DeleteRecording(v) PROVE UNCHANGED procs
  BY <1>21 DEF DeleteRecording
<1>22. DeleteTicket \/ Age \/ UNCHANGED vars => UNCHANGED procs
  BY DEF DeleteTicket, Age, vars, procs
<1> QED
  BY <1>2, <1>3, <1>4, <1>5, <1>6, <1>7, <1>8, <1>9, <1>12, <1>13, <1>14, <1>15, <1>16, <1>17,
     <1>18, <1>19, <1>20, <1>21, <1>22, Zenon DEF Next, Goes

(* Every step keeps the types.                                             *)
LEMMA TypedNext == Typed /\ [Next]_vars => Typed'
BY FilesNext, VideosNext, StorageNext, ProcsNext, Happens DEF Typed

(* Every variable keeps its type.                                          *)
THEOREM TypeCorrect == Spec => []TypeOK
<1>1. Typed => TypeOK
  BY DEF Typed, FilesTyped, VideosTyped, StorageTyped, ProcsTyped, Steps, TypeOK
<1> QED
  BY InitTyped, TypedNext, <1>1, PTL DEF Spec

(***************************************************************************)
(* What each process does                                                  *)
(***************************************************************************)

(* The steps of process p, and its standing still.                         *)
Acts(p) ==
  \/ \E F \in SUBSET Files : ChooseFiles(p, F)
  \/ \E f \in Files, m \in Messages \cup {None} : Patch(p, f, m)
  \/ \E kind \in {"file", "video"} : FindTicket(p, kind) \/ WidgetMessage(p, kind)
  \/ \E t \in tasks : Start(p, t)
  \/ \E v \in Videos : Sweep(p, v)
  \/ Erase(p) \/ Purge(p) \/ Crash(p) \/ Goes(p)
Stays(p) == pc'[p] = pc[p] /\ job'[p] = job[p]

(* A step changes where one process is, at most.                           *)
LEMMA ActsMove ==
  ASSUME NEW p \in Procs, Acts(p)
  PROVE  UNCHANGED procs \/ \E s, j : Goto(p, s, j)
<1>1. ASSUME NEW F \in SUBSET Files, ChooseFiles(p, F) PROVE \E s, j : Goto(p, s, j)
  BY <1>1, Zenon DEF ChooseFiles, Begin
<1>2. ASSUME NEW f, NEW m, Patch(p, f, m) PROVE \E s, j : Goto(p, s, j)
  BY <1>2, Zenon DEF Patch, Begin
<1>3. ASSUME NEW kind, FindTicket(p, kind) \/ WidgetMessage(p, kind)
      PROVE  \E s, j : Goto(p, s, j)
  BY <1>3, Zenon DEF FindTicket, WidgetMessage, Begin
<1>4. ASSUME NEW t, Start(p, t) PROVE UNCHANGED procs \/ \E s, j : Goto(p, s, j)
  BY <1>4, Zenon DEF Start
<1>5. ASSUME NEW v, Sweep(p, v) PROVE \E s, j : Goto(p, s, j)
  BY <1>5, Zenon DEF Sweep, Begin
<1>6. Erase(p) \/ Purge(p) => \E s, j : Goto(p, s, j)
  BY Zenon DEF Erase, Purge, Begin
<1>7. Crash(p) \/ Goes(p) => \E s, j : Goto(p, s, j)
  <2>1. \A v, e : StoreVideo(p, v, e) => \E s, j : Goto(p, s, j)
    BY Zenon DEF StoreVideo, ToQueue, Return
  <2> QED
    BY <2>1, Zenon
    DEF Crash, Goes, PostReply, SavePatch, SaveUpload, SaveAttachment, Record, QueueProcessing,
        Shred, Probe, Finish, DeleteFiles, MarkExpired, Return
<1> QED
  BY <1>1, <1>2, <1>3, <1>4, <1>5, <1>6, <1>7, Zenon DEF Acts

(* A process is where it was, unless the step is its own.                  *)
LEMMA Movers ==
  ASSUME Typed, [Next]_vars, NEW p \in Procs
  PROVE  Stays(p) \/ Acts(p)
<1>1. CASE UNCHANGED procs
  BY <1>1 DEF procs, Stays
<1>2. ASSUME NEW q \in Procs, Acts(q) PROVE Stays(p) \/ Acts(p)
  <2>1. CASE q = p
    BY <1>2, <2>1
  <2>2. ASSUME q # p, NEW s, NEW j, Goto(q, s, j) PROVE Stays(p)
    BY <2>2 DEF Goto, Stays, Typed, ProcsTyped
  <2> QED
    BY <1>1, <1>2, <2>1, <2>2, ActsMove, Zenon
<1>3. ASSUME NEW f \in Files, DestroyAttachment(f) \/ PostAttachment(f) PROVE UNCHANGED procs
  BY <1>3 DEF DestroyAttachment, PostAttachment
<1>4. ASSUME NEW f \in Files, NEW m, AgentUploads(f, m) PROVE UNCHANGED procs
  BY <1>4 DEF AgentUploads
<1>5. ASSUME NEW m \in Messages, DeleteMessage(m) PROVE UNCHANGED procs
  BY <1>5 DEF DeleteMessage
<1>6. ASSUME NEW v \in Videos, DeleteRecording(v) PROVE UNCHANGED procs
  BY <1>6 DEF DeleteRecording
<1>7. DeleteTicket \/ Age \/ UNCHANGED vars => UNCHANGED procs
  BY DEF DeleteTicket, Age, vars, procs
<1> QED
  BY <1>1, <1>2, <1>3, <1>4, <1>5, <1>6, <1>7, Zenon DEF Next, Acts

(* A process at rest begins something, and one that is not goes on.        *)
LEMMA ActsAt ==
  ASSUME NEW p \in Procs, Acts(p)
  PROVE  /\ pc[p] = "patch" => SavePatch(p)
         /\ pc[p] = "shred" => Shred(p)
         /\ pc[p] = "queue" => QueueProcessing(p)
         /\ pc[p] = "probe" => Probe(p) \/ Crash(p)
         /\ pc[p] = "finish" => Finish(p) \/ Crash(p)
<1>1. ASSUME NEW F \in SUBSET Files, ChooseFiles(p, F) PROVE pc[p] = "idle"
  BY <1>1 DEF ChooseFiles, Begin
<1>2. ASSUME NEW f, NEW m, Patch(p, f, m) PROVE pc[p] = "idle"
  BY <1>2 DEF Patch, Begin
<1>3. ASSUME NEW kind, FindTicket(p, kind) \/ WidgetMessage(p, kind) PROVE pc[p] = "idle"
  BY <1>3 DEF FindTicket, WidgetMessage, Begin
<1>4. ASSUME NEW t, Start(p, t) PROVE pc[p] = "idle"
  BY <1>4 DEF Start
<1>5. ASSUME NEW v, Sweep(p, v) PROVE pc[p] = "idle"
  BY <1>5 DEF Sweep, Begin
<1>6. Erase(p) \/ Purge(p) => pc[p] = "idle"
  BY DEF Erase, Purge, Begin
<1>7. Crash(p) => pc[p] \in {"probe", "finish"}
  BY DEF Crash
<1>8. /\ SavePatch(p) => pc[p] = "patch"
      /\ Shred(p) => pc[p] = "shred"
      /\ QueueProcessing(p) => pc[p] = "queue"
      /\ Probe(p) => pc[p] = "probe"
      /\ Finish(p) => pc[p] = "finish"
      /\ PostReply(p) => pc[p] = "post"
      /\ SaveUpload(p) => pc[p] = "upload"
      /\ SaveAttachment(p) => pc[p] = "attach"
      /\ Record(p) => pc[p] = "record"
      /\ DeleteFiles(p) => pc[p] = "delete"
      /\ MarkExpired(p) => pc[p] = "expire"
  BY DEF SavePatch, Shred, QueueProcessing, Probe, Finish, PostReply, SaveUpload,
         SaveAttachment, Record, DeleteFiles, MarkExpired
<1>9. CASE pc[p] = "idle"
  BY <1>9
<1>10. CASE pc[p] # "idle"
  <2>1. Crash(p) \/ Goes(p)
    BY <1>1, <1>2, <1>3, <1>4, <1>5, <1>6, <1>10, Zenon DEF Acts
  <2> QED
    BY <1>7, <1>8, <2>1 DEF Goes
<1> QED
  BY <1>9, <1>10

(* The objects being deleted stay so, or are no more, or are left astray.  *)
LEMMA HandKept ==
  ASSUME Typed, [Next]_vars, NEW o \in InHand
  PROVE  o \in InHand' \/ o \notin stored' \/ o \in strayed'
<1>1. PICK p \in Procs : pc[p] = "shred" /\ o \in job[p].objects
  BY DEF InHand
<1>2. CASE Stays(p)
  <2>1. pc'[p] = "shred" /\ o \in job'[p].objects
    BY <1>1, <1>2 DEF Stays
  <2> QED
    BY <2>1 DEF InHand
<1>3. CASE Shred(p)
  BY <1>1, <1>3 DEF Shred
<1> QED
  BY <1>1, <1>2, <1>3, Movers, ActsAt

(* What is astray stays so, and nothing but an erasure takes what was      *)
(* stored since the last.                                                  *)
LEMMA StrayKept ==
  ASSUME Typed, [Next]_vars
  PROVE  strayed \subseteq strayed' /\ (late \subseteq late' \/ \E p \in Procs : Erase(p))
<1> DEFINE Fine == strayed \subseteq strayed' /\ (late \subseteq late' \/ \E p \in Procs : Erase(p))
<1>1. UNCHANGED <<ticket, stored, late, strayed>> => Fine
  OBVIOUS
<1>2. ASSUME NEW f \in NewFiles, NEW by \in {"agent", "nobody"}, NEW m \in Messages \cup {None},
             NEW w \in BOOLEAN, StoreFile(f, by, m, w)
      PROVE  Fine
  BY <1>2, StoreFileIs DEF Typed
<1>3. ASSUME NEW p \in Procs, NEW v \in NewVideos, NEW e \in {"later", None}, StoreVideo(p, v, e)
      PROVE  Fine
  BY <1>3, StoreVideoIs DEF Typed
<1>4. ASSUME NEW p \in Procs, Shred(p) \/ Probe(p) \/ DeleteFiles(p) \/ Erase(p) PROVE Fine
  <2>1. strayed \subseteq strayed'
    BY <1>4 DEF Shred, Probe, DeleteFiles, Erase
  <2>2. UNCHANGED late \/ Erase(p)
    BY <1>4, Zenon DEF Shred, Probe, DeleteFiles, history
  <2> QED
    BY <2>1, <2>2
<1>5. ASSUME NEW F, LoseRows(F), UNCHANGED <<ticket, stored, late>> PROVE Fine
  BY <1>5 DEF LoseRows
<1>6. ASSUME NEW v \in Videos, DeleteRecording(v) PROVE Fine
  BY <1>6 DEF DeleteRecording, history
<1>7. DeleteTicket => Fine
  BY DEF DeleteTicket
<1> HIDE DEF Fine
<1>8. Fine
  BY <1>1, <1>2, <1>3, <1>4, <1>5, <1>6, <1>7, StorageMoves, Zenon DEF StorageSteps
<1> QED
  BY <1>8 DEF Fine

(***************************************************************************)
(* NoneForgotten                                                           *)
(***************************************************************************)

(* A recording under way, and what will end that.                          *)
UnderWay(v) == v \in Kept /\ video[v].status \in {"uploading", "processing"}
Minded(v) ==
  \/ \E t \in tasks : t[1] = v
  \/ \E p \in Procs : pc[p] \in {"queue", "probe", "finish"} /\ job[p].video = v

(* A recording gets under way when it is stored, or by its task.           *)
LEMMA GetsUnderWay ==
  ASSUME Typed, [Next]_vars, NEW v \in Videos, UnderWay(v)'
  PROVE  UnderWay(v) \/ Minded(v)'
<1> DEFINE Fine == UnderWay(v) \/ Minded(v)'
<1>1. video'[v] # None /\ video'[v].status \in {"uploading", "processing"}
  BY DEF UnderWay, Kept
<1>2. ASSUME video'[v] = video[v] PROVE Fine
  BY <1>1, <1>2 DEF UnderWay, Kept
<1>3. ASSUME NEW p \in Procs, NEW w \in Videos, NEW s \in {"queue", "probe"}, NEW j,
             j.video = v, Goto(p, s, j)
      PROVE  Fine
  <2>1. pc'[p] \in {"queue", "probe", "finish"} /\ job'[p].video = v
    BY <1>3 DEF Goto, Typed, ProcsTyped
  <2> QED
    BY <2>1 DEF Minded
<1>4. UnderWay(v) => Fine
  OBVIOUS
<1> HIDE DEF Fine
<1>5. ASSUME NEW p \in Procs, NEW w \in NewVideos, NEW e \in {"later", None}, StoreVideo(p, w, e)
      PROVE  Fine
  <2>1. PICK r \in Recordings : /\ video' = [video EXCEPT ![w] = r]
                                /\ \/ r.status = "uploading" /\ ToQueue(p, w)
                                   \/ r.status = "deleted"
    <3>1. VideosTyped
      BY DEF Typed
    <3> QED
      BY <1>5, <3>1, StoreVideoIs
  <2>2. CASE w # v
    BY <1>2, <2>1, <2>2 DEF Typed, VideosTyped
  <2>3. CASE w = v
    <3>1. video'[v] = r
      BY <2>1, <2>3 DEF Typed, VideosTyped
    <3>2. Goto(p, "queue", [NoJob EXCEPT !.video = v])
      BY <1>1, <2>1, <2>3, <3>1 DEF ToQueue
    <3>3. [NoJob EXCEPT !.video = v].video = v
      BY NewJobIs
    <3> QED
      BY <1>3, <3>2, <3>3
  <2> QED
    BY <2>2, <2>3
<1>6. ASSUME NEW w \in Videos, NEW s \in {"ready", "failed", "expired", "deleted", "processing"},
             video[w] \in Recordings, video' = [video EXCEPT ![w].status = s]
      PROVE  Fine \/ (w = v /\ s = "processing")
  <2>1. CASE w # v
    <3>1. video'[v] = video[v]
      BY <1>6, <2>1 DEF Typed, VideosTyped
    <3> QED
      BY <1>2, <3>1
  <2>2. CASE w = v
    <3>1. video'[v] = [video[w] EXCEPT !.status = s]
      BY <1>6, <2>2 DEF Typed, VideosTyped
    <3>2. [video[w] EXCEPT !.status = s].status = s
      BY <1>6, RecordingIs
    <3>3. video'[v].status = s
      BY <3>1, <3>2, Zenon
    <3> QED
      BY <1>1, <2>2, <3>3
  <2> QED
    BY <2>1, <2>2
<1>7. ASSUME NEW w \in Videos, DeleteRecording(w) PROVE Fine
  <2>1. video[w] \in Recordings /\ video' = [video EXCEPT ![w].status = "deleted"]
    BY <1>7 DEF DeleteRecording, Kept, Typed, VideosTyped
  <2> QED
    BY <1>6, <2>1
<1>8. UNCHANGED video => Fine
  BY <1>2
<1>9. ASSUME NEW p \in Procs, Finish(p) PROVE Fine
  <2>1. PICK w \in Videos :
          \/ UNCHANGED video
          \/ /\ video[w] \in Recordings
             /\ \E s \in {"ready", "failed"} : video' = [video EXCEPT ![w].status = s]
    BY <1>9, FinishIs, Zenon
  <2>2. ASSUME NEW s \in {"ready", "failed"}, video[w] \in Recordings,
               video' = [video EXCEPT ![w].status = s]
        PROVE  Fine
    BY <1>6, <2>2
  <2> QED
    BY <1>8, <2>1, <2>2
<1>10. ASSUME NEW p \in Procs, MarkExpired(p) PROVE Fine
  <2>1. \/ UNCHANGED video
        \/ job[p].video \in Kept /\ video' = [video EXCEPT ![job[p].video].status = "expired"]
    BY <1>10 DEF MarkExpired
  <2>2. job[p].video \in Kept => job[p].video \in Videos /\ video[job[p].video] \in Recordings
    BY DEF Kept, Typed, VideosTyped
  <2> QED
    BY <1>6, <1>8, <2>1, <2>2
<1>11. AllDeleted => Fine
  <2>1. ASSUME AllDeleted, v \in Kept PROVE FALSE
    <3>1. video'[v] = [video[v] EXCEPT !.status = "deleted"] /\ video[v] \in Recordings
      BY <2>1 DEF AllDeleted, Kept, Typed, VideosTyped
    <3> QED
      BY <1>1, <3>1, RecordingIs
  <2>2. AllDeleted /\ v \notin Kept => video'[v] = video[v]
    BY DEF AllDeleted
  <2> QED
    BY <1>2, <2>1, <2>2
<1>12. ASSUME NEW p \in Procs, Erase(p) PROVE AllDeleted
  BY <1>12, Zenon DEF Erase, AllDeleted
<1>13. DeleteTicket => AllDeleted
  BY Zenon DEF DeleteTicket, AllDeleted
<1>14. ASSUME NEW p \in Procs, NEW t \in tasks, Start(p, t) PROVE Fine
  <2>1. CASE t[1] \notin Kept
    BY <1>8, <1>14, <2>1 DEF Start
  <2>2. CASE t[1] \in Kept
    <3>1. /\ t[1] \in Videos /\ t[2] \in 0 .. MaxRetries /\ video[t[1]] \in Recordings
      BY <2>2 DEF Kept, Typed, VideosTyped
    <3>2. /\ video' = [video EXCEPT ![t[1]].status = "processing"]
          /\ Goto(p, "probe", [NoJob EXCEPT !.video = t[1], !.tries = t[2]])
      BY <1>14, <2>2, Zenon DEF Start
    <3>3. [NoJob EXCEPT !.video = t[1], !.tries = t[2]].video = t[1]
      BY <3>1, NewJobIs, Zenon
    <3> QED
      BY <1>3, <1>6, <3>1, <3>2, <3>3
  <2> QED
    BY <2>1, <2>2
<1>15. Age => Fine
  <2>1. CASE video[v] = None
    BY <1>2, <2>1 DEF Age
  <2>2. CASE video[v] # None
    <3>1. video[v] \in Recordings
      BY <2>2 DEF Typed, VideosTyped
    <3>2. ASSUME Age PROVE video'[v].status = video[v].status
      BY <3>1, <3>2, RecordingIs DEF Age
    <3> QED
      BY <1>1, <1>4, <2>2, <3>2 DEF UnderWay, Kept
  <2> QED
    BY <2>1, <2>2
<1>16. Fine
  BY <1>5, <1>7, <1>8, <1>9, <1>10, <1>11, <1>12, <1>13, <1>14, <1>15, VideoMoves, Zenon
  DEF VideoSteps
<1> QED
  BY <1>16 DEF Fine

(* What minds a recording does so until it has ended.                      *)
LEMMA MindedKept ==
  ASSUME Typed, [Next]_vars, NEW v \in Videos, UnderWay(v), UnderWay(v)', Minded(v),
         "crash" \notin happened', "unqueued" \notin happened'
  PROVE  Minded(v)'
<1>1. ASSUME NEW t \in tasks, t[1] = v PROVE Minded(v)'
  <2>1. CASE tasks \subseteq tasks'
    BY <1>1, <2>1 DEF Minded
  <2>2. ASSUME NEW q \in Procs, QueueProcessing(q) PROVE tasks \subseteq tasks'
    BY <2>2 DEF QueueProcessing
  <2>3. ASSUME NEW q \in Procs, Finish(q) PROVE tasks \subseteq tasks'
    BY <2>3 DEF Finish
  <2>4. ASSUME NEW q \in Procs, NEW u \in tasks, Start(q, u) PROVE Minded(v)'
    <3>1. CASE u # t
      <4>1. t \in tasks'
        BY <2>4, <3>1 DEF Start
      <4> QED
        BY <1>1, <4>1 DEF Minded
    <3>2. CASE u = t
      <4>1. t[1] \in Kept /\ t[1] \in Videos /\ t[2] \in 0 .. MaxRetries
        BY <1>1 DEF UnderWay, Typed, VideosTyped
      <4>2. Goto(q, "probe", [NoJob EXCEPT !.video = v, !.tries = t[2]])
        BY <1>1, <2>4, <3>2, <4>1, Zenon DEF Start
      <4>3. [NoJob EXCEPT !.video = v, !.tries = t[2]].video = v
        BY <4>1, NewJobIs, Zenon
      <4>4. pc'[q] = "probe" /\ job'[q].video = v
        BY <4>2, <4>3 DEF Goto, Typed, ProcsTyped
      <4> QED
        BY <4>4 DEF Minded
    <3> QED
      BY <3>1, <3>2
  <2> QED
    BY <2>1, <2>2, <2>3, <2>4, TaskMoves, Zenon
<1>2. ASSUME NEW p \in Procs, pc[p] \in {"queue", "probe", "finish"}, job[p].video = v
      PROVE  Minded(v)'
  <2>1. CASE Stays(p)
    <3>1. pc'[p] \in {"queue", "probe", "finish"} /\ job'[p].video = v
      BY <1>2, <2>1 DEF Stays
    <3> QED
      BY <3>1 DEF Minded
  <2>2. CASE QueueProcessing(p)
    <3>1. <<v, 0>> \in tasks'
      BY <1>2, <2>2 DEF QueueProcessing, Fault
    <3> QED
      BY <3>1 DEF Minded
  <2>3. CASE Probe(p)
    <3>1. PICK s \in {"ready", "failed"} : Goto(p, "finish", [job[p] EXCEPT !.result = s])
      BY <2>3, ProbeIs, Zenon
    <3>2. job[p] \in Jobs
      BY <2>3 DEF Probe, Typed, ProcsTyped, JobFor
    <3>3. [job[p] EXCEPT !.result = s].video = v
      BY <1>2, <3>2, JobWith
    <3>4. pc'[p] = "finish" /\ job'[p].video = v
      BY <3>1, <3>3 DEF Goto, Typed, ProcsTyped
    <3> QED
      BY <3>4 DEF Minded
  <2>4. CASE Finish(p)
    <3>1. v \in Kept /\ video[v] \in Recordings
      BY DEF UnderWay, Kept, Typed, VideosTyped
    <3>2. PICK s \in {"ready", "failed"} : video' = [video EXCEPT ![v].status = s]
      BY <1>2, <2>4, <3>1, FinishIs, Zenon
    <3>3. video'[v] = [video[v] EXCEPT !.status = s]
      BY <3>2 DEF Typed, VideosTyped
    <3>4. video'[v].status = s
      BY <3>1, <3>3, RecordingIs
    <3> QED
      BY <3>4 DEF UnderWay
  <2>5. ~Crash(p)
    BY DEF Crash, Fault
  <2> QED
    BY <1>2, <2>1, <2>2, <2>3, <2>4, <2>5, Movers, ActsAt
<1> QED
  BY <1>1, <1>2 DEF Minded

(* A recording neither ready nor failed is some task's to finish, but for  *)
(* lost tasks.                                                             *)
LEMMA ForgottenNext == Typed /\ NoneForgotten /\ [Next]_vars => NoneForgotten'
<1> SUFFICES ASSUME Typed, NoneForgotten, [Next]_vars,
                    Without({"crash", "unqueued"})', NEW v \in Videos, UnderWay(v)'
             PROVE  Minded(v)'
  BY Zenon DEF NoneForgotten, UnderWay, Minded, Kept
<1>1. happened \subseteq happened' /\ "crash" \notin happened' /\ "unqueued" \notin happened'
  BY Happens DEF Without, Typed
<1>2. UnderWay(v) => Minded(v)
  BY <1>1 DEF NoneForgotten, Without, UnderWay, Minded
<1> QED
  BY <1>1, <1>2, GetsUnderWay, MindedKept

(* A recording neither ready nor failed is some task's to finish, whoever  *)
(* sweeps it or erases it meanwhile, but for lost tasks: cleanup, deletion *)
(* and erasure in videos/tasks.py and contacts/gdpr.py forget none.        *)
THEOREM NoneForgottenCorrect == Spec => []NoneForgotten
<1>1. Init => NoneForgotten
  BY DEF Init, NoneForgotten, Kept
<1> QED
  BY InitTyped, TypedNext, ForgottenNext, <1>1, PTL DEF Spec

(***************************************************************************)
(* Who uploaded each file, and where its object is                         *)
(***************************************************************************)

(* A file is uploaded now.                                                 *)
Uploads(f) ==
  /\ UNCHANGED <<ticket, named>> /\ f \in NewFiles
  /\ \E by \in {"agent", "nobody"}, m \in Messages \cup {None}, w \in BOOLEAN :
       StoreFile(f, by, m, w)

(* Whose a file is changes, and its object is stored, when it is uploaded. *)
LEMMA FileNews ==
  ASSUME Typed, [Next]_vars, NEW f \in Files
  PROVE  \/ Uploads(f)
         \/ whose'[f] = whose[f] /\ (<<"file", f>> \in stored' => <<"file", f>> \in stored)
<1>1. Uploads(f) \/ whose'[f] = whose[f]
  <2> DEFINE Fine == Uploads(f) \/ whose'[f] = whose[f]
  <2>1. UNCHANGED <<att, named, whose>> => Fine
    OBVIOUS
  <2>2. ASSUME NEW g \in NewFiles, NEW by \in {"agent", "nobody"}, NEW m \in Messages \cup {None},
               NEW w \in BOOLEAN, UNCHANGED named, StoreFile(g, by, m, w)
        PROVE  whose'[f] = whose[f] \/ g = f
    BY <2>2, StoreFileIs DEF Typed, FilesTyped
  <2>3. ASSUME NEW p \in Procs, PostReply(p) \/ SavePatch(p) \/ Erase(p) \/ Purge(p) PROVE Fine
    BY <2>3 DEF PostReply, SavePatch, Erase, Purge, history
  <2>4. DeleteTicket \/ Age => Fine
    BY DEF DeleteTicket, Age, history
  <2>5. ASSUME NEW g \in NewFiles, NEW by \in {"agent", "nobody"}, NEW m \in Messages \cup {None},
               NEW w \in BOOLEAN, StoreFile(g, by, m, w)
        PROVE  stored' = stored \cup {<<"file", g>>} /\ g \in Files
    BY <2>5, StoreFileIs DEF Typed
  <2>6. ASSUME StorageSteps, UNCHANGED named, NEW g \in NewFiles, g = f,
               NEW by \in {"agent", "nobody"}, NEW m \in Messages \cup {None},
               NEW w \in BOOLEAN, StoreFile(g, by, m, w)
        PROVE  UNCHANGED ticket
    <3>1. ~DeleteTicket /\ \A p \in Procs : ~Erase(p)
      <4>1. whose' = [whose EXCEPT ![g] = IF by = "agent" THEN "agent" ELSE "requester"]
            /\ whose[g] = None
        BY <2>6 DEF StoreFile, NewFiles, NextOf
      <4>2. whose' # whose
        <5>1. whose'[g] \in {"agent", "requester"}
          BY <4>1 DEF NewFiles, NextOf, Typed, FilesTyped
        <5> QED
          BY <4>1, <5>1, NoneAssumption
      <4> QED
        BY <4>2 DEF DeleteTicket, Erase
    <3> QED
      BY <2>6, <3>1 DEF StorageSteps, Shred, Probe, DeleteFiles, DeleteRecording
  <2> QED
    BY <2>1, <2>2, <2>3, <2>4, <2>6, FileMoves, StorageMoves, Zenon DEF FileSteps, Uploads
<1>2. Uploads(f) \/ (<<"file", f>> \in stored' => <<"file", f>> \in stored)
  <2> DEFINE Fine == Uploads(f) \/ (<<"file", f>> \in stored' => <<"file", f>> \in stored)
  <2>1. UNCHANGED <<ticket, stored, late, strayed>> => Fine
    OBVIOUS
  <2>2. ASSUME NEW g \in NewFiles, NEW by \in {"agent", "nobody"}, NEW m \in Messages \cup {None},
               NEW w \in BOOLEAN, UNCHANGED <<ticket, named>>, StoreFile(g, by, m, w)
        PROVE  Fine
    <3>1. stored' = stored \cup {<<"file", g>>}
      BY <2>2, StoreFileIs DEF Typed
    <3>2. CASE g = f
      BY <2>2, <3>2, Zenon DEF Uploads
    <3>3. CASE g # f
      BY <3>1, <3>3
    <3> QED
      BY <3>2, <3>3
  <2>3. ASSUME NEW p \in Procs, NEW v \in NewVideos, NEW e \in {"later", None}, StoreVideo(p, v, e)
        PROVE  Fine
    BY <2>3, StoreVideoIs DEF Typed
  <2>4. ASSUME NEW p \in Procs, Shred(p) \/ Probe(p) \/ DeleteFiles(p) \/ Erase(p) PROVE Fine
    BY <2>4 DEF Shred, Probe, DeleteFiles, Erase
  <2>5. ASSUME NEW v \in Videos, DeleteRecording(v) PROVE Fine
    BY <2>5 DEF DeleteRecording
  <2>6. DeleteTicket => Fine
    BY DEF DeleteTicket
  <2>7. ASSUME UNCHANGED <<ticket, stored, late>> PROVE Fine
    BY <2>7
  <2> HIDE DEF Fine
  <2>8. Fine
    BY <2>1, <2>2, <2>3, <2>4, <2>5, <2>6, <2>7, StorageMoves, Zenon DEF StorageSteps
  <2> QED
    BY <2>8 DEF Fine
<1> QED
  BY <1>1, <1>2

(* Who uploaded a file, as its row tells it.                               *)
By(a) == IF a.by = "agent" THEN "agent" ELSE "requester"

(* A row says it right, and so does one being changed.                     *)
Uploaded ==
  /\ \A f \in Shown : whose[f] = By(att[f])
  /\ \A p \in Procs : pc[p] = "patch" => \A f \in job[p].files : whose[f] = By(job[p].row)

(* A change of f's row is saved: of the row as it was, or too late.        *)
Patches(f) ==
  \E p \in Procs : /\ pc[p] = "patch" /\ job[p].files = {f} /\ job[p].row \in Attachments
                   /\ att'[f].by = job[p].row.by
                   /\ UNCHANGED <<whose, stored>>
                   /\ att[f] = job[p].row \/ "late" \in happened'

(* A file's row was there, or is inserted with it, or by a late save.      *)
LEMMA ShownNews ==
  ASSUME Typed, [Next]_vars, NEW f \in Files, att'[f] # None
  PROVE  \/ f \in Shown /\ att'[f].by = att[f].by
         \/ Uploads(f) /\ whose'[f] = By(att'[f])
         \/ Patches(f)
<1> DEFINE Fine == \/ f \in Shown /\ att'[f].by = att[f].by
                   \/ Uploads(f) /\ whose'[f] = By(att'[f])
                   \/ Patches(f)
<1>1. ASSUME att'[f] = att[f] PROVE Fine
  BY <1>1 DEF Shown
<1>2. ASSUME UNCHANGED named, NEW g \in NewFiles, NEW by \in {"agent", "nobody"},
             NEW m \in Messages \cup {None}, NEW w \in BOOLEAN, StoreFile(g, by, m, w)
      PROVE  Fine
  <2>1. /\ g \in Files /\ whose' = [whose EXCEPT ![g] = IF by = "agent" THEN "agent" ELSE "requester"]
        /\ \/ UNCHANGED att
           \/ \E a \in Attachments : a.by = by /\ att' = [att EXCEPT ![g] = a]
    BY <1>2, StoreFileIs DEF Typed
  <2>2. CASE UNCHANGED att \/ g # f
    <3>1. att'[f] = att[f]
      BY <2>1, <2>2 DEF Typed, FilesTyped
    <3> QED
      BY <1>1, <3>1
  <2>3. ASSUME NEW a \in Attachments, a.by = by, att' = [att EXCEPT ![g] = a], g = f PROVE Fine
    <3>1. att'[f] = a /\ whose'[f] = By(a)
      BY <2>1, <2>3 DEF By, Typed, FilesTyped
    <3>2. CASE Uploads(f)
      BY <3>1, <3>2
    <3>3. CASE ~Uploads(f)
      <4>1. whose'[f] = whose[f] /\ whose[f] = None
        BY <2>3, <3>3, FileNews DEF NewFiles, NextOf
      <4> QED
        BY <3>1, <4>1, NoneAssumption DEF By
    <3> QED
      BY <3>2, <3>3
  <2> QED
    BY <2>1, <2>2, <2>3
<1>3. ASSUME NEW p \in Procs, PostReply(p) PROVE Fine
  <2>1. CASE UNCHANGED att
    BY <1>1, <2>1
  <2>2. ASSUME NEW m \in Messages, NEW F \in SUBSET Files, \A g \in F : Free(g),
               att' = [g \in Files |-> IF g \in F
                         THEN [att[g] EXCEPT !.msg = m, !.awaiting = FALSE] ELSE att[g]]
        PROVE  Fine
    <3>1. CASE f \in F
      <4>1. att[f] \in Attachments /\ f \in Shown
        BY <2>2, <3>1 DEF Free, Shown, Typed, FilesTyped
      <4>2. att'[f].by = att[f].by
        BY <2>2, <3>1, <4>1, PutOn
      <4> QED
        BY <4>1, <4>2
    <3>2. CASE f \notin F
      BY <1>1, <2>2, <3>2
    <3> QED
      BY <3>1, <3>2
  <2> HIDE DEF Fine
  <2> QED
    BY <1>3, <2>1, <2>2, PostReplyIs, Zenon
<1>4. ASSUME NEW p \in Procs, SavePatch(p) PROVE Fine
  <2>1. CASE UNCHANGED att
    BY <1>1, <2>1
  <2>2. UNCHANGED <<whose, stored>>
    BY <1>4, SavePatchIs
  <2>3. ASSUME NEW g \in Files, NEW a \in Attachments, pc[p] = "patch", job[p].files = {g},
               job[p].row \in Attachments, a.by = job[p].row.by, att' = [att EXCEPT ![g] = a],
               att[g] = job[p].row \/ "late" \in happened'
        PROVE  Fine
    <3>1. CASE g = f
      <4>1. att'[f] = a
        BY <2>3, <3>1 DEF Typed, FilesTyped
      <4>2. Patches(f)
        BY <2>2, <2>3, <3>1, <4>1 DEF Patches
      <4> QED
        BY <4>2
    <3>2. CASE g # f
      <4>1. att'[f] = att[f]
        BY <2>3, <3>2 DEF Typed, FilesTyped
      <4> QED
        BY <1>1, <4>1
    <3> QED
      BY <3>1, <3>2
  <2> HIDE DEF Fine
  <2> QED
    BY <1>4, <2>1, <2>3, SavePatchIs
<1>5. ASSUME NEW p \in Procs, Erase(p) \/ Purge(p) PROVE Fine
  <2>1. PICK F : att' = [g \in Files |-> IF g \in F THEN None ELSE att[g]]
    BY <1>5, Zenon DEF Erase, Purge
  <2>2. att'[f] = att[f]
    BY <2>1
  <2> QED
    BY <1>1, <2>2
<1>6. ASSUME NEW F \in SUBSET Files, LoseRows(F) PROVE Fine
  <2>1. att'[f] = att[f]
    BY <1>6 DEF LoseRows
  <2> QED
    BY <1>1, <2>1
<1>7. ~DeleteTicket
  BY DEF DeleteTicket
<1>8. ASSUME Age PROVE Fine
  <2>1. f \in Shown
    BY <1>8 DEF Age
  <2>2. att[f] \in Attachments /\ att'[f] = [att[f] EXCEPT !.old = TRUE]
    BY <1>8, <2>1 DEF Age, Shown, Typed, FilesTyped
  <2>3. att'[f].by = att[f].by
    BY <2>2, PutOn
  <2> QED
    BY <2>1, <2>3
<1> HIDE DEF Fine
<1>9. UNCHANGED att => Fine
  BY <1>1
<1>10. Fine
  BY <1>2, <1>3, <1>4, <1>5, <1>6, <1>7, <1>8, <1>9, FileMoves, Zenon DEF FileSteps
<1> QED
  BY <1>10 DEF Fine

(* A change begins with the row as it is.                                  *)
LEMMA PatchBegins ==
  ASSUME Typed, [Next]_vars, NEW p \in Procs, pc'[p] = "patch"
  PROVE  \/ Stays(p)
         \/ \E f \in Shown : /\ job'[p].files = {f} /\ job'[p].row = att[f]
                             /\ UNCHANGED <<att, whose>>
<1> SUFFICES ASSUME Acts(p)
             PROVE  \E f \in Shown : /\ job'[p].files = {f} /\ job'[p].row = att[f]
                                     /\ UNCHANGED <<att, whose>>
  BY Movers
<1> DEFINE Fine == \E f \in Shown : /\ job'[p].files = {f} /\ job'[p].row = att[f]
                                    /\ UNCHANGED <<att, whose>>
<1>1. ASSUME NEW s, NEW j, Goto(p, s, j) PROVE s = "patch"
  BY <1>1 DEF Goto, Typed, ProcsTyped
<1>2. ASSUME NEW f \in Files, NEW m \in Messages \cup {None}, Patch(p, f, m) PROVE Fine
  <2>1. f \in Shown /\ att[f] \in Attachments /\ UNCHANGED <<att, whose>>
    BY <1>2 DEF Patch, rows, history, Shown, Typed, FilesTyped
  <2>2. Goto(p, "patch", Loaded(f, att[f], m))
    BY <1>2, Zenon DEF Patch, Begin, Loaded
  <2>3. Loaded(f, att[f], m).files = {f} /\ Loaded(f, att[f], m).row = att[f]
    BY <2>1, LoadedIs
  <2>4. job'[p].files = {f} /\ job'[p].row = att[f]
    BY <2>2, <2>3 DEF Goto, Typed, ProcsTyped
  <2> QED
    BY <2>1, <2>4
<1>3. ASSUME NEW F, ChooseFiles(p, F) PROVE FALSE
  <2>1. Goto(p, "post", [NoJob EXCEPT !.files = F])
    BY <1>3 DEF ChooseFiles, Begin
  <2> QED
    BY <1>1, <2>1
<1>4. ASSUME NEW k, FindTicket(p, k) PROVE FALSE
  <2>1. Goto(p, "upload", [NoJob EXCEPT !.kind = k])
    BY <1>4 DEF FindTicket, Begin
  <2> QED
    BY <1>1, <2>1
<1>5. ASSUME NEW k, WidgetMessage(p, k) PROVE FALSE
  <2>1. \E j : Goto(p, "attach", j)
    BY <1>5, Zenon DEF WidgetMessage, Begin
  <2> QED
    BY <1>1, <2>1
<1>6. ASSUME NEW t \in tasks, Start(p, t) PROVE FALSE
  <2>1. pc[p] = "idle"
    BY <1>6 DEF Start
  <2>2. ~UNCHANGED procs
    BY <2>1 DEF procs
  <2>3. \E j : Goto(p, "probe", j)
    BY <1>6, <2>2, Zenon DEF Start
  <2> QED
    BY <1>1, <2>3
<1>7. ASSUME NEW v, Sweep(p, v) PROVE FALSE
  <2>1. Goto(p, "delete", [NoJob EXCEPT !.video = v])
    BY <1>7 DEF Sweep, Begin
  <2> QED
    BY <1>1, <2>1
<1>8. ASSUME Erase(p) \/ Purge(p) PROVE FALSE
  <2>1. \E j : Goto(p, "shred", j)
    BY <1>8, Zenon DEF Erase, Purge, Begin
  <2> QED
    BY <1>1, <2>1
<1>9. ~Return(p) /\ \A j : ~Goto(p, "finish", j) /\ ~Goto(p, "expire", j) /\ ~Goto(p, "record", j)
                           /\ ~Goto(p, "queue", j)
  BY <1>1 DEF Return
<1>10. ~Crash(p) /\ ~Goes(p)
  <2>1. \A v, e : ~StoreVideo(p, v, e)
    BY <1>9, Zenon DEF StoreVideo, ToQueue
  <2> QED
    BY <1>9, <2>1, Zenon
    DEF Crash, Goes, PostReply, SavePatch, SaveUpload, SaveAttachment, Record, QueueProcessing,
        Shred, Probe, Finish, DeleteFiles, MarkExpired
<1> HIDE DEF Fine
<1>11. Fine
  BY <1>2, <1>3, <1>4, <1>5, <1>6, <1>7, <1>8, <1>10, Zenon DEF Acts
<1> QED
  BY <1>11 DEF Fine

(* Rows keep saying who uploaded their files.                              *)
LEMMA UploadedNext == Typed /\ Uploaded /\ [Next]_vars => Uploaded'
<1> SUFFICES ASSUME Typed, Uploaded, [Next]_vars PROVE Uploaded'
  OBVIOUS
<1>1. ASSUME NEW f \in Files, whose[f] # None PROVE whose'[f] = whose[f]
  BY <1>1, FileNews DEF Uploads, NewFiles, NextOf
<1>2. \A a : By(a) # None
  BY NoneAssumption DEF By
<1>3. ASSUME NEW f \in Files, att'[f] # None PROVE whose'[f] = By(att'[f])
  <2>1. CASE f \in Shown /\ att'[f].by = att[f].by
    <3>1. whose[f] = By(att[f]) /\ By(att'[f]) = By(att[f])
      BY <2>1 DEF Uploaded, By
    <3> QED
      BY <1>1, <1>2, <3>1
  <2>2. CASE Patches(f)
    <3>1. PICK p \in Procs : /\ pc[p] = "patch" /\ f \in job[p].files
                             /\ att'[f].by = job[p].row.by /\ UNCHANGED whose
      BY <2>2 DEF Patches
    <3>2. whose[f] = By(job[p].row)
      BY <3>1 DEF Uploaded
    <3> QED
      BY <3>1, <3>2 DEF By
  <2> QED
    BY <1>3, <2>1, <2>2, ShownNews
<1>4. ASSUME NEW p \in Procs, pc'[p] = "patch", NEW f \in job'[p].files
      PROVE  whose'[f] = By(job'[p].row)
  <2>1. CASE Stays(p)
    <3>1. pc[p] = "patch" /\ f \in job[p].files /\ job'[p] = job[p]
      BY <1>4, <2>1 DEF Stays
    <3>2. f \in Files
      BY <3>1 DEF Typed, ProcsTyped, JobFor
    <3> QED
      BY <1>1, <1>2, <3>1, <3>2 DEF Uploaded
  <2>2. CASE ~Stays(p)
    <3>1. f \in Shown /\ job'[p].row = att[f] /\ UNCHANGED <<att, whose>>
      BY <1>4, <2>2, PatchBegins
    <3> QED
      BY <3>1 DEF Uploaded
  <2> QED
    BY <2>1, <2>2
<1> QED
  BY <1>3, <1>4 DEF Uploaded, Shown

(***************************************************************************)
(* ErasedIsGone                                                            *)
(***************************************************************************)

(* An object no row stands for: being deleted, or left so.                 *)
Astray(o) == o \in strayed \cup InHand

(* What is stored of the requester's has its row, or is astray; no row     *)
(* ever stands for a thumbnail.                                            *)
FilesFound ==
  \A f \in Files : whose[f] = "requester" /\ <<"file", f>> \in stored =>
    (f \in Shown /\ ByTheContact(f)) \/ Astray(<<"file", f>>)
OriginalsFound ==
  \A v \in Videos : <<"original", v>> \in stored => v \in Kept \/ Astray(<<"original", v>>)
ThumbnailsFound ==
  \A v \in Videos : <<"thumbnail", v>> \in stored => <<"thumbnail", v>> \in strayed
Accounted == FilesFound /\ OriginalsFound /\ ThumbnailsFound

(* An object astray stays so, or is no more.                               *)
LEMMA AstrayKept ==
  ASSUME Typed, [Next]_vars, NEW o, Astray(o), o \in stored'
  PROVE  Astray(o)'
BY HandKept, StrayKept DEF Astray

(* What erasing puts in hand: the contact's files, and the recordings.     *)
LEMMA EraseTakes ==
  ASSUME Typed, NEW p \in Procs, Erase(p)
  PROVE  /\ \A f \in Shown : ByTheContact(f) => <<"file", f>> \in InHand' /\ att'[f] = None
         /\ \A v \in Kept : <<"original", v>> \in InHand'
<1> DEFINE F == {f \in Shown : ByTheContact(f)}
           O == FileObjects(F) \cup Originals(Kept)
<1>1. Goto(p, "shred", [NoJob EXCEPT !.objects = O])
      /\ att' = [f \in Files |-> IF f \in F THEN None ELSE att[f]]
  BY Zenon DEF Erase, Begin
<1>2. [NoJob EXCEPT !.objects = O].objects = O
  BY DEF NoJob
<1> HIDE DEF O
<1>3. pc'[p] = "shred" /\ job'[p].objects = O
  BY <1>1, <1>2 DEF Goto, Typed, ProcsTyped
<1>4. O \subseteq InHand'
  BY <1>3 DEF InHand
<1> QED
  BY <1>1, <1>4 DEF O, FileObjects, Originals, Shown

(* The requester's files are found.                                        *)
LEMMA FilesFoundNext == Typed /\ Uploaded /\ FilesFound /\ [Next]_vars => FilesFound'
<1> SUFFICES ASSUME Typed, Uploaded, FilesFound, [Next]_vars, NEW f \in Files,
                    whose'[f] = "requester", <<"file", f>> \in stored'
             PROVE  (att'[f] # None /\ att'[f].by = "nobody") \/ Astray(<<"file", f>>)'
  BY DEF FilesFound, Shown, ByTheContact
<1> DEFINE o == <<"file", f>>
           Fine == (att'[f] # None /\ att'[f].by = "nobody") \/ Astray(o)'
<1>1. ASSUME Uploads(f) PROVE Fine
  <2>1. PICK by \in {"agent", "nobody"}, m \in Messages \cup {None}, w \in BOOLEAN :
          f \in NewFiles /\ StoreFile(f, by, m, w)
    BY <1>1 DEF Uploads
  <2>2. /\ whose' = [whose EXCEPT ![f] = IF by = "agent" THEN "agent" ELSE "requester"]
        /\ \/ strayed' = strayed \cup {o}
           \/ \E a \in Attachments : a.by = by /\ att' = [att EXCEPT ![f] = a]
    BY <2>1, StoreFileIs DEF Typed
  <2>3. by = "nobody"
    BY <2>2 DEF Typed, FilesTyped
  <2>4. CASE strayed' = strayed \cup {o}
    BY <2>4 DEF Astray
  <2>5. ASSUME NEW a \in Attachments, a.by = by, att' = [att EXCEPT ![f] = a] PROVE Fine
    BY <2>3, <2>5, NoneAssumption DEF Typed, FilesTyped
  <2> QED
    BY <2>2, <2>4, <2>5
<1>2. ASSUME ~Uploads(f) PROVE Fine
  <2>1. whose[f] = "requester" /\ o \in stored
    BY <1>2, FileNews
  <2>2. CASE Astray(o)
    BY <2>2, AstrayKept
  <2>3. CASE f \in Shown /\ ByTheContact(f)
    <3>1. CASE att'[f] # None
      <4>1. CASE att'[f].by = att[f].by
        BY <2>3, <3>1, <4>1 DEF ByTheContact
      <4>2. CASE Patches(f)
        <5>1. PICK p \in Procs : /\ pc[p] = "patch" /\ f \in job[p].files
                                 /\ job[p].row \in Attachments /\ att'[f].by = job[p].row.by
          BY <4>2 DEF Patches
        <5>2. By(job[p].row) = "requester"
          BY <2>1, <5>1 DEF Uploaded
        <5>3. job[p].row.by = "nobody"
          BY <5>1, <5>2 DEF By, Attachments
        <5> QED
          BY <3>1, <5>1, <5>3
      <4> QED
        BY <1>2, <3>1, <4>1, <4>2, ShownNews
    <3>2. CASE att'[f] = None
      <4>1. att[f] \in Attachments /\ att[f].by = "nobody" /\ att[f] # None
        BY <2>3 DEF Shown, ByTheContact, Typed, FilesTyped
      <4>2. ASSUME NEW p \in Procs, Erase(p) PROVE Fine
        BY <2>3, <4>2, EraseTakes DEF Astray
      <4>3. ASSUME NEW p \in Procs, Purge(p) PROVE Fine
        <5>1. ~Orphan(f)
          BY <4>1 DEF Orphan, Free
        <5>2. att'[f] = att[f]
          BY <4>3, <5>1 DEF Purge
        <5> QED
          BY <3>2, <4>1, <5>2
      <4>4. ASSUME NEW F \in SUBSET Files, LoseRows(F) PROVE Fine
        <5>1. f \in F
          BY <3>2, <4>1, <4>4 DEF LoseRows
        <5>2. o \in FileObjects(F \cap Shown) \cap stored
          BY <2>1, <2>3, <5>1 DEF FileObjects
        <5> QED
          BY <4>4, <5>2 DEF LoseRows, Astray
      <4>5. ASSUME DeleteTicket PROVE Fine
        <5>1. o \in FileObjects(Shown) \cap stored
          BY <2>1, <2>3 DEF FileObjects
        <5> QED
          BY <4>5, <5>1 DEF DeleteTicket, Astray
      <4>6. ASSUME Age PROVE FALSE
        <5>1. [att[f] EXCEPT !.old = TRUE] \in Attachments
          BY <4>1, PutOn
        <5>2. att'[f] = [att[f] EXCEPT !.old = TRUE]
          BY <2>3, <4>6 DEF Age
        <5> QED
          BY <3>2, <5>1, <5>2, NoneAssumption
      <4>7. ASSUME NEW p \in Procs, PostReply(p) PROVE FALSE
        <5>1. ~Free(f)
          BY <4>1 DEF Free
        <5>2. att'[f] = att[f]
          BY <4>7, <5>1, Zenon DEF PostReply, Typed, FilesTyped
        <5> QED
          BY <3>2, <4>1, <5>2
      <4>8. ASSUME NEW p \in Procs, SavePatch(p) PROVE FALSE
        <5>1. \/ UNCHANGED att
              \/ \E g \in Files, a \in Attachments : att' = [att EXCEPT ![g] = a]
          BY <4>8, SavePatchIs
        <5> QED
          BY <3>2, <4>1, <5>1, NoneAssumption DEF Typed, FilesTyped
      <4>9. ASSUME NEW g \in NewFiles, NEW by \in {"agent", "nobody"},
                   NEW m \in Messages \cup {None}, NEW w \in BOOLEAN, StoreFile(g, by, m, w)
            PROVE  FALSE
        <5>1. \/ UNCHANGED att
              \/ g \in Files /\ \E a \in Attachments : att' = [att EXCEPT ![g] = a]
          BY <4>9, StoreFileIs DEF Typed
        <5> QED
          BY <3>2, <4>1, <5>1, NoneAssumption DEF Typed, FilesTyped
      <4>10. ~UNCHANGED att
        BY <3>2, <4>1
      <4> HIDE DEF Fine
      <4> QED
        BY <4>2, <4>3, <4>4, <4>5, <4>6, <4>7, <4>8, <4>9, <4>10, FileMoves, Zenon
        DEF FileSteps
    <3> QED
      BY <3>1, <3>2
  <2> QED
    BY <2>1, <2>2, <2>3 DEF FilesFound
<1> QED
  BY <1>1, <1>2

(* A recording is uploaded now.                                            *)
VideoUploads(v) ==
  /\ UNCHANGED ticket /\ v \in NewVideos
  /\ \E p \in Procs, e \in {"later", None} : StoreVideo(p, v, e)

(* Its object is stored when it is uploaded.                               *)
LEMMA OriginalNews ==
  ASSUME Typed, [Next]_vars, NEW v \in Videos, <<"original", v>> \in stored'
  PROVE  VideoUploads(v) \/ <<"original", v>> \in stored
<1> DEFINE Fine == VideoUploads(v) \/ <<"original", v>> \in stored
<1>1. UNCHANGED stored => Fine
  OBVIOUS
<1>2. ASSUME NEW g \in NewFiles, NEW by \in {"agent", "nobody"}, NEW m \in Messages \cup {None},
             NEW w \in BOOLEAN, StoreFile(g, by, m, w)
      PROVE  Fine
  BY <1>2, StoreFileIs DEF Typed
<1>3. ASSUME NEW p \in Procs, NEW u \in NewVideos, NEW e \in {"later", None}, UNCHANGED ticket,
             StoreVideo(p, u, e)
      PROVE  Fine
  <2>1. stored' = stored \cup {<<"original", u>>}
    BY <1>3, StoreVideoIs DEF Typed
  <2>2. CASE u = v
    BY <1>3, <2>2, Zenon DEF VideoUploads
  <2>3. CASE u # v
    BY <2>1, <2>3
  <2> QED
    BY <2>2, <2>3
<1>4. ASSUME NEW p \in Procs, Shred(p) \/ Probe(p) \/ DeleteFiles(p) \/ Erase(p) PROVE Fine
  BY <1>4 DEF Shred, Probe, DeleteFiles, Erase
<1>5. ASSUME NEW u \in Videos, DeleteRecording(u) PROVE UNCHANGED stored
  BY <1>5 DEF DeleteRecording
<1>6. DeleteTicket => UNCHANGED stored
  BY DEF DeleteTicket
<1>7. UNCHANGED <<ticket, stored, late, strayed>> \/ UNCHANGED <<ticket, stored, late>>
        => UNCHANGED stored
  OBVIOUS
<1> HIDE DEF Fine
<1>8. Fine
  BY <1>1, <1>2, <1>3, <1>4, <1>5, <1>6, <1>7, StorageMoves, Zenon DEF StorageSteps
<1> QED
  BY <1>8 DEF Fine

(* A recording goes by its deletion, the ticket's, or an erasure.          *)
LEMMA KeptGoes ==
  ASSUME Typed, [Next]_vars, NEW v \in Kept
  PROVE  v \in Kept' \/ DeleteRecording(v) \/ DeleteTicket \/ \E p \in Procs : Erase(p)
<1> DEFINE Fine == v \in Kept' \/ DeleteRecording(v) \/ DeleteTicket \/ \E p \in Procs : Erase(p)
<1>1. v \in Videos /\ video[v] \in Recordings /\ video[v] # None /\ video[v].status # "deleted"
  BY DEF Kept, Typed, VideosTyped
<1>2. ASSUME video'[v] \in Recordings, video'[v].status # "deleted" PROVE Fine
  BY <1>1, <1>2, NoneAssumption DEF Kept
<1>3. ASSUME NEW w \in Videos, NEW s \in {"ready", "failed", "expired", "processing"},
             video[w] \in Recordings, video' = [video EXCEPT ![w].status = s]
      PROVE  Fine
  <2>1. CASE w # v
    <3>1. video'[v] = video[v]
      BY <1>1, <1>3, <2>1 DEF Typed, VideosTyped
    <3> QED
      BY <1>1, <1>2, <3>1
  <2>2. CASE w = v
    <3>1. video'[v] = [video[v] EXCEPT !.status = s]
      BY <1>3, <2>2 DEF Typed, VideosTyped
    <3>2. [video[v] EXCEPT !.status = s] \in Recordings
          /\ [video[v] EXCEPT !.status = s].status = s
      BY <1>1, <1>3 DEF Recordings
    <3>3. video'[v] \in Recordings /\ video'[v].status = s
      BY <3>1, <3>2, Zenon
    <3> QED
      BY <1>2, <3>3
  <2> QED
    BY <2>1, <2>2
<1>4. UNCHANGED video => Fine
  BY <1>1, <1>2
<1>5. ASSUME NEW p \in Procs, NEW w \in NewVideos, NEW e \in {"later", None}, StoreVideo(p, w, e)
      PROVE  Fine
  <2>1. video[w] = None /\ \E r \in Recordings : video' = [video EXCEPT ![w] = r]
    BY <1>5, StoreVideoIs DEF Typed
  <2>2. video'[v] = video[v]
    BY <1>1, <2>1 DEF Typed, VideosTyped
  <2> QED
    BY <1>1, <1>2, <2>2
<1>6. ASSUME NEW w \in Videos, DeleteRecording(w) PROVE Fine
  <2>1. CASE w = v
    BY <1>6, <2>1
  <2>2. CASE w # v
    <3>1. video'[v] = video[v]
      BY <1>1, <1>6, <2>2 DEF DeleteRecording, Typed, VideosTyped
    <3> QED
      BY <1>1, <1>2, <3>1
  <2> QED
    BY <2>1, <2>2
<1> HIDE DEF Fine
<1>7. ASSUME NEW p \in Procs, Finish(p) PROVE Fine
  <2>1. PICK w \in Videos :
          \/ UNCHANGED video
          \/ /\ video[w] \in Recordings
             /\ \E s \in {"ready", "failed"} : video' = [video EXCEPT ![w].status = s]
    BY <1>7, FinishIs, Zenon
  <2>2. ASSUME NEW s \in {"ready", "failed"}, video[w] \in Recordings,
               video' = [video EXCEPT ![w].status = s]
        PROVE  Fine
    BY <1>3, <2>2
  <2> QED
    BY <1>4, <2>1, <2>2
<1>8. ASSUME NEW p \in Procs, MarkExpired(p) PROVE Fine
  <2>1. \/ UNCHANGED video
        \/ job[p].video \in Kept /\ video' = [video EXCEPT ![job[p].video].status = "expired"]
    BY <1>8 DEF MarkExpired
  <2>2. job[p].video \in Kept => job[p].video \in Videos /\ video[job[p].video] \in Recordings
    BY DEF Kept, Typed, VideosTyped
  <2> QED
    BY <1>3, <1>4, <2>1, <2>2
<1>9. ASSUME NEW p \in Procs, NEW t \in tasks, Start(p, t) PROVE Fine
  <2>1. CASE t[1] \notin Kept
    BY <1>4, <1>9, <2>1 DEF Start
  <2>2. CASE t[1] \in Kept
    <3>1. t[1] \in Videos /\ video[t[1]] \in Recordings
      BY <2>2 DEF Kept, Typed, VideosTyped
    <3>2. video' = [video EXCEPT ![t[1]].status = "processing"]
      BY <1>9, <2>2, Zenon DEF Start
    <3> QED
      BY <1>3, <3>1, <3>2
  <2> QED
    BY <2>1, <2>2
<1>10. ASSUME Age PROVE Fine
  <2>1. video'[v] = video[v] \/ video'[v] = [video[v] EXCEPT !.expires = "past"]
    BY <1>1, <1>10 DEF Age
  <2>2. /\ [video[v] EXCEPT !.expires = "past"] \in Recordings
        /\ [video[v] EXCEPT !.expires = "past"].status = video[v].status
    BY <1>1 DEF Recordings
  <2>3. video'[v] \in Recordings /\ video'[v].status = video[v].status
    BY <1>1, <2>1, <2>2, Zenon
  <2> QED
    BY <1>1, <1>2, <2>3
<1>11. DeleteTicket \/ (\E p \in Procs : Erase(p)) => Fine
  BY DEF Fine
<1>12. Fine
  BY <1>4, <1>5, <1>6, <1>7, <1>8, <1>9, <1>10, <1>11, VideoMoves, Zenon DEF VideoSteps
<1> QED
  BY <1>12 DEF Fine

(* Originals are found.                                                    *)
LEMMA OriginalsFoundNext == Typed /\ OriginalsFound /\ [Next]_vars => OriginalsFound'
<1> SUFFICES ASSUME Typed, OriginalsFound, [Next]_vars, NEW v \in Videos,
                    <<"original", v>> \in stored'
             PROVE  v \in Kept' \/ Astray(<<"original", v>>)'
  BY DEF OriginalsFound
<1> DEFINE o == <<"original", v>>
<1>1. CASE VideoUploads(v)
  <2>1. PICK p \in Procs, e \in {"later", None} : v \in NewVideos /\ StoreVideo(p, v, e)
    BY <1>1 DEF VideoUploads
  <2>2. PICK r \in Recordings : /\ video' = [video EXCEPT ![v] = r]
                                /\ r.status = "uploading" \/ strayed' = strayed \cup {o}
    BY <2>1, StoreVideoIs DEF Typed
  <2>3. video'[v] = r /\ r # None
    BY <2>2, NoneAssumption DEF Typed, VideosTyped
  <2> QED
    BY <2>2, <2>3 DEF Kept, Astray
<1>2. CASE o \in stored /\ Astray(o)
  BY <1>2, AstrayKept
<1>3. CASE o \in stored /\ v \in Kept
  <2>1. ASSUME DeleteRecording(v) PROVE o \in strayed'
    BY <1>3, <2>1 DEF DeleteRecording, Originals
  <2>2. ASSUME DeleteTicket PROVE o \in strayed'
    BY <1>3, <2>2 DEF DeleteTicket, Originals
  <2>3. ASSUME NEW p \in Procs, Erase(p) PROVE o \in InHand'
    BY <1>3, <2>3, EraseTakes
  <2> QED
    BY <1>3, <2>1, <2>2, <2>3, KeptGoes DEF Astray
<1> QED
  BY <1>1, <1>2, <1>3, OriginalNews DEF OriginalsFound

(* Thumbnails are astray from the start.                                   *)
LEMMA ThumbnailsFoundNext == Typed /\ ThumbnailsFound /\ [Next]_vars => ThumbnailsFound'
<1> SUFFICES ASSUME Typed, ThumbnailsFound, [Next]_vars, NEW v \in Videos,
                    <<"thumbnail", v>> \in stored'
             PROVE  <<"thumbnail", v>> \in strayed'
  BY DEF ThumbnailsFound
<1> DEFINE o == <<"thumbnail", v>>
<1>1. o \in stored => o \in strayed'
  BY StrayKept DEF ThumbnailsFound
<1>2. UNCHANGED stored => o \in stored
  OBVIOUS
<1>3. ASSUME NEW g \in NewFiles, NEW by \in {"agent", "nobody"}, NEW m \in Messages \cup {None},
             NEW w \in BOOLEAN, StoreFile(g, by, m, w)
      PROVE  o \in stored
  BY <1>3, StoreFileIs DEF Typed
<1>4. ASSUME NEW p \in Procs, NEW u \in NewVideos, NEW e \in {"later", None}, StoreVideo(p, u, e)
      PROVE  o \in stored
  BY <1>4, StoreVideoIs DEF Typed
<1>5. ASSUME NEW p \in Procs, Shred(p) \/ DeleteFiles(p) \/ Erase(p) PROVE o \in stored
  BY <1>5 DEF Shred, DeleteFiles, Erase
<1>6. ASSUME NEW p \in Procs, Probe(p) PROVE o \in stored \/ o \in strayed'
  BY <1>6 DEF Probe
<1>7. ASSUME NEW u \in Videos, DeleteRecording(u) PROVE o \in stored
  BY <1>7 DEF DeleteRecording
<1>8. DeleteTicket => o \in stored
  BY DEF DeleteTicket
<1>9. UNCHANGED <<ticket, stored, late, strayed>> \/ UNCHANGED <<ticket, stored, late>>
        => UNCHANGED stored
  OBVIOUS
<1> HIDE DEF o
<1>10. o \in stored \/ o \in strayed'
  BY <1>2, <1>3, <1>4, <1>5, <1>6, <1>7, <1>8, <1>9, StorageMoves, Zenon DEF StorageSteps
<1> QED
  BY <1>1, <1>10 DEF o

(* What an erased contact uploaded is gone, but for what is in hand, late  *)
(* or astray.                                                              *)
LEMMA ErasedNext ==
  Typed /\ Uploaded /\ Accounted /\ ErasedIsGone /\ [Next]_vars => ErasedIsGone'
<1> SUFFICES ASSUME Typed, Uploaded, Accounted, ErasedIsGone, [Next]_vars, ticket' = "erased",
                    NEW o \in stored', o \in ContactsObjects'
             PROVE  o \in late' \/ Astray(o)'
  BY DEF ErasedIsGone, Astray
<1>1. Accounted'
  BY FilesFoundNext, OriginalsFoundNext, ThumbnailsFoundNext DEF Accounted
<1>2. \/ \E f \in Files : whose'[f] = "requester" /\ o = <<"file", f>>
      \/ \E v \in Videos : o = <<"original", v>> \/ o = <<"thumbnail", v>>
  BY DEF ContactsObjects, FileObjects
<1>3. ASSUME NEW p \in Procs, Erase(p) PROVE Astray(o)'
  <2>1. Kept' = {}
    <3>1. ASSUME NEW v \in Videos, video'[v] # None PROVE video'[v].status = "deleted"
      <4>1. video'[v] = IF v \in Kept THEN [video[v] EXCEPT !.status = "deleted"] ELSE video[v]
        BY <1>3 DEF Erase
      <4>2. CASE v \in Kept
        <5>1. video[v] \in Recordings
          BY <4>2 DEF Kept, Typed, VideosTyped
        <5> QED
          BY <4>1, <4>2, <5>1, RecordingIs
      <4>3. CASE v \notin Kept
        BY <3>1, <4>1, <4>3 DEF Kept
      <4> QED
        BY <4>2, <4>3
    <3> QED
      BY <3>1 DEF Kept
  <2>2. ASSUME NEW f \in Files, att'[f] # None PROVE att'[f].by # "nobody"
    BY <1>3, <2>2 DEF Erase, Shown, ByTheContact
  <2>3. CASE \E f \in Files : whose'[f] = "requester" /\ o = <<"file", f>>
    BY <1>1, <2>2, <2>3 DEF Accounted, FilesFound, Shown, ByTheContact
  <2>4. CASE \E v \in Videos : o = <<"original", v>>
    BY <1>1, <2>1, <2>4 DEF Accounted, OriginalsFound
  <2>5. CASE \E v \in Videos : o = <<"thumbnail", v>>
    BY <1>1, <2>5 DEF Accounted, ThumbnailsFound, Astray
  <2> QED
    BY <1>2, <2>3, <2>4, <2>5
<1>4. ASSUME \A p \in Procs : ~Erase(p) PROVE o \in late' \/ Astray(o)'
  <2>1. ticket = "erased"
    <3>1. UNCHANGED ticket \/ DeleteTicket \/ \E p \in Procs : Erase(p)
      <4>1. ASSUME NEW p \in Procs, Shred(p) \/ Probe(p) \/ DeleteFiles(p)
            PROVE  UNCHANGED ticket
        BY <4>1 DEF Shred, Probe, DeleteFiles
      <4>2. ASSUME NEW v \in Videos, DeleteRecording(v) PROVE UNCHANGED ticket
        BY <4>2 DEF DeleteRecording
      <4>3. ASSUME \/ UNCHANGED <<ticket, stored, late, strayed>> \/ UNCHANGED <<ticket, named>>
                   \/ UNCHANGED <<ticket, stored, late>>
            PROVE  UNCHANGED ticket
        BY <4>3
      <4> QED
        BY <4>1, <4>2, <4>3, StorageMoves, Zenon DEF StorageSteps
    <3>2. ~DeleteTicket
      BY DEF DeleteTicket
    <3> QED
      BY <1>4, <3>1, <3>2
  <2>2. ASSUME o \in stored, o \in ContactsObjects PROVE o \in late' \/ Astray(o)'
    <3>1. o \in late \/ Astray(o)
      BY <2>1, <2>2 DEF ErasedIsGone, Astray
    <3> QED
      BY <1>4, <3>1, AstrayKept, StrayKept
  <2>3. ASSUME NEW f \in Files, whose'[f] = "requester", o = <<"file", f>>
        PROVE  o \in late' \/ Astray(o)'
    <3>1. CASE Uploads(f)
      <4>1. PICK by \in {"agent", "nobody"}, m \in Messages \cup {None}, w \in BOOLEAN :
              f \in NewFiles /\ StoreFile(f, by, m, w)
        BY <3>1 DEF Uploads
      <4>2. \/ strayed' = strayed \cup {o}
            \/ late' = IF ticket = "erased" THEN late \cup {o} ELSE late
        BY <2>3, <4>1, StoreFileIs DEF Typed
      <4> QED
        BY <2>1, <4>2 DEF Astray
    <3>2. CASE ~Uploads(f)
      <4>1. whose[f] = "requester" /\ o \in stored
        BY <2>3, <3>2, FileNews
      <4> QED
        BY <2>2, <2>3, <4>1 DEF ContactsObjects, FileObjects
    <3> QED
      BY <3>1, <3>2
  <2>4. ASSUME NEW v \in Videos, o = <<"original", v>> PROVE o \in late' \/ Astray(o)'
    <3>1. CASE VideoUploads(v)
      <4>1. PICK p \in Procs, e \in {"later", None} : v \in NewVideos /\ StoreVideo(p, v, e)
        BY <3>1 DEF VideoUploads
      <4>2. \/ strayed' = strayed \cup {o}
            \/ late' = IF ticket = "erased" THEN late \cup {o} ELSE late
        BY <2>4, <4>1, StoreVideoIs DEF Typed
      <4> QED
        BY <2>1, <4>2 DEF Astray
    <3>2. CASE o \in stored
      BY <2>2, <2>4, <3>2 DEF ContactsObjects
    <3> QED
      BY <2>4, <3>1, <3>2, OriginalNews
  <2>5. ASSUME NEW v \in Videos, o = <<"thumbnail", v>> PROVE o \in late' \/ Astray(o)'
    BY <1>1, <2>5 DEF Accounted, ThumbnailsFound, Astray
  <2> QED
    BY <1>2, <2>3, <2>4, <2>5
<1> QED
  BY <1>3, <1>4

(* All this holds at first: nothing is stored.                             *)
LEMMA InitFound == Init => Uploaded /\ Accounted /\ ErasedIsGone
BY DEF Init, Uploaded, Accounted, FilesFound, OriginalsFound, ThumbnailsFound, ErasedIsGone, Shown

(* What an erased contact uploaded is gone from the storage once the       *)
(* erasure under way is over (contacts/gdpr.py), whatever uploads,         *)
(* processing, deletions and saves were under way: but for what came after *)
(* it, and objects whose row had gone without them.                        *)
THEOREM ErasedIsGoneCorrect == Spec => []ErasedIsGone
<1>1. Typed /\ Accounted /\ Uploaded /\ [Next]_vars => Accounted'
  BY FilesFoundNext, OriginalsFoundNext, ThumbnailsFoundNext DEF Accounted
<1> QED
  BY InitTyped, InitFound, TypedNext, UploadedNext, ErasedNext, <1>1, PTL DEF Spec

(***************************************************************************)
(* RepliesWhole                                                            *)
(***************************************************************************)

(* Objects deleted are those of rows gone for good, so that those of the   *)
(* rows there are stay; and the files of a reply are its author's, on it.  *)
ShownStored == \A f \in Shown : <<"file", f>> \in stored
GoneForGood ==
  \A p \in Procs : pc[p] = "shred" =>
    \A f \in Files : <<"file", f>> \in job[p].objects => f \notin Shown /\ whose[f] # None
OnTheirReply ==
  \A m \in Messages : \A f \in named[m] :
    f \in Shown /\ att[f].msg = m /\ att[f].by = "agent"
Linked == Without({"late"}) => ShownStored /\ GoneForGood /\ OnTheirReply

(* Unless a change was saved too late, rows come with their files only.    *)
LEMMA ShownComes ==
  ASSUME Typed, [Next]_vars, "late" \notin happened', NEW f \in Files, att'[f] # None
  PROVE  Uploads(f) \/ (f \in Shown /\ att'[f].by = att[f].by)
<1>1. ASSUME Patches(f) PROVE f \in Shown /\ att'[f].by = att[f].by
  BY <1>1, NoneAssumption DEF Patches, Shown
<1> QED
  BY <1>1, ShownNews

(* A file stays stored, until it is deleted with its row.                  *)
LEMMA FileStays ==
  ASSUME Typed, [Next]_vars, NEW f \in Files, <<"file", f>> \in stored
  PROVE  \/ <<"file", f>> \in stored'
         \/ \E p \in Procs : Shred(p) /\ <<"file", f>> \in job[p].objects
<1> DEFINE o == <<"file", f>>
           Fine == o \in stored' \/ \E p \in Procs : Shred(p) /\ o \in job[p].objects
<1>1. UNCHANGED stored => Fine
  OBVIOUS
<1>2. ASSUME NEW g \in NewFiles, NEW by \in {"agent", "nobody"}, NEW m \in Messages \cup {None},
             NEW w \in BOOLEAN, StoreFile(g, by, m, w)
      PROVE  Fine
  BY <1>2, StoreFileIs DEF Typed
<1>3. ASSUME NEW p \in Procs, NEW u \in NewVideos, NEW e \in {"later", None}, StoreVideo(p, u, e)
      PROVE  Fine
  BY <1>3, StoreVideoIs DEF Typed
<1>4. ASSUME NEW p \in Procs, Shred(p) PROVE Fine
  BY <1>4 DEF Shred
<1>5. ASSUME NEW p \in Procs, Probe(p) \/ DeleteFiles(p) \/ Erase(p) PROVE Fine
  BY <1>5 DEF Probe, DeleteFiles, Erase
<1>6. ASSUME NEW u \in Videos, DeleteRecording(u) PROVE UNCHANGED stored
  BY <1>6 DEF DeleteRecording
<1>7. DeleteTicket => UNCHANGED stored
  BY DEF DeleteTicket
<1>8. UNCHANGED <<ticket, stored, late, strayed>> \/ UNCHANGED <<ticket, stored, late>>
        => UNCHANGED stored
  OBVIOUS
<1> HIDE DEF Fine
<1>9. Fine
  BY <1>1, <1>2, <1>3, <1>4, <1>5, <1>6, <1>7, <1>8, StorageMoves, Zenon DEF StorageSteps
<1> QED
  BY <1>9 DEF Fine

(* Deleting objects begins with an erasure or a purge.                     *)
LEMMA ShredBegins ==
  ASSUME Typed, [Next]_vars, NEW p \in Procs, pc'[p] = "shred"
  PROVE  Stays(p) \/ Erase(p) \/ Purge(p)
<1> SUFFICES ASSUME Acts(p) PROVE Erase(p) \/ Purge(p)
  BY Movers
<1>1. ASSUME NEW s, NEW j, Goto(p, s, j) PROVE s = "shred"
  BY <1>1 DEF Goto, Typed, ProcsTyped
<1>2. ASSUME NEW f, NEW m, Patch(p, f, m) PROVE FALSE
  <2>1. \E j : Goto(p, "patch", j)
    BY <1>2, Zenon DEF Patch, Begin
  <2> QED
    BY <1>1, <2>1
<1>3. ASSUME NEW F, ChooseFiles(p, F) PROVE FALSE
  <2>1. \E j : Goto(p, "post", j)
    BY <1>3, Zenon DEF ChooseFiles, Begin
  <2> QED
    BY <1>1, <2>1
<1>4. ASSUME NEW k, FindTicket(p, k) PROVE FALSE
  <2>1. \E j : Goto(p, "upload", j)
    BY <1>4, Zenon DEF FindTicket, Begin
  <2> QED
    BY <1>1, <2>1
<1>5. ASSUME NEW k, WidgetMessage(p, k) PROVE FALSE
  <2>1. \E j : Goto(p, "attach", j)
    BY <1>5, Zenon DEF WidgetMessage, Begin
  <2> QED
    BY <1>1, <2>1
<1>6. ASSUME NEW t \in tasks, Start(p, t) PROVE FALSE
  <2>1. pc[p] = "idle"
    BY <1>6 DEF Start
  <2>2. ~UNCHANGED procs
    BY <2>1 DEF procs
  <2>3. \E j : Goto(p, "probe", j)
    BY <1>6, <2>2, Zenon DEF Start
  <2> QED
    BY <1>1, <2>3
<1>7. ASSUME NEW v, Sweep(p, v) PROVE FALSE
  <2>1. \E j : Goto(p, "delete", j)
    BY <1>7, Zenon DEF Sweep, Begin
  <2> QED
    BY <1>1, <2>1
<1>8. ~Return(p) /\ \A j : ~Goto(p, "finish", j) /\ ~Goto(p, "expire", j) /\ ~Goto(p, "record", j)
                           /\ ~Goto(p, "queue", j)
  BY <1>1 DEF Return
<1>9. ~Crash(p) /\ ~Goes(p)
  <2>1. \A v, e : ~StoreVideo(p, v, e)
    BY <1>8, Zenon DEF StoreVideo, ToQueue
  <2> QED
    BY <1>8, <2>1, Zenon
    DEF Crash, Goes, PostReply, SavePatch, SaveUpload, SaveAttachment, Record, QueueProcessing,
        Shred, Probe, Finish, DeleteFiles, MarkExpired
<1> QED
  BY <1>2, <1>3, <1>4, <1>5, <1>6, <1>7, <1>9, Zenon DEF Acts

(* The objects of the rows there are stay stored.                          *)
LEMMA StoredNext ==
  ASSUME Typed, [Next]_vars, "late" \notin happened', ShownStored, GoneForGood
  PROVE  ShownStored'
<1> SUFFICES ASSUME NEW f \in Files, att'[f] # None PROVE <<"file", f>> \in stored'
  BY DEF ShownStored, Shown
<1>1. CASE Uploads(f)
  BY <1>1 DEF Uploads, StoreFile
<1>2. CASE f \in Shown
  <2>1. <<"file", f>> \in stored
    BY <1>2 DEF ShownStored
  <2>2. ASSUME NEW p \in Procs, Shred(p), <<"file", f>> \in job[p].objects PROVE FALSE
    BY <1>2, <2>2 DEF GoneForGood, Shred
  <2> QED
    BY <2>1, <2>2, FileStays
<1> QED
  BY <1>1, <1>2, ShownComes

(* What is being deleted is gone for good.                                 *)
LEMMA GoneNext ==
  ASSUME Typed, [Next]_vars, "late" \notin happened', Uploaded, GoneForGood
  PROVE  GoneForGood'
<1> SUFFICES ASSUME NEW p \in Procs, pc'[p] = "shred", NEW f \in Files,
                    <<"file", f>> \in job'[p].objects
             PROVE  att'[f] = None /\ whose'[f] # None
  BY DEF GoneForGood, Shown
<1>1. CASE Stays(p)
  <2>1. f \notin Shown /\ whose[f] # None
    BY <1>1 DEF Stays, GoneForGood
  <2>2. ~Uploads(f)
    BY <2>1 DEF Uploads, NewFiles, NextOf
  <2> QED
    BY <2>1, <2>2, FileNews, ShownComes
<1>2. ASSUME NEW F \in SUBSET Shown, NEW O, Goto(p, "shred", [NoJob EXCEPT !.objects = O]),
             \A g \in Files : <<"file", g>> \in O => g \in F,
             att' = [g \in Files |-> IF g \in F THEN None ELSE att[g]], UNCHANGED whose
      PROVE  att'[f] = None /\ whose'[f] # None
  <2>1. job'[p] = [NoJob EXCEPT !.objects = O]
    BY <1>2 DEF Goto, Typed, ProcsTyped
  <2>2. job'[p].objects = O
    BY <2>1 DEF NoJob
  <2>3. f \in F
    BY <1>2, <2>2
  <2>4. whose[f] = By(att[f])
    BY <2>3 DEF Uploaded
  <2> QED
    BY <1>2, <2>3, <2>4, NoneAssumption DEF By
<1>3. CASE Erase(p)
  <2> DEFINE F == {g \in Shown : ByTheContact(g)}
             O == FileObjects(F) \cup Originals(Kept)
  <2>1. /\ Goto(p, "shred", [NoJob EXCEPT !.objects = O])
        /\ att' = [g \in Files |-> IF g \in F THEN None ELSE att[g]] /\ UNCHANGED whose
    BY <1>3, Zenon DEF Erase, Begin
  <2>2. \A g \in Files : <<"file", g>> \in O => g \in F
    BY DEF FileObjects, Originals
  <2>3. F \in SUBSET Shown
    OBVIOUS
  <2> HIDE DEF F, O
  <2> QED
    BY <1>2, <2>1, <2>2, <2>3
<1>4. CASE Purge(p)
  <2> DEFINE F == {g \in Files : Orphan(g)}
             O == FileObjects(F)
  <2>1. /\ Goto(p, "shred", [NoJob EXCEPT !.objects = O])
        /\ att' = [g \in Files |-> IF g \in F THEN None ELSE att[g]] /\ UNCHANGED whose
    BY <1>4, Zenon DEF Purge, Begin, history
  <2>2. \A g \in Files : <<"file", g>> \in O => g \in F
    BY DEF FileObjects
  <2>3. F \in SUBSET Shown
    BY DEF Orphan, Free
  <2> HIDE DEF F, O
  <2> QED
    BY <1>2, <2>1, <2>2, <2>3
<1> QED
  BY <1>1, <1>3, <1>4, ShredBegins

(* The files of a reply stay on it.                                        *)
LEMMA OnTheirReplyNext ==
  ASSUME Typed, [Next]_vars, "late" \notin happened', Uploaded, OnTheirReply
  PROVE  OnTheirReply'
<1> SUFFICES ASSUME NEW m \in Messages, NEW f \in named'[m]
             PROVE  f \in Files /\ att'[f] # None /\ att'[f].msg = m /\ att'[f].by = "agent"
  BY DEF OnTheirReply, Shown
<1> DEFINE Fine == f \in Files /\ att'[f] # None /\ att'[f].msg = m /\ att'[f].by = "agent"
<1>1. ASSUME f \in named[m]
      PROVE  /\ f \in Files /\ f \in Shown /\ att[f] \in Attachments /\ att[f] # None
             /\ att[f].msg = m /\ att[f].by = "agent" /\ m # None /\ whose[f] # None
  <2>1. f \in Shown /\ att[f].msg = m /\ att[f].by = "agent"
    BY <1>1 DEF OnTheirReply
  <2>2. whose[f] = By(att[f])
    BY <2>1 DEF Uploaded
  <2> QED
    BY <2>1, <2>2, NoneAssumption DEF By, Shown, Typed, FilesTyped
<1>2. ASSUME f \in named[m], att'[f] = att[f] PROVE Fine
  BY <1>1, <1>2
<1>3. ASSUME UNCHANGED <<att, named, whose>> PROVE Fine
  BY <1>2, <1>3
<1>4. ASSUME UNCHANGED named, NEW g \in NewFiles, NEW by \in {"agent", "nobody"},
             NEW n \in Messages \cup {None}, NEW w \in BOOLEAN, StoreFile(g, by, n, w)
      PROVE  Fine
  <2>1. g # f /\ f \in named[m]
    BY <1>1, <1>4 DEF NewFiles, NextOf
  <2>2. UNCHANGED att \/ \E a \in Attachments : att' = [att EXCEPT ![g] = a]
    BY <1>4, StoreFileIs DEF Typed
  <2>3. att'[f] = att[f]
    BY <1>1, <2>1, <2>2 DEF Typed, FilesTyped
  <2> QED
    BY <1>2, <2>1, <2>3
<1>5. ASSUME NEW p \in Procs, PostReply(p) PROVE Fine
  <2>1. CASE UNCHANGED <<att, named, msg>>
    BY <1>2, <2>1
  <2>2. ASSUME NEW n \in Messages, NEW F \in SUBSET Files, \A g \in F : Free(g),
               named' = [named EXCEPT ![n] = F],
               att' = [g \in Files |-> IF g \in F
                         THEN [att[g] EXCEPT !.msg = n, !.awaiting = FALSE] ELSE att[g]]
        PROVE  Fine
    <3>1. CASE m = n
      <4>1. f \in F
        BY <2>2, <3>1 DEF Typed, FilesTyped
      <4>2. att[f] \in Attachments /\ att[f].by = "agent"
        BY <2>2, <4>1 DEF Free, Shown, Typed, FilesTyped
      <4>3. att'[f] = [att[f] EXCEPT !.msg = n, !.awaiting = FALSE]
        BY <2>2, <4>1
      <4>4. n \in Messages \cup {None}
        OBVIOUS
      <4>5. /\ [att[f] EXCEPT !.msg = n, !.awaiting = FALSE] \in Attachments
            /\ [att[f] EXCEPT !.msg = n, !.awaiting = FALSE].msg = n
            /\ [att[f] EXCEPT !.msg = n, !.awaiting = FALSE].by = att[f].by
        BY <4>2, <4>4, PutOn, Zenon
      <4>6. att'[f] \in Attachments /\ att'[f].msg = n /\ att'[f].by = "agent"
        BY <4>2, <4>3, <4>5, Zenon
      <4> QED
        BY <3>1, <4>1, <4>6, NoneAssumption
    <3>2. CASE m # n
      <4>1. f \in named[m]
        BY <2>2, <3>2 DEF Typed, FilesTyped
      <4>2. f \notin F
        BY <1>1, <2>2, <4>1 DEF Free
      <4>3. att'[f] = att[f]
        BY <1>1, <2>2, <4>1, <4>2
      <4> QED
        BY <1>2, <4>1, <4>3
    <3> QED
      BY <3>1, <3>2
  <2> HIDE DEF Fine
  <2> QED
    BY <1>5, <2>1, <2>2, PostReplyIs
<1>6. ASSUME NEW p \in Procs, SavePatch(p) PROVE Fine
  <2>1. CASE UNCHANGED <<att, named>>
    BY <1>2, <2>1
  <2>2. ASSUME NEW g \in Files, NEW a \in Attachments, job[p].row \in Attachments,
               a.by = job[p].row.by, att' = [att EXCEPT ![g] = a],
               named' = [n \in Messages |-> IF n = a.msg THEN named[n] ELSE named[n] \ {g}],
               att[g] = job[p].row \/ "late" \in happened'
        PROVE  Fine
    <3>1. f \in named[m] /\ (f = g => m = a.msg)
      BY <2>2
    <3>2. CASE f = g
      <4>1. att'[f] = a /\ a # None
        BY <2>2, <3>2, NoneAssumption DEF Typed, FilesTyped
      <4> QED
        BY <1>1, <2>2, <3>1, <3>2, <4>1
    <3>3. CASE f # g
      <4>1. att'[f] = att[f]
        BY <1>1, <2>2, <3>1, <3>3 DEF Typed, FilesTyped
      <4> QED
        BY <1>2, <3>1, <4>1
    <3> QED
      BY <3>2, <3>3
  <2> HIDE DEF Fine
  <2> QED
    BY <1>6, <2>1, <2>2, SavePatchIs
<1>7. ASSUME NEW p \in Procs, Erase(p) PROVE Fine
  <2>1. f \in named[m]
    BY <1>7 DEF Erase
  <2>2. ~ByTheContact(f)
    BY <1>1, <2>1 DEF ByTheContact
  <2>3. att'[f] = att[f]
    BY <1>1, <1>7, <2>1, <2>2 DEF Erase
  <2> QED
    BY <1>2, <2>1, <2>3
<1>8. ASSUME NEW p \in Procs, Purge(p) PROVE Fine
  <2>1. f \in named[m]
    BY <1>8 DEF Purge, history
  <2>2. ~Orphan(f)
    BY <1>1, <2>1 DEF Orphan, Free
  <2>3. att'[f] = att[f]
    BY <1>1, <1>8, <2>1, <2>2 DEF Purge
  <2> QED
    BY <1>2, <2>1, <2>3
<1>9. ASSUME NEW F \in SUBSET Files, LoseRows(F) PROVE Fine
  <2>1. named'[m] = named[m] \ F /\ \A g \in Files : att'[g] = IF g \in F THEN None ELSE att[g]
    BY <1>9, LoseRowsIs DEF Typed
  <2> QED
    BY <1>1, <1>2, <2>1
<1>10. ~DeleteTicket
  BY DEF DeleteTicket
<1>11. ASSUME Age PROVE Fine
  <2>1. f \in named[m]
    BY <1>11 DEF Age, history
  <2>2. att'[f] = [att[f] EXCEPT !.old = TRUE]
    BY <1>1, <1>11, <2>1 DEF Age
  <2>3. att'[f] \in Attachments /\ att'[f].msg = att[f].msg /\ att'[f].by = att[f].by
    BY <1>1, <2>1, <2>2, PutOn
  <2> QED
    BY <1>1, <2>1, <2>3, NoneAssumption
<1> HIDE DEF Fine
<1>12. Fine
  BY <1>3, <1>4, <1>5, <1>6, <1>7, <1>8, <1>9, <1>10, <1>11, FileMoves, Zenon DEF FileSteps
<1> QED
  BY <1>12 DEF Fine

(* Every step keeps all this.                                              *)
LEMMA LinkedNext == Typed /\ Uploaded /\ Linked /\ [Next]_vars => Linked'
<1> SUFFICES ASSUME Typed, Uploaded, Linked, [Next]_vars, Without({"late"})'
             PROVE  ShownStored' /\ GoneForGood' /\ OnTheirReply'
  BY DEF Linked
<1>1. "late" \notin happened' /\ Without({"late"})
  BY Happens DEF Without, Typed
<1>2. ShownStored /\ GoneForGood /\ OnTheirReply
  BY <1>1 DEF Linked
<1> QED
  BY <1>1, <1>2, StoredNext, GoneNext, OnTheirReplyNext

(* A reply keeps the files it was posted with until someone removes them:  *)
(* neither the purge of unused uploads (tickets/tasks.py) nor an erasure   *)
(* (contacts/gdpr.py) takes one, row or object, unless a row was saved as  *)
(* it was before.                                                          *)
THEOREM RepliesWholeCorrect == Spec => []RepliesWhole
<1>1. Init => Linked
  BY DEF Init, Linked, ShownStored, GoneForGood, OnTheirReply, Shown
<1>2. Linked => RepliesWhole
  BY DEF Linked, ShownStored, OnTheirReply, RepliesWhole
<1> QED
  BY InitTyped, InitFound, TypedNext, UploadedNext, LinkedNext, <1>1, <1>2, PTL DEF Spec
=============================================================================
