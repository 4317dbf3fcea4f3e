----------------------------- MODULE InboundMail -----------------------------
(***************************************************************************)
(* Inbound mail, from the provider's webhook to a ticket message           *)
(* (backend/apps/email_channel: inbound.py, pipeline.py, tasks.py).        *)
(*                                                                         *)
(* A webhook request stores a mail as a row and queues a Celery task.      *)
(* Several workers run the tasks: each run reads the row in one database   *)
(* transaction (triage), stores the attachment files outside any, and      *)
(* writes the message in a second one. Both transactions take the row's    *)
(* lock with skip_locked, and nothing is held in between, so runs of the   *)
(* same row overlap there. Requests, workers and the broker fail; a        *)
(* periodic sweep, an admin's replay and Celery's retries queue a row      *)
(* again.                                                                  *)
(*                                                                         *)
(* Which ticket a mail joins, and what its text becomes, is left out. All  *)
(* mail is for one organization.                                           *)
(***************************************************************************)
EXTENDS Naturals, FiniteSets

CONSTANTS
  Rows,        \* ids of inbound rows: as many mails as the log may hold
  Mails,       \* Message-IDs
  Mailboxes,
  NoMailbox,   \* the mailbox column is NULL: no recipient, or a reply address
               \* of a ticket that has no mailbox
  Requests,    \* webhook requests that may run at once
  Workers,     \* Celery worker processes
  MaxRetries,  \* retries of process_inbound_email (5 in the code)
  Faults,      \* what may go wrong: a subset of FaultKinds
  MaxFaults,   \* how often, in all
  None

FaultKinds ==
  {"broker",      \* queuing fails, or the process dies before it
   "crash",       \* a worker is killed; its task was acknowledged, so is lost
   "storage",     \* the file storage fails a write or a deletion
   "commit",      \* a commit reports an error, whether or not it was done
   "redelivery"}  \* the provider sends again a mail already stored

ASSUME InboundAssumption ==
  /\ MaxRetries \in Nat
  /\ MaxFaults \in Nat
  /\ Faults \subseteq FaultKinds
  /\ NoMailbox \notin Mailboxes
  /\ None \notin Rows

VARIABLES
  status,      \* of each row; "free" before it is created, "gone" once deleted
  mail, box,   \* its Message-ID and mailbox
  raw,         \* the rows whose raw field names a file
  rawFiles,    \* the rows whose raw file is in storage
  unmoved,     \* the pending rows not updated for STALE_PENDING_AFTER
  messages,    \* how many messages each row became
  announced,   \* how many times a message of the row was announced
  files,       \* attachment files in storage, by the run that stored them
  attached,    \* the files that a message's attachments point to
  leaked,      \* history: the files a fault left behind
  queue,       \* the broker's tasks: a row, and the retries so far. A set: a
               \* copy of a task is queued once the other is taken
  reqPc, delivery, reqRow,  \* what each webhook request does
  pc, job, tries,           \* what each worker does
  faults       \* how many faults have happened

rowVars == <<status, mail, box, unmoved>>
rawVars == <<raw, rawFiles>>
messageVars == <<messages, announced, attached>>
fileVars == <<files, leaked>>
reqVars == <<reqPc, delivery, reqRow>>
workVars == <<pc, job, tries>>
vars == <<status, mail, box, unmoved, raw, rawFiles, messages, announced,
          attached, files, leaked, queue, reqPc, delivery, reqRow, pc, job,
          tries, faults>>

-----------------------------------------------------------------------------

Boxes == Mailboxes \cup {NoMailbox}
Processable == {"pending", "failed"}
Final == {"processed", "ignored", "rejected"}
Live == Processable \cup Final
Status == Live \cup {"free", "gone"}

Tasks == Rows \X (0 .. MaxRetries)

(* A mail as store() sees it: its Message-ID, the mailbox it resolves to,  *)
(* and whether it is refused at once, for want of a recipient or of an     *)
(* active organization.                                                    *)
Deliveries == [mail : Mails, box : Boxes, refused : BOOLEAN]

Steps == {"idle", "begin", "triage", "unreadable", "store", "relock", "write",
          "announce", "drop", "undo", "except", "retry"}

TypeOK ==
  /\ status \in [Rows -> Status]
  /\ mail \in [Rows -> Mails \cup {None}]
  /\ box \in [Rows -> Boxes]
  /\ raw \in SUBSET Rows
  /\ rawFiles \in SUBSET Rows
  /\ unmoved \in SUBSET Rows
  /\ messages \in [Rows -> Nat]
  /\ announced \in [Rows -> Nat]
  /\ files \in SUBSET (Rows \X Workers)
  /\ attached \in SUBSET (Rows \X Workers)
  /\ leaked \in SUBSET (Rows \X Workers)
  /\ queue \in SUBSET Tasks
  /\ reqPc \in [Requests -> {"idle", "insert", "queue"}]
  /\ delivery \in [Requests -> Deliveries \cup {None}]
  /\ reqRow \in [Requests -> Rows \cup {None}]
  /\ pc \in [Workers -> Steps]
  /\ job \in [Workers -> Rows \cup {None}]
  /\ tries \in [Workers -> 0 .. MaxRetries]
  /\ faults \in 0 .. MaxFaults

Init ==
  /\ status = [r \in Rows |-> "free"]
  /\ mail = [r \in Rows |-> None]
  /\ box = [r \in Rows |-> NoMailbox]
  /\ raw = {} /\ rawFiles = {} /\ unmoved = {}
  /\ messages = [r \in Rows |-> 0]
  /\ announced = [r \in Rows |-> 0]
  /\ files = {} /\ attached = {} /\ leaked = {}
  /\ queue = {}
  /\ reqPc = [q \in Requests |-> "idle"]
  /\ delivery = [q \in Requests |-> None]
  /\ reqRow = [q \in Requests |-> None]
  /\ pc = [w \in Workers |-> "idle"]
  /\ job = [w \in Workers |-> None]
  /\ tries = [w \in Workers |-> 0]
  /\ faults = 0

-----------------------------------------------------------------------------

Fault(kind) == kind \in Faults /\ faults < MaxFaults /\ faults' = faults + 1

(* A row saved with another status: updated_at moves with it.              *)
SetStatus(r, s) ==
  /\ status' = [status EXCEPT ![r] = s]
  /\ unmoved' = unmoved \ {r}
  /\ UNCHANGED <<mail, box>>

(* The workers inside a transaction hold their row's lock.                 *)
Holding == {"triage", "write"}
HeldByAnother(w) ==
  \E v \in Workers \ {w} : job[v] = job[w] /\ pc[v] \in Holding
Unheld(r) == \A w \in Workers : job[w] = r => pc[w] \notin Holding

(* A run stores its files under names of its own. A worker runs one task   *)
(* at a time, so its row and itself name them; its next run of the same    *)
(* row, after a failure, stands for new names.                             *)
File(w) == <<job[w], w>>

Enqueue(r) == queue' = queue \cup {<<r, 0>>}

(***************************************************************************)
(* Webhook requests: inbound.store                                         *)
(***************************************************************************)

(* The rows that make a delivery a duplicate. Without a mailbox, a         *)
(* rejected row does not, unless this one is refused as well.              *)
Same(d) ==
  {r \in Rows : /\ status[r] \in Live
                /\ mail[r] = d.mail /\ box[r] = d.box
                /\ d.box = NoMailbox /\ ~d.refused => status[r] # "rejected"}

(* Mutant of Taken: the constraints are missing.                           *)
NothingTaken(d) == FALSE

(* What the unique constraints of InboundEmail.Meta refuse: a second row   *)
(* of the mail for the mailbox, or a second one without a mailbox that is  *)
(* not rejected.                                                           *)
Taken(d) ==
  \E r \in Rows :
    /\ status[r] \in Live /\ mail[r] = d.mail /\ box[r] = d.box
    /\ d.box = NoMailbox => status[r] # "rejected" /\ ~d.refused

EndRequest(q) ==
  /\ reqPc' = [reqPc EXCEPT ![q] = "idle"]
  /\ delivery' = [delivery EXCEPT ![q] = None]
  /\ reqRow' = [reqRow EXCEPT ![q] = None]

(* A mail with no row yet: the request goes on to insert one. (A refused   *)
(* one past its hourly quota leaves nothing: no step.)                     *)
Receive(q) ==
  /\ reqPc[q] = "idle"
  /\ \E r \in Rows : status[r] = "free"
  /\ \E d \in Deliveries :
       /\ Same(d) = {}
       /\ delivery' = [delivery EXCEPT ![q] = d]
  /\ reqPc' = [reqPc EXCEPT ![q] = "insert"]
  /\ UNCHANGED <<rowVars, rawVars, messageVars, fileVars, queue, reqRow, workVars, faults>>

(* A delivery of a mail still pending queues it again, for the first       *)
(* queuing may have failed; of any other it does nothing.                  *)
Redeliver(r) ==
  /\ Fault("redelivery")
  /\ status[r] = "pending"
  /\ Enqueue(r)
  /\ UNCHANGED <<rowVars, rawVars, messageVars, fileVars, reqVars, workVars>>

(* Another delivery of the mail was stored meanwhile: nothing to do.       *)
InsertConflict(q) ==
  /\ reqPc[q] = "insert"
  /\ Taken(delivery[q])
  /\ EndRequest(q)
  /\ UNCHANGED <<rowVars, rawVars, messageVars, fileVars, queue, workVars, faults>>

Insert(q) ==
  LET d == delivery[q] IN
  /\ reqPc[q] = "insert"
  /\ ~Taken(d)
  /\ \E r \in Rows :
       /\ status[r] = "free"
       /\ status' = [status EXCEPT ![r] = IF d.refused THEN "rejected" ELSE "pending"]
       /\ mail' = [mail EXCEPT ![r] = d.mail]
       /\ box' = [box EXCEPT ![r] = d.box]
       /\ \/ /\ d.refused
             /\ EndRequest(q)
             /\ UNCHANGED rawVars
          \/ /\ ~d.refused
             /\ raw' = raw \cup {r}
             /\ rawFiles' = rawFiles \cup {r}
             /\ reqPc' = [reqPc EXCEPT ![q] = "queue"]
             /\ reqRow' = [reqRow EXCEPT ![q] = r]
             /\ UNCHANGED delivery
  /\ UNCHANGED <<unmoved, messageVars, fileVars, queue, workVars, faults>>

(* The transaction fails once the raw mail is stored: its file stays, and  *)
(* no row ever names it.                                                   *)
InsertFails(q) ==
  /\ reqPc[q] = "insert"
  /\ ~delivery[q].refused /\ ~Taken(delivery[q])
  /\ Fault("commit")
  /\ \E r \in Rows :
       /\ status[r] = "free"
       /\ status' = [status EXCEPT ![r] = "gone"]
       /\ rawFiles' = rawFiles \cup {r}
  /\ EndRequest(q)
  /\ UNCHANGED <<mail, box, unmoved, raw, messageVars, fileVars, queue, workVars>>

QueueAfterCommit(q) ==
  /\ reqPc[q] = "queue"
  /\ Enqueue(reqRow[q])
  /\ EndRequest(q)
  /\ UNCHANGED <<rowVars, rawVars, messageVars, fileVars, workVars, faults>>

(* The request ends before its mail is stored or queued.                   *)
RequestFails(q) ==
  /\ reqPc[q] # "idle"
  /\ Fault("broker")
  /\ EndRequest(q)
  /\ UNCHANGED <<rowVars, rawVars, messageVars, fileVars, queue, workVars>>

(***************************************************************************)
(* A worker's run of a task: pipeline.process                              *)
(***************************************************************************)

Goto(w, step) == pc' = [pc EXCEPT ![w] = step] /\ UNCHANGED <<job, tries>>

EndRun(w) ==
  /\ pc' = [pc EXCEPT ![w] = "idle"]
  /\ job' = [job EXCEPT ![w] = None]
  /\ tries' = [tries EXCEPT ![w] = 0]

(* Acknowledged as it is taken: the broker forgets it.                     *)
Take(w, t) ==
  /\ pc[w] = "idle"
  /\ t \in queue
  /\ queue' = queue \ {t}
  /\ pc' = [pc EXCEPT ![w] = "begin"]
  /\ job' = [job EXCEPT ![w] = t[1]]
  /\ tries' = [tries EXCEPT ![w] = t[2]]
  /\ UNCHANGED <<rowVars, rawVars, messageVars, fileVars, reqVars, faults>>

(* Mutant of Lockable: the row's status is not asked for.                  *)
LockableWhatever(w) == ~HeldByAnother(w)

(* _locked: the row is still to process, and no other run holds it.        *)
Lockable(w) == status[job[w]] \in Processable /\ ~HeldByAnother(w)

BeginTriage(w) ==
  /\ pc[w] = "begin"
  /\ IF Lockable(w) THEN Goto(w, "triage") ELSE EndRun(w)
  /\ UNCHANGED <<rowVars, rawVars, messageVars, fileVars, queue, reqVars, faults>>

(* _is_duplicate: the mail is already a message of the organization.       *)
IsDuplicate(r) == \E s \in Rows : messages[s] > 0 /\ mail[s] = mail[r]

Readable(r) == r \in raw /\ r \in rawFiles

(* No recipient anymore, an inactive organization, or a filter's verdict,  *)
(* a duplicate's among them: the row is finished, without a message.       *)
Settle(w) ==
  /\ pc[w] = "triage"
  /\ Readable(job[w])
  /\ \E verdict \in {"rejected", "ignored"} : SetStatus(job[w], verdict)
  /\ EndRun(w)
  /\ UNCHANGED <<rawVars, messageVars, fileVars, queue, reqVars, faults>>

Pass(w) ==
  /\ pc[w] = "triage"
  /\ Readable(job[w])
  /\ ~IsDuplicate(job[w])
  /\ Goto(w, "store")
  /\ UNCHANGED <<rowVars, rawVars, messageVars, fileVars, queue, reqVars, faults>>

(* Unprocessable: the raw mail is missing, or nested too deep to parse (in *)
(* triage) or to read (in _content, before any file is stored).            *)
Unreadable(w) ==
  /\ pc[w] \in {"triage", "store"}
  /\ Goto(w, "unreadable")
  /\ UNCHANGED <<rowVars, rawVars, messageVars, fileVars, queue, reqVars, faults>>

(* An update of the row waits for the run that holds it, and changes only  *)
(* a row still to process.                                                 *)
FailRow(w) ==
  /\ ~HeldByAnother(w)
  /\ \/ status[job[w]] \in Processable /\ SetStatus(job[w], "failed")
     \/ status[job[w]] \notin Processable /\ UNCHANGED rowVars

MarkUnprocessable(w) ==
  /\ pc[w] = "unreadable"
  /\ FailRow(w)
  /\ EndRun(w)
  /\ UNCHANGED <<rawVars, messageVars, fileVars, queue, reqVars, faults>>

StoreFiles(w) ==
  /\ pc[w] = "store"
  /\ files' = files \cup {File(w)}
  /\ Goto(w, "relock")
  /\ UNCHANGED <<rowVars, rawVars, messageVars, leaked, queue, reqVars, faults>>

(* A file fails to store after others did: those are deleted, and the run  *)
(* fails.                                                                  *)
StoreFails(w) ==
  /\ pc[w] = "store"
  /\ Fault("storage")
  /\ files' = files \cup {File(w)}
  /\ Goto(w, "undo")
  /\ UNCHANGED <<rowVars, rawVars, messageVars, leaked, queue, reqVars>>

(* Mutants of BeginWrite: the row is not read again; what was stored for a *)
(* row no longer to be had is forgotten.                                   *)
BeginWriteBlind(w) ==
  /\ pc[w] = "relock"
  /\ Goto(w, "write")
  /\ UNCHANGED <<rowVars, rawVars, messageVars, fileVars, queue, reqVars, faults>>

BeginWriteForgetting(w) ==
  /\ pc[w] = "relock"
  /\ IF Lockable(w) THEN Goto(w, "write") ELSE EndRun(w)
  /\ UNCHANGED <<rowVars, rawVars, messageVars, fileVars, queue, reqVars, faults>>

(* The second transaction: the row's lock again, and its status, but not   *)
(* the filters.                                                            *)
BeginWrite(w) ==
  /\ pc[w] = "relock"
  /\ Goto(w, IF Lockable(w) THEN "write" ELSE "drop")
  /\ UNCHANGED <<rowVars, rawVars, messageVars, fileVars, queue, reqVars, faults>>

(* The message, its attachments and the row's end, committed together.     *)
Land(w) ==
  /\ SetStatus(job[w], "processed")
  /\ messages' = [messages EXCEPT ![job[w]] = @ + 1]
  /\ attached' = attached \cup {File(w)}
  /\ UNCHANGED announced

Write(w) ==
  /\ pc[w] = "write"
  /\ Land(w)
  /\ Goto(w, "announce")
  /\ UNCHANGED <<rawVars, fileVars, queue, reqVars, faults>>

(* Mutant of CommitFails: announced before the commit, not after it.       *)
CommitFailsAnnounced(w) ==
  /\ pc[w] = "write"
  /\ Fault("commit")
  /\ leaked' = leaked \cup {File(w)}
  /\ announced' = [announced EXCEPT ![job[w]] = @ + 1]
  /\ Goto(w, "except")
  /\ UNCHANGED <<rowVars, rawVars, messages, attached, files, queue, reqVars>>

(* The commit fails: landed is already true, so the files stay.            *)
CommitFails(w) ==
  /\ pc[w] = "write"
  /\ Fault("commit")
  /\ leaked' = leaked \cup {File(w)}
  /\ Goto(w, "except")
  /\ UNCHANGED <<rowVars, rawVars, messageVars, files, queue, reqVars>>

(* Mutant of CommitUnanswered: landed set after the transaction's block.   *)
CommitUnansweredUndone(w) ==
  /\ pc[w] = "write"
  /\ Fault("commit")
  /\ Land(w)
  /\ Goto(w, "undo")
  /\ UNCHANGED <<rawVars, fileVars, queue, reqVars>>

(* The commit is done but its answer is lost: the run fails all the same,  *)
(* and nothing is announced.                                               *)
CommitUnanswered(w) ==
  /\ pc[w] = "write"
  /\ Fault("commit")
  /\ Land(w)
  /\ Goto(w, "except")
  /\ UNCHANGED <<rawVars, fileVars, queue, reqVars>>

(* What is not written is taken back: quietly when the row was not to be   *)
(* had ("drop"), before raising when something failed ("undo").            *)
AfterDeletion(w) == IF pc[w] = "drop" THEN EndRun(w) ELSE Goto(w, "except")

DeleteFiles(w) ==
  /\ pc[w] \in {"drop", "undo"}
  /\ files' = files \ {File(w)}
  /\ AfterDeletion(w)
  /\ UNCHANGED <<rowVars, rawVars, messageVars, leaked, queue, reqVars, faults>>

DeletionFails(w) ==
  /\ pc[w] \in {"drop", "undo"}
  /\ Fault("storage")
  /\ leaked' = leaked \cup {File(w)}
  /\ AfterDeletion(w)
  /\ UNCHANGED <<rowVars, rawVars, messageVars, files, queue, reqVars>>

(* An exception, of any kind, the time limit's among them: an open         *)
(* transaction rolls back, and files already stored are taken back, unless *)
(* the message is committed.                                               *)
Raise(w) ==
  /\ \/ pc[w] \in {"begin", "triage", "store", "announce"} /\ Goto(w, "except")
     \/ pc[w] \in {"relock", "write"} /\ Goto(w, "undo")
  /\ UNCHANGED <<rowVars, rawVars, messageVars, fileVars, queue, reqVars, faults>>

(* Events to agents and the widget, then the agents' email. Their failures *)
(* are swallowed.                                                          *)
Announce(w) ==
  /\ pc[w] = "announce"
  /\ announced' = [announced EXCEPT ![job[w]] = @ + 1]
  /\ EndRun(w)
  /\ UNCHANGED <<rowVars, rawVars, messages, attached, fileVars, queue, reqVars, faults>>

(***************************************************************************)
(* The Celery task around it: tasks.process_inbound_email                  *)
(***************************************************************************)

MarkFailed(w) ==
  /\ pc[w] = "except"
  /\ FailRow(w)
  /\ Goto(w, "retry")
  /\ UNCHANGED <<rawVars, messageVars, fileVars, queue, reqVars, faults>>

(* Mutant of Retry: no max_retries.                                        *)
RetryForever(w) ==
  /\ pc[w] = "retry"
  /\ queue' = queue \cup {<<job[w], tries[w] + 1>>}
  /\ EndRun(w)
  /\ UNCHANGED <<rowVars, rawVars, messageVars, fileVars, reqVars, faults>>

Retry(w) ==
  /\ pc[w] = "retry"
  /\ queue' = IF tries[w] < MaxRetries
              THEN queue \cup {<<job[w], tries[w] + 1>>} ELSE queue
  /\ EndRun(w)
  /\ UNCHANGED <<rowVars, rawVars, messageVars, fileVars, reqVars, faults>>

(* The worker dies, its hard time limit passes, or neither the database    *)
(* nor the broker takes the failure: the run ends where it is.             *)
Crash(w) ==
  /\ pc[w] # "idle"
  /\ Fault("crash")
  /\ leaked' = leaked \cup ({File(w)} \cap (files \ attached))
  /\ EndRun(w)
  /\ UNCHANGED <<rowVars, rawVars, messageVars, files, queue, reqVars>>

(***************************************************************************)
(* The other tasks, and the admins                                         *)
(***************************************************************************)

(* STALE_PENDING_AFTER passes without an update of a pending row.          *)
Age(r) ==
  /\ status[r] = "pending" /\ r \notin unmoved
  /\ unmoved' = unmoved \cup {r}
  /\ UNCHANGED <<status, mail, box, rawVars, messageVars, fileVars, queue,
                 reqVars, workVars, faults>>

(* requeue_stale_inbound, for one row: touched, then queued; queuing may   *)
(* fail once it is touched.                                                *)
Touch(r) ==
  /\ status[r] = "pending" /\ r \in unmoved /\ Unheld(r)
  /\ unmoved' = unmoved \ {r}
  /\ UNCHANGED <<status, mail, box>>

(* Mutant of RequeueStale: the row is touched, its task forgotten.         *)
TouchOnly(r) ==
  /\ Touch(r)
  /\ UNCHANGED <<rawVars, messageVars, fileVars, queue, reqVars, workVars, faults>>

RequeueStale(r) ==
  /\ Touch(r)
  /\ Enqueue(r)
  /\ UNCHANGED <<rawVars, messageVars, fileVars, reqVars, workVars, faults>>

RequeueFails(r) ==
  /\ Touch(r)
  /\ Fault("broker")
  /\ UNCHANGED <<rawVars, messageVars, fileVars, queue, reqVars, workVars>>

(* replay: a failed mail is pending again, then queued.                    *)
Replay(r) ==
  /\ status[r] = "failed" /\ Unheld(r)
  /\ SetStatus(r, "pending")
  /\ Enqueue(r)
  /\ UNCHANGED <<rawVars, messageVars, fileVars, reqVars, workVars, faults>>

ReplayUnqueued(r) ==
  /\ status[r] = "failed" /\ Unheld(r)
  /\ SetStatus(r, "pending")
  /\ Fault("broker")
  /\ UNCHANGED <<rawVars, messageVars, fileVars, queue, reqVars, workVars>>

(* The raw mail is deleted once its row no longer names it, unless the     *)
(* storage fails: that is only logged.                                     *)
DropRaw(r) ==
  /\ raw' = raw \ {r}
  /\ \/ rawFiles' = rawFiles \ ({r} \cap raw) /\ UNCHANGED faults
     \/ r \in raw /\ Fault("storage") /\ UNCHANGED rawFiles

(* Mutant of PurgeRaw: pending and failed rows too.                        *)
PurgeAnyRaw(r) ==
  /\ status[r] \in Live /\ r \in raw
  /\ DropRaw(r)
  /\ UNCHANGED <<rowVars, messageVars, fileVars, queue, reqVars, workVars>>

(* purge_inbound_raw empties an old row that is settled.                   *)
PurgeRaw(r) ==
  /\ status[r] \in Final /\ r \in raw
  /\ DropRaw(r)
  /\ UNCHANGED <<rowVars, messageVars, fileVars, queue, reqVars, workVars>>

(* The row is deleted: a settled one by the log's retention, any one with  *)
(* its mailbox or organization, or as an erased contact's.                 *)
Delete(r) ==
  /\ status[r] \in Live /\ Unheld(r)
  /\ SetStatus(r, "gone")
  /\ DropRaw(r)
  /\ UNCHANGED <<messageVars, fileVars, queue, reqVars, workVars>>

-----------------------------------------------------------------------------

RequestStep(q) == InsertConflict(q) \/ Insert(q) \/ QueueAfterCommit(q)

RunStep(w) ==
  \/ BeginTriage(w) \/ Settle(w) \/ Pass(w) \/ Unreadable(w) \/ MarkUnprocessable(w)
  \/ StoreFiles(w) \/ BeginWrite(w) \/ Write(w) \/ DeleteFiles(w) \/ Raise(w)
  \/ Announce(w) \/ MarkFailed(w) \/ Retry(w)

RunFault(w) ==
  StoreFails(w) \/ CommitFails(w) \/ CommitUnanswered(w) \/ DeletionFails(w) \/ Crash(w)

RowStep(r) ==
  \/ Redeliver(r) \/ RequeueStale(r) \/ RequeueFails(r)
  \/ Replay(r) \/ ReplayUnqueued(r) \/ PurgeRaw(r) \/ Delete(r)

Others ==
  \/ \E q \in Requests : Receive(q) \/ RequestStep(q) \/ InsertFails(q) \/ RequestFails(q)
  \/ \E w \in Workers : (\E t \in Tasks : Take(w, t)) \/ RunStep(w) \/ RunFault(w)
  \/ \E r \in Rows : RowStep(r)

Next == Others \/ \E r \in Rows : Age(r)

Spec == Init /\ [][Next]_vars

(* For liveness. Ten minutes outlast a run (time_limit is 150 s), so a row *)
(* grows stale when no run has it: without that, each sweep could start a  *)
(* run that meets the previous one's lock, for ever. Faults, MaxFaults of  *)
(* them, come to an end; the broker's list is a queue, so that a task it   *)
(* holds is taken in the end; workers, requests and beat go on.            *)
AgeQuietly(r) == (\A w \in Workers : job[w] # r) /\ Age(r)

CalmNext == Others \/ \E r \in Rows : AgeQuietly(r)

Fairness ==
  /\ \A q \in Requests : WF_vars(RequestStep(q))
  /\ \A w \in Workers : WF_vars(RunStep(w))
  /\ \A t \in Tasks : SF_vars(\E w \in Workers : Take(w, t))
  /\ \A r \in Rows : WF_vars(AgeQuietly(r)) /\ WF_vars(RequeueStale(r))

LiveSpec == Init /\ [][CalmNext]_vars /\ Fairness

-----------------------------------------------------------------------------

(* A row lands at most once, whatever runs overlap, fail or are repeated,  *)
(* and its message is there exactly while it says so (pipeline.process:    *)
(* "Safe to run again").                                                   *)
LandsOnce ==
  \A r \in Rows :
    /\ messages[r] <= 1
    /\ status[r] \in Live \cup {"free"} => (messages[r] = 1 <=> status[r] = "processed")

(* No run takes back the files of a message that landed, though a run that *)
(* lost the race, or whose commit went unanswered, cleans up after itself. *)
AttachmentsExist == attached \subseteq files

(* Pending and failed mails keep their content: it is all a retry or a     *)
(* replay has (tasks.purge_inbound_raw).                                   *)
WaitingIsKept == \A r \in Rows : status[r] \in Processable => Readable(r)

(* Deliveries of one mail, however they overlap, make one row for each     *)
(* mailbox, and one without a mailbox besides those rejected.              *)
OneRowPerMailbox ==
  \A r, s \in Rows :
    /\ r # s /\ status[r] \in Live /\ status[s] \in Live
    /\ mail[r] = mail[s] /\ box[r] = box[s]
    => box[r] = NoMailbox /\ "rejected" \in {status[r], status[s]}

(* Every attachment file belongs to a message, to a run still going, or    *)
(* was left by a fault: no order of runs and failures leaves one behind.   *)
InHand == {File(w) : w \in {v \in Workers : pc[v] \in {"relock", "write", "drop", "undo"}}}
FilesAccounted == files \subseteq attached \cup InHand \cup leaked

(* The storage holds the files of the messages that landed, all of them,   *)
(* and no others: what a run that failed deletes is its own, and all of it.*)
FilesRight == AttachmentsExist /\ FilesAccounted

(* Agents hear of a message once at most, and of none that rolled back.    *)
AnnouncedOnce == \A r \in Rows : announced[r] <= messages[r]

(* A settled row stays as it was settled until it is deleted: no late      *)
(* failure, sweep or replay reopens it.                                    *)
SettledStays ==
  [][\A r \in Rows : status[r] \in Final => status'[r] \in {status[r], "gone"}]_vars

(* The inductive invariant behind these: what a request and a run have in  *)
(* hand, the row's lock, and how far each run has gone.                    *)
InHandIsReal ==
  /\ \A w \in Workers : pc[w] # "idle" => job[w] \in Rows
  /\ \A q \in Requests : reqPc[q] = "insert" => delivery[q] \in Deliveries
  /\ \A q \in Requests : reqPc[q] = "queue" => reqRow[q] \in Rows

LockProtects ==
  \A w \in Workers : pc[w] \in Holding =>
    /\ status[job[w]] \in Processable
    /\ \A v \in Workers \ {w} : job[v] = job[w] => pc[v] \notin Holding

OwnFiles ==
  /\ \A r \in Rows, w \in Workers :
       <<r, w>> \in attached => status[r] \in {"processed", "gone"}
  /\ \A w \in Workers :
       /\ pc[w] \in {"triage", "unreadable", "store", "relock", "write", "drop", "undo"}
            => File(w) \notin attached
       /\ pc[w] \in {"relock", "write"} => File(w) \in files

Announcing ==
  \A w \in Workers : pc[w] = "announce" =>
    /\ messages[job[w]] = 1 /\ announced[job[w]] = 0
    /\ \A v \in Workers \ {w} : job[v] = job[w] => pc[v] # "announce"

FreeIsEmpty == \A r \in Rows : status[r] = "free" => r \notin raw

IInv ==
  /\ TypeOK /\ InHandIsReal
  /\ LockProtects /\ LandsOnce /\ WaitingIsKept /\ FreeIsEmpty
  /\ OwnFiles /\ AttachmentsExist /\ FilesAccounted
  /\ Announcing /\ AnnouncedOnce
  /\ OneRowPerMailbox

(* A pending mail does not stay pending: lost tasks, lost workers and a    *)
(* broker that was down delay it only (tasks.requeue_stale_inbound).       *)
PendingMovesOn == \A r \in Rows : status[r] = "pending" ~> status[r] # "pending"

(* One mail sent to a reply address and to the inbound address arrives as  *)
(* two rows: "it must land once" (filters._is_duplicate). It does not hold *)
(* when both rows pass triage before either is written.                    *)
MailLandsOnce ==
  \A r, s \in Rows :
    r # s /\ mail[r] = mail[s] /\ mail[r] # None => messages[r] + messages[s] <= 1

(* The log keeps the ledger's promise.                                     *)
StageOf(s) ==
  CASE s = "free" -> "none"
    [] s \in Processable -> "waiting"
    [] s = "processed" -> "landed"
    [] s \in {"ignored", "rejected"} -> "refused"
    [] s = "gone" -> "gone"

Ledger == INSTANCE MailLedger WITH
  stage <- [r \in Rows |-> StageOf(status[r])],
  kept <- raw \cap rawFiles,
  landings <- messages

KeepsLedger == Ledger!LedgerSpec

=============================================================================
