------------------------------ MODULE ReplyMail ------------------------------
(***************************************************************************)
(* The mail of agents' replies to one ticket's requester                   *)
(* (backend/apps/tickets/tasks.py, email_channel/outbound.py).             *)
(*                                                                         *)
(* An agent's reply is mailed at once, or later if the requester has the   *)
(* widget open and leaves it unread. A mail carries every reply still      *)
(* unread, up to its own, so a reply's task may stand down for a later     *)
(* one's. The tasks of a ticket exclude each other by a lock in the cache, *)
(* which expires, and which its holder deletes without asking whose it is. *)
(*                                                                         *)
(* Messages are numbered in the order of created_at. Internal notes and    *)
(* what a mail looks like are left out.                                    *)
(***************************************************************************)
EXTENDS Integers, FiniteSetsExt

CONSTANTS
  MaxMessages,  \* messages of the ticket, of either side
  Workers,      \* Celery worker processes
  MaxSmtp,      \* REPLY_MAIL_SMTP_MAX_RETRIES (3 in the code)
  MaxOutages,   \* REPLY_LOCK_OUTAGE_MAX_RETRIES (60 in the code)
  Faults,       \* what may happen, besides: a subset of FaultKinds
  MaxFaults,    \* how often, in all
  None

FaultKinds ==
  {"broker",      \* a reply is stored, but its task isn't queued
   "crash",       \* a worker is killed; its task was acknowledged, so is lost
   "smtp",        \* the mail server doesn't take a mail
   "unanswered",  \* it takes it, but the answer is lost
   "slow",        \* a mail is being sent for longer than the lock lasts
   "outage",      \* the cache can't be reached when the lock is taken or freed
   "deletion",    \* a message is deleted, by an agent or the widget's user
   "bounce",      \* a mail sent comes back
   "unsubscribe"} \* the contact unsubscribes, or has no address any more

Ids == 1 .. MaxMessages

ASSUME ReplyMailAssumption ==
  /\ MaxMessages \in Nat /\ MaxFaults \in Nat
  /\ MaxSmtp \in Nat /\ MaxOutages \in Nat
  /\ Faults \subseteq FaultKinds
  /\ None \notin Workers

VARIABLES
  kind,       \* of each message: "agent", or the user's "email" or "widget";
              \* "none" before it is written, "deleted" after
  status,     \* email_delivery_status of each message
  readUpto,   \* widget_last_read_at: the last message written by then
  mailable,   \* the requester has an address, and is not unsubscribed
  unqueued,   \* replies whose request has yet to queue their task
  tasks,      \* what the broker holds: also tasks waiting for their delay
  lock,       \* who took the reply lock, None when the cache has no key
  pc, task,   \* what each worker does, for which task
  readSeen,   \* widget_last_read_at as each worker loaded it
  carry,      \* the replies in the mail each worker sends
  mails,      \* history: how many mails carried each reply
  own,        \* history: the replies a mail of their own was sent for
  excused,    \* history: the replies of a mail sent, but not known to be, or
              \* that came back: the next mail carries them again
  faults      \* how many faults have happened

ticketVars == <<kind, status, readUpto, mailable>>
workVars == <<pc, task, readSeen, carry>>
history == <<mails, own, excused>>
vars == <<kind, status, readUpto, mailable, unqueued, tasks, lock, pc, task,
          readSeen, carry, mails, own, excused, faults>>

UserKinds == {"email", "widget"}
Kinds == {"none", "agent", "deleted"} \cup UserKinds

(* Not emailed yet, sent, or given up or bounced.                          *)
Statuses == {"", "sent", "failed"}

(* unread: the task of send_unread_reply_email; else of                    *)
(* send_ticket_reply_email. The counts are carried by its retries.         *)
Tasks == [msg : Ids, unread : BOOLEAN, smtp : 0 .. MaxSmtp, outages : 0 .. MaxOutages]

Steps == {"idle", "consider", "lock", "build", "send", "sent"}

TypeOK ==
  /\ kind \in [Ids -> Kinds]
  /\ status \in [Ids -> Statuses]
  /\ readUpto \in 0 .. MaxMessages
  /\ mailable \in BOOLEAN
  /\ unqueued \in SUBSET Ids
  /\ tasks \in SUBSET Tasks
  /\ lock \in Workers \cup {None}
  /\ pc \in [Workers -> Steps]
  /\ task \in [Workers -> Tasks \cup {None}]
  /\ readSeen \in [Workers -> 0 .. MaxMessages]
  /\ carry \in [Workers -> SUBSET Ids]
  /\ mails \in [Ids -> Nat]
  /\ own \in SUBSET Ids
  /\ excused \in SUBSET Ids
  /\ faults \in 0 .. MaxFaults

Init ==
  /\ kind = [m \in Ids |-> "none"]
  /\ status = [m \in Ids |-> ""]
  /\ readUpto = 0 /\ mailable = TRUE
  /\ unqueued = {} /\ tasks = {} /\ lock = None
  /\ pc = [w \in Workers |-> "idle"]
  /\ task = [w \in Workers |-> None]
  /\ readSeen = [w \in Workers |-> 0]
  /\ carry = [w \in Workers |-> {}]
  /\ mails = [m \in Ids |-> 0]
  /\ own = {} /\ excused = {}
  /\ faults = 0

-----------------------------------------------------------------------------

Fault(f) == f \in Faults /\ faults < MaxFaults /\ faults' = faults + 1

Last == Max({0} \cup {m \in Ids : kind[m] # "none"})

Written(k) == {m \in Ids : kind[m] = k}

(* unread_replies: the replies a mail of m carries, for who read up to r.  *)
(* Since the last of: that reading, what the user wrote, what was emailed. *)
Mark(m, r) ==
  Max({0, r} \cup {n \in 1 .. m - 1 : \/ kind[n] \in UserKinds
                                      \/ kind[n] # "deleted" /\ status[n] = "sent"})

UnreadReplies(m, r) ==
  {n \in 1 .. m - 1 : kind[n] = "agent" /\ n > Mark(m, r)} \cup {m}

(* carried_by_later_reply: the next reply's mail would carry m.            *)
Later(m) == {n \in Written("agent") : n > m}

(* Mutant of CarriedByLaterReply: any later reply will do.                 *)
CarriedByAny(m, r) == Later(m) # {}

CarriedByLaterReply(m, r) ==
  Later(m) # {} /\ m \in UnreadReplies(Min(Later(m)), r)

(***************************************************************************)
(* The ticket                                                              *)
(***************************************************************************)

Write(k) ==
  /\ Last < MaxMessages
  /\ kind' = [kind EXCEPT ![Last + 1] = k]

AgentReplies ==
  /\ Write("agent")
  /\ unqueued' = unqueued \cup {Last + 1}
  /\ UNCHANGED <<status, readUpto, mailable, tasks, lock, workVars, history, faults>>

UserWrites ==
  /\ \E k \in UserKinds : Write(k)
  /\ UNCHANGED <<status, readUpto, mailable, unqueued, tasks, lock, workVars, history, faults>>

(* The widget's or the conversation page's reader sees the whole ticket.   *)
Read ==
  /\ readUpto < Last
  /\ readUpto' = Last
  /\ UNCHANGED <<kind, status, mailable, unqueued, tasks, lock, workVars, history, faults>>

LastUserKind(m) ==
  LET theirs == {n \in 1 .. m : kind[n] \in UserKinds}
  IN IF theirs = {} THEN "none" ELSE kind[Max(theirs)]

NewTask(m, later) == [msg |-> m, unread |-> later, smtp |-> 0, outages |-> 0]

(* queue_reply_email: at once when the requester last wrote by email, or   *)
(* has no widget open; else after the delay. Whether a widget is open is   *)
(* not known here: a mark of a minute's.                                   *)
QueueReplyEmail(m) ==
  /\ m \in unqueued
  /\ unqueued' = unqueued \ {m}
  /\ \/ mailable /\ tasks' = tasks \cup {NewTask(m, FALSE)}
     \/ mailable /\ LastUserKind(m) # "email" /\ tasks' = tasks \cup {NewTask(m, TRUE)}
     \/ ~mailable /\ UNCHANGED tasks
  /\ UNCHANGED <<ticketVars, lock, workVars, history, faults>>

QueuingFails(m) ==
  /\ m \in unqueued
  /\ Fault("broker")
  /\ unqueued' = unqueued \ {m}
  /\ UNCHANGED <<ticketVars, tasks, lock, workVars, history>>

Delete(m) ==
  /\ kind[m] \notin {"none", "deleted"}
  /\ Fault("deletion")
  /\ kind' = [kind EXCEPT ![m] = "deleted"]
  /\ UNCHANGED <<status, readUpto, mailable, unqueued, tasks, lock, workVars, history>>

Unsubscribe ==
  /\ mailable
  /\ Fault("unsubscribe")
  /\ mailable' = FALSE
  /\ UNCHANGED <<kind, status, readUpto, unqueued, tasks, lock, workVars, history>>

(* _mark_bounced_messages: the report names the mail's own reply, and only *)
(* that one is marked, whatever others it carried.                         *)
Bounce(m) ==
  /\ m \in own /\ kind[m] = "agent"
  /\ Fault("bounce")
  /\ status' = [status EXCEPT ![m] = "failed"]
  /\ excused' = excused \cup {m}
  /\ UNCHANGED <<kind, readUpto, mailable, unqueued, tasks, lock, workVars, mails, own>>

(***************************************************************************)
(* The tasks                                                               *)
(***************************************************************************)

Msg(w) == task[w].msg

GoTo(w, step) == pc' = [pc EXCEPT ![w] = step] /\ UNCHANGED <<task, readSeen, carry>>

EndTask(w) ==
  /\ pc' = [pc EXCEPT ![w] = "idle"]
  /\ task' = [task EXCEPT ![w] = None]
  /\ readSeen' = [readSeen EXCEPT ![w] = 0]
  /\ carry' = [carry EXCEPT ![w] = {}]

(* Run again later, from its start, with its counts.                       *)
Retry(w, t) == tasks' = tasks \cup {t} /\ EndTask(w)

(* _load_message, and what is asked of the message and ticket loaded.      *)
ReadInWidget(m) == readUpto >= m

Unmailable(m) == kind[m] = "deleted" \/ ~mailable

(* The task of a reply left unread asks more than that sent at once.       *)
StandsDown(t) ==
  \/ Unmailable(t.msg)
  \/ t.unread /\ (status[t.msg] = "sent" \/ ReadInWidget(t.msg))

(* Delays, of the broker and of retries, let tasks run in any order.       *)
Load(w, t) ==
  /\ pc[w] = "idle"
  /\ t \in tasks
  /\ tasks' = tasks \ {t}
  /\ IF StandsDown(t)
     THEN UNCHANGED workVars
     ELSE /\ pc' = [pc EXCEPT ![w] = IF t.unread THEN "consider" ELSE "lock"]
          /\ task' = [task EXCEPT ![w] = t]
          /\ readSeen' = [readSeen EXCEPT ![w] = readUpto]
          /\ UNCHANGED carry
  /\ UNCHANGED <<ticketVars, unqueued, lock, history, faults>>

(* send_unread_reply_email's last question.                                *)
Consider(w) ==
  /\ pc[w] = "consider"
  /\ IF CarriedByLaterReply(Msg(w), readSeen[w])
     THEN EndTask(w)
     ELSE GoTo(w, "lock")
  /\ UNCHANGED <<ticketVars, unqueued, tasks, lock, history, faults>>

(* Mutant of TakeLock: no lock.                                            *)
TakeNoLock(w) ==
  /\ pc[w] = "lock"
  /\ GoTo(w, "build")
  /\ UNCHANGED <<ticketVars, unqueued, tasks, lock, history, faults>>

TakeLock(w) ==
  /\ pc[w] = "lock"
  /\ lock = None
  /\ lock' = w
  /\ GoTo(w, "build")
  /\ UNCHANGED <<ticketVars, unqueued, tasks, history, faults>>

(* Mutant of LockBusy: the task ends, as if the other's mail carried it.   *)
LockBusyGivesUp(w) ==
  /\ pc[w] = "lock"
  /\ lock # None
  /\ EndTask(w)
  /\ UNCHANGED <<ticketVars, unqueued, tasks, lock, history, faults>>

LockBusy(w) ==
  /\ pc[w] = "lock"
  /\ lock # None
  /\ Retry(w, task[w])
  /\ UNCHANGED <<ticketVars, unqueued, lock, history, faults>>

(* _mark_failed: unless another task sent it.                              *)
MarkFailed(m) ==
  status' = IF status[m] = "sent" \/ kind[m] = "deleted" THEN status
            ELSE [status EXCEPT ![m] = "failed"]

LockOutage(w) ==
  /\ pc[w] = "lock"
  /\ Fault("outage")
  /\ \/ /\ task[w].outages < MaxOutages
        /\ Retry(w, [task[w] EXCEPT !.outages = @ + 1])
        /\ UNCHANGED status
     \/ /\ task[w].outages >= MaxOutages
        /\ MarkFailed(Msg(w))
        /\ EndTask(w)
        /\ UNCHANGED tasks
  /\ UNCHANGED <<kind, readUpto, mailable, unqueued, lock, history>>

(* unlock_replies, in a finally: the key goes, whoever set it. A cache     *)
(* that can't be reached keeps it, and that is only logged.                *)
Unlock == lock' = None \/ ("outage" \in Faults /\ UNCHANGED lock)

(* Under the lock: sent meanwhile, or deleted, which raises, the task ends.*)
Build(w) ==
  /\ pc[w] = "build"
  /\ \/ /\ status[Msg(w)] = "sent" \/ kind[Msg(w)] = "deleted"
        /\ EndTask(w)
        /\ Unlock
     \/ /\ status[Msg(w)] # "sent" /\ kind[Msg(w)] # "deleted"
        /\ carry' = [carry EXCEPT ![w] = UnreadReplies(Msg(w), readSeen[w])]
        /\ pc' = [pc EXCEPT ![w] = "send"]
        /\ UNCHANGED <<task, readSeen, lock>>
  /\ UNCHANGED <<ticketVars, unqueued, tasks, history, faults>>

Delivered(w) ==
  /\ mails' = [m \in Ids |-> IF m \in carry[w] THEN mails[m] + 1 ELSE mails[m]]
  /\ own' = own \cup {Msg(w)}

Send(w) ==
  /\ pc[w] = "send"
  /\ Delivered(w)
  /\ GoTo(w, "sent")
  /\ UNCHANGED <<ticketVars, unqueued, tasks, lock, excused, faults>>

(* Mutant of TryAgain: without a limit.                                    *)
TryForever(w) == Retry(w, [task[w] EXCEPT !.smtp = @ + 1]) /\ UNCHANGED status

(* What follows a failure: again, up to MaxSmtp times, then given up.      *)
TryAgain(w) ==
  \/ /\ task[w].smtp < MaxSmtp
     /\ Retry(w, [task[w] EXCEPT !.smtp = @ + 1])
     /\ UNCHANGED status
  \/ /\ task[w].smtp >= MaxSmtp
     /\ MarkFailed(Msg(w))
     /\ EndTask(w)
     /\ UNCHANGED tasks

SendFails(w) ==
  /\ pc[w] = "send"
  /\ Fault("smtp")
  /\ TryAgain(w)
  /\ Unlock
  /\ UNCHANGED <<kind, readUpto, mailable, unqueued, history>>

SendUnanswered(w) ==
  /\ pc[w] = "send"
  /\ Fault("unanswered")
  /\ Delivered(w)
  /\ excused' = excused \cup carry[w]
  /\ TryAgain(w)
  /\ Unlock
  /\ UNCHANGED <<kind, readUpto, mailable, unqueued>>

(* All the replies the mail carried, then the lock.                        *)
MarkSent(w) ==
  /\ pc[w] = "sent"
  /\ status' = [m \in Ids |-> IF m \in carry[w] /\ kind[m] # "deleted"
                              THEN "sent" ELSE status[m]]
  /\ EndTask(w)
  /\ Unlock
  /\ UNCHANGED <<kind, readUpto, mailable, unqueued, tasks, history, faults>>

Crash(w) ==
  /\ pc[w] # "idle"
  /\ Fault("crash")
  /\ excused' = IF pc[w] = "sent" THEN excused \cup carry[w] ELSE excused
  /\ EndTask(w)
  /\ UNCHANGED <<ticketVars, unqueued, tasks, lock, mails, own>>

(* REPLY_LOCK_SECONDS pass: of a holder that is gone, or is too slow.      *)
Expire ==
  /\ lock # None
  /\ \/ pc[lock] \notin {"build", "send", "sent"} /\ UNCHANGED faults
     \/ pc[lock] \in {"build", "send", "sent"} /\ Fault("slow")
  /\ lock' = None
  /\ UNCHANGED <<ticketVars, unqueued, tasks, workVars, history>>

-----------------------------------------------------------------------------

TaskStep(w) ==
  \/ Consider(w) \/ TakeLock(w) \/ LockBusy(w) \/ Build(w) \/ Send(w) \/ MarkSent(w)

TaskFault(w) == LockOutage(w) \/ SendFails(w) \/ SendUnanswered(w) \/ Crash(w)

LoadSome(w) == \E t \in Tasks : Load(w, t)

Next ==
  \/ AgentReplies \/ UserWrites \/ Read \/ Unsubscribe \/ Expire
  \/ \E m \in Ids : QueueReplyEmail(m) \/ QueuingFails(m) \/ Delete(m) \/ Bounce(m)
  \/ \E w \in Workers : LoadSome(w) \/ TaskStep(w) \/ TaskFault(w)

Spec == Init /\ [][Next]_vars

(* Requests queue what they stored; workers go on, and take tasks; a lock  *)
(* left behind expires.                                                    *)
Fairness ==
  /\ \A m \in Ids : WF_vars(QueueReplyEmail(m))
  /\ \A w \in Workers : WF_vars(LoadSome(w)) /\ WF_vars(TaskStep(w))
  /\ WF_vars(Expire)

LiveSpec == Spec /\ Fairness

-----------------------------------------------------------------------------

(* "Two close replies don't both carry the same unread ones"               *)
(* (_email_requester): each reply is in one mail at most, but for what a   *)
(* crash or a lost answer kept from being recorded, and what bounced.      *)
MailedOnce == \A m \in Ids \ excused : mails[m] <= 1

(* A reply neither read, emailed nor known to have failed.                 *)
Owed(m) == kind[m] = "agent" /\ status[m] = "" /\ readUpto < m /\ mailable

(* The replies whose task is still to send a mail.                         *)
Waiting ==
  unqueued \cup {t.msg : t \in tasks}
  \cup {Msg(w) : w \in {v \in Workers : pc[v] \in {"consider", "lock", "build"}}}

(* m is in a mail being sent, or in that of a task still to send it.       *)
HasCarrier(m) ==
  \/ \E n \in Waiting : /\ n >= m /\ kind[n] = "agent" /\ status[n] # "sent"
                        /\ m \in UnreadReplies(n, readUpto)
  \/ \E w \in Workers : pc[w] \in {"send", "sent"} /\ m \in carry[w]

(* While the mail server comes back within the retries, no reply is        *)
(* forgotten: tasks that stand down for one another never all do.          *)
Covered == \A m \in Ids : Owed(m) => HasCarrier(m)

(* A reply does not stay owed.                                             *)
Reached == \A m \in Ids : Owed(m) ~> ~Owed(m)

=============================================================================
