-------------------------- MODULE ReplyMail_proofs --------------------------
(***************************************************************************)
(* Proofs about the mail of agents' replies, for any number of messages,   *)
(* workers and faults: the types; that no reply is mailed twice while the  *)
(* lock outlasts every mail; and that, while the faults are no more than   *)
(* the retries make up for, the tasks that stand down for one another      *)
(* leave no reply without a task that will mail it.                        *)
(*                                                                         *)
(* Typed leaves out mailable, a Boolean variable: what is known of it is   *)
(* an invariant apart.                                                     *)
(***************************************************************************)
EXTENDS ReplyMail, WellFoundedInduction, TLAPS

(* Some natural number of a set is the least: < is well founded.           *)
LEMMA LeastExists ==
  ASSUME NEW T \in SUBSET Nat, T # {}
  PROVE  \E x \in T : \A y \in T : x <= y
<1>1. PICK R : IsWellFoundedOn(R, Nat) /\ \A x, y \in Nat : <<x, y>> \in R <=> x < y
  <2>1. IsWellFoundedOn(OpToRel(<, Nat), Nat)
    BY NatLessThanWellFounded
  <2>2. \A x, y \in Nat : <<x, y>> \in OpToRel(<, Nat) <=> x < y
    BY DEF OpToRel
  <2> QED
    BY <2>1, <2>2, Zenon
<1>2. PICK x \in T : \A y \in T : <<y, x>> \notin R
  <2>1. T \subseteq Nat
    OBVIOUS
  <2>2. IsWellFoundedOn(R, Nat)
    BY <1>1
  <2> QED
    BY <2>1, <2>2, WFMin
<1>3. \A y \in T : ~(y < x)
  BY <1>1, <1>2
<1> QED
  BY <1>3

(* Min returns the least.                                                  *)
LEMMA MinIsLeast ==
  ASSUME NEW S \in SUBSET Nat, S # {}
  PROVE  Min(S) \in S /\ \A x \in S : Min(S) <= x
<1>1. PICK x \in S : \A y \in S : x <= y
  BY LeastExists
<1> QED
  BY <1>1 DEF Min

(* Max returns the greatest of numbers up to n: n less the least of what   *)
(* they are short of n.                                                    *)
LEMMA MaxIsGreatest ==
  ASSUME NEW n \in Nat, NEW S \in SUBSET (0 .. n), S # {}
  PROVE  Max(S) \in S /\ \A x \in S : x <= Max(S)
<1>1. PICK T : \A y : y \in T <=> \E x \in S : y = n - x
  <2>1. \A y : y \in {n - x : x \in S} <=> \E x \in S : y = n - x
    OBVIOUS
  <2> QED
    BY <2>1, Zenon
<1>2. T \in SUBSET Nat /\ T # {}
  <2>1. ASSUME NEW y \in T PROVE y \in Nat
    BY <1>1
  <2>2. PICK x : x \in S
    OBVIOUS
  <2>3. n - x \in T
    BY <1>1, <2>2
  <2> QED
    BY <2>1, <2>3
<1>3. PICK t \in T : \A y \in T : t <= y
  BY <1>2, LeastExists
<1>4. PICK x \in S : t = n - x
  BY <1>1, <1>3
<1>5. \A y \in S : x >= y
  BY <1>1, <1>3, <1>4
<1> QED
  BY <1>5 DEF Max

-----------------------------------------------------------------------------

(* A worker under way has a task.                                          *)
TaskHeld == \A w \in Workers : pc[w] # "idle" => task[w] \in Tasks

(* The types of all variables but mailable.                                *)
Typed ==
  /\ kind \in [Ids -> Kinds] /\ status \in [Ids -> Statuses]
  /\ readUpto \in 0 .. MaxMessages
  /\ unqueued \in SUBSET Ids /\ tasks \in SUBSET Tasks
  /\ lock \in Workers \cup {None}
  /\ pc \in [Workers -> Steps]
  /\ task \in [Workers -> Tasks \cup {None}]
  /\ readSeen \in [Workers -> 0 .. MaxMessages]
  /\ carry \in [Workers -> SUBSET Ids]
  /\ mails \in [Ids -> Nat]
  /\ own \in SUBSET Ids /\ excused \in SUBSET Ids
  /\ faults \in 0 .. MaxFaults
  /\ TaskHeld

-----------------------------------------------------------------------------

(* Messages are written one after the other.                               *)
LEMMA LastIsLast ==
  ASSUME kind \in [Ids -> Kinds]
  PROVE  /\ Last \in 0 .. MaxMessages
         /\ \A m \in Ids : kind[m] # "none" => m <= Last
<1> DEFINE S == {0} \cup {m \in Ids : kind[m] # "none"}
<1>1. S \in SUBSET (0 .. MaxMessages) /\ S # {}
  BY ReplyMailAssumption DEF Ids
<1>2. Max(S) \in S /\ \A x \in S : x <= Max(S)
  <2> HIDE DEF S
  <2> QED
    BY <1>1, ReplyMailAssumption, MaxIsGreatest
<1> QED
  BY <1>1, <1>2 DEF Last

(* A message that ends what the next reply's mail carries.                 *)
Breaks(k) == kind[k] \in UserKinds \/ (kind[k] # "deleted" /\ status[k] = "sent")

(* n is carried by a mail of m, for who read up to r, if it is m, or a     *)
(* reply since r after which the user did not write and none was emailed.  *)
LEMMA UnreadAre ==
  ASSUME NEW m \in Ids, NEW r \in 0 .. MaxMessages
  PROVE  UnreadReplies(m, r) =
           {n \in 1 .. m - 1 : /\ kind[n] = "agent" /\ n > r
                               /\ \A k \in n .. m - 1 : ~Breaks(k)} \cup {m}
<1> DEFINE B == {n \in 1 .. m - 1 : Breaks(n)}
           S == {0, r} \cup B
<1>1. S \in SUBSET (0 .. MaxMessages) /\ S # {}
  BY ReplyMailAssumption DEF Ids
<1>2. Max(S) \in S /\ \A x \in S : x <= Max(S)
  <2> HIDE DEF S
  <2> QED
    BY <1>1, ReplyMailAssumption, MaxIsGreatest
<1>3. Mark(m, r) = Max(S)
  BY DEF Mark, Breaks
<1>4. ASSUME NEW n \in 1 .. m - 1
      PROVE n > Mark(m, r) <=> n > r /\ \A k \in n .. m - 1 : ~Breaks(k)
  BY <1>1, <1>2, <1>3, ReplyMailAssumption DEF Ids
<1> QED
  BY <1>4 DEF UnreadReplies

(* A mail carries messages of the ticket.                                  *)
LEMMA CarryIsIds ==
  ASSUME NEW m \in Ids, NEW r \in 0 .. MaxMessages
  PROVE  UnreadReplies(m, r) \in SUBSET Ids
BY UnreadAre, ReplyMailAssumption DEF Ids

-----------------------------------------------------------------------------

(* The types hold at first.                                                *)
LEMMA InitTyped == Init => Typed
<1> SUFFICES ASSUME Init PROVE Typed
  OBVIOUS
<1>1. kind \in [Ids -> Kinds] /\ status \in [Ids -> Statuses] /\ mails \in [Ids -> Nat]
  BY DEF Init, Kinds, Statuses
<1>2. readUpto = 0 /\ faults = 0
  BY DEF Init
<1>3. unqueued = {} /\ tasks = {} /\ own = {} /\ excused = {} /\ lock = None
  BY DEF Init
<1>4. /\ pc = [w \in Workers |-> "idle"] /\ task = [w \in Workers |-> None]
      /\ readSeen = [w \in Workers |-> 0] /\ carry = [w \in Workers |-> {}]
  BY DEF Init
<1> QED
  BY <1>1, <1>2, <1>3, <1>4, ReplyMailAssumption DEF Typed, Steps, TaskHeld

(* The end of a task keeps the types of its worker.                        *)
LEMMA EndedIsTyped ==
  ASSUME Typed, NEW w \in Workers, EndTask(w)
  PROVE  /\ pc' \in [Workers -> Steps] /\ task' \in [Workers -> Tasks \cup {None}]
         /\ readSeen' \in [Workers -> 0 .. MaxMessages]
         /\ carry' \in [Workers -> SUBSET Ids]
         /\ TaskHeld'
BY ReplyMailAssumption DEF Typed, TaskHeld, EndTask, Steps

(* What follows a failure to send keeps the counts within their limits.    *)
LEMMA AgainIsTyped ==
  ASSUME Typed, NEW w \in Workers, TryAgain(w), pc[w] # "idle"
  PROVE  tasks' \in SUBSET Tasks /\ status' \in [Ids -> Statuses]
<1>1. task[w] \in Tasks
  BY DEF Typed, TaskHeld
<1>2. CASE /\ task[w].smtp < MaxSmtp
           /\ Retry(w, [task[w] EXCEPT !.smtp = @ + 1]) /\ UNCHANGED status
  <2>1. [task[w] EXCEPT !.smtp = @ + 1] \in Tasks
    BY <1>1, <1>2, ReplyMailAssumption DEF Tasks
  <2> QED
    BY <1>2, <2>1 DEF Retry, Typed
<1>3. CASE MarkFailed(Msg(w)) /\ UNCHANGED tasks
  BY <1>3, <1>1 DEF MarkFailed, Msg, Tasks, Statuses, Typed
<1> QED
  BY <1>2, <1>3 DEF TryAgain

(* Every step keeps the types.                                             *)
LEMMA TypedNext == Typed /\ [Next]_vars => Typed'
<1> SUFFICES ASSUME Typed, [Next]_vars PROVE Typed'
  OBVIOUS
<1> USE ReplyMailAssumption DEF Typed
<1>1. CASE AgentReplies \/ UserWrites
  <2>1. PICK k \in {"agent"} \cup UserKinds : Write(k)
    BY <1>1 DEF AgentReplies, UserWrites
  <2>2. Last + 1 \in Ids
    BY <2>1, LastIsLast DEF Write, Ids
  <2>3. kind' \in [Ids -> Kinds]
    BY <2>1, <2>2 DEF Write, Kinds, UserKinds
  <2>4. unqueued' \in SUBSET Ids
    BY <1>1, <2>2 DEF AgentReplies, UserWrites
  <2> QED
    BY <1>1, <2>3, <2>4
    DEF AgentReplies, UserWrites, TaskHeld, workVars, history
<1>2. CASE Read
  BY <1>2, LastIsLast DEF Read, TaskHeld, workVars, history
<1>3. CASE Unsubscribe \/ Expire
  BY <1>3 DEF Unsubscribe, Expire, Fault, TaskHeld, ticketVars, workVars, history
<1>4. ASSUME NEW m \in Ids, QueueReplyEmail(m) PROVE Typed'
  <2>1. NewTask(m, TRUE) \in Tasks /\ NewTask(m, FALSE) \in Tasks
    BY DEF NewTask, Tasks
  <2>2. tasks' \in SUBSET Tasks /\ unqueued' \in SUBSET Ids
    BY <1>4, <2>1, Zenon DEF QueueReplyEmail
  <2> QED
    BY <1>4, <2>2 DEF QueueReplyEmail, TaskHeld, ticketVars, workVars, history
<1>5. ASSUME NEW m \in Ids, QueuingFails(m) \/ Delete(m) \/ Bounce(m) PROVE Typed'
  <2>1. kind' \in [Ids -> Kinds] /\ status' \in [Ids -> Statuses]
    BY <1>5 DEF QueuingFails, Delete, Bounce, Kinds, Statuses, ticketVars
  <2>2. /\ unqueued' \in SUBSET Ids /\ excused' \in SUBSET Ids /\ faults' \in 0 .. MaxFaults
        /\ UNCHANGED <<readUpto, tasks, lock, workVars, mails, own>>
    BY <1>5 DEF QueuingFails, Delete, Bounce, Fault, ticketVars, history
  <2> QED
    BY <2>1, <2>2 DEF TaskHeld, workVars
<1>6. ASSUME NEW w \in Workers, LoadSome(w) PROVE Typed'
  BY <1>6 DEF LoadSome, Load, TaskHeld, Steps, ticketVars, workVars, history
<1>7. ASSUME NEW w \in Workers, Consider(w) \/ TakeLock(w) \/ LockBusy(w) PROVE Typed'
  BY <1>7, EndedIsTyped
  DEF Consider, TakeLock, LockBusy, Retry, GoTo, TaskHeld, Steps, ticketVars, workVars,
      history
<1>8. ASSUME NEW w \in Workers, Build(w) PROVE Typed'
  <2>1. /\ pc[w] = "build" /\ UNCHANGED <<ticketVars, unqueued, tasks, history, faults>>
        /\ \/ EndTask(w) /\ Unlock
           \/ /\ carry' = [carry EXCEPT ![w] = UnreadReplies(Msg(w), readSeen[w])]
              /\ pc' = [pc EXCEPT ![w] = "send"]
              /\ UNCHANGED <<task, readSeen, lock>>
    BY <1>8 DEF Build
  <2>2. CASE EndTask(w) /\ Unlock
    <3>1. lock' \in Workers \cup {None}
      BY <2>2 DEF Unlock
    <3> QED
      BY <2>1, <2>2, <3>1, EndedIsTyped DEF ticketVars, history
  <2>3. CASE /\ carry' = [carry EXCEPT ![w] = UnreadReplies(Msg(w), readSeen[w])]
             /\ pc' = [pc EXCEPT ![w] = "send"]
             /\ UNCHANGED <<task, readSeen, lock>>
    <3>1. Msg(w) \in Ids /\ readSeen[w] \in 0 .. MaxMessages
      BY <2>1 DEF Msg, Tasks, TaskHeld
    <3>2. UnreadReplies(Msg(w), readSeen[w]) \in SUBSET Ids
      BY <3>1, CarryIsIds
    <3>3. carry' \in [Workers -> SUBSET Ids]
      BY <2>3, <3>2
    <3>4. pc' \in [Workers -> Steps] /\ TaskHeld'
      BY <2>1, <2>3 DEF TaskHeld, Steps
    <3> QED
      BY <2>1, <2>3, <3>3, <3>4 DEF ticketVars, history
  <2> QED
    BY <2>1, <2>2, <2>3
<1>9. ASSUME NEW w \in Workers, Send(w) PROVE Typed'
  BY <1>9 DEF Send, Delivered, GoTo, Msg, Tasks, TaskHeld, Steps, ticketVars, workVars
<1>10. ASSUME NEW w \in Workers, SendFails(w) \/ SendUnanswered(w) PROVE Typed'
  <2>1. pc[w] # "idle" /\ TryAgain(w) /\ Unlock
    BY <1>10 DEF SendFails, SendUnanswered
  <2>2. tasks' \in SUBSET Tasks /\ status' \in [Ids -> Statuses]
    BY <2>1, AgainIsTyped
  <2>3. mails' \in [Ids -> Nat] /\ own' \in SUBSET Ids /\ excused' \in SUBSET Ids
    BY <1>10, <2>1 DEF SendFails, SendUnanswered, Delivered, Msg, Tasks, TaskHeld, history
  <2>4. EndTask(w)
    BY <2>1 DEF TryAgain, Retry
  <2> QED
    BY <1>10, <2>1, <2>2, <2>3, <2>4, EndedIsTyped DEF SendFails, SendUnanswered, Fault, Unlock
<1>11. ASSUME NEW w \in Workers, LockOutage(w) PROVE Typed'
  <2>1. task[w] \in Tasks
    BY <1>11 DEF LockOutage, TaskHeld
  <2>2. tasks' \in SUBSET Tasks /\ status' \in [Ids -> Statuses] /\ EndTask(w)
    <3>1. CASE Retry(w, [task[w] EXCEPT !.outages = @ + 1]) /\ UNCHANGED status
               /\ task[w].outages < MaxOutages
      <4>1. [task[w] EXCEPT !.outages = @ + 1] \in Tasks
        BY <2>1, <3>1 DEF Tasks
      <4> QED
        BY <3>1, <4>1 DEF Retry
    <3>2. CASE MarkFailed(Msg(w)) /\ EndTask(w) /\ UNCHANGED tasks
      BY <3>2, <2>1 DEF MarkFailed, Msg, Tasks, Statuses
    <3> QED
      BY <1>11, <3>1, <3>2 DEF LockOutage
  <2> QED
    BY <1>11, <2>2, EndedIsTyped DEF LockOutage, Fault, history
<1>12. ASSUME NEW w \in Workers, MarkSent(w) \/ Crash(w) PROVE Typed'
  <2>1. EndTask(w) /\ tasks' = tasks /\ unqueued' = unqueued /\ mails' = mails /\ own' = own
    BY <1>12 DEF MarkSent, Crash, history
  <2>2. status' \in [Ids -> Statuses] /\ kind' = kind /\ readUpto' = readUpto
    BY <1>12 DEF MarkSent, Crash, Statuses, ticketVars
  <2>3. excused' \in SUBSET Ids /\ lock' \in Workers \cup {None} /\ faults' \in 0 .. MaxFaults
    BY <1>12 DEF MarkSent, Crash, Unlock, Fault, history
  <2> QED
    BY <2>1, <2>2, <2>3, EndedIsTyped
<1>13. CASE UNCHANGED vars
  BY <1>13 DEF vars, TaskHeld
<1> QED
  BY <1>1, <1>2, <1>3, <1>4, <1>5, <1>6, <1>7, <1>8, <1>9, <1>10, <1>11, <1>12, <1>13
  DEF Next, TaskStep, TaskFault

(* The type of the one Boolean variable.                                   *)
MailableTyped == mailable \in BOOLEAN

(* Every step keeps it.                                                    *)
LEMMA MailableNext == MailableTyped /\ [Next]_vars => MailableTyped'
BY Zenon
DEF MailableTyped, Next, TaskStep, TaskFault, AgentReplies, UserWrites, Read, Unsubscribe, Expire,
    QueueReplyEmail, QueuingFails, Delete, Bounce, LoadSome, Load, Consider, TakeLock, LockBusy,
    Build, Send, MarkSent, LockOutage, SendFails, SendUnanswered, Crash, ticketVars, vars

(* Every variable keeps its type.                                          *)
THEOREM TypeCorrect == Spec => []TypeOK
<1>1. Spec => []Typed
  BY InitTyped, TypedNext, PTL DEF Spec
<1>2. Spec => []MailableTyped
  <2>1. Init => MailableTyped
    BY DEF Init, MailableTyped
  <2> QED
    BY <2>1, MailableNext, PTL DEF Spec
<1>3. Typed /\ MailableTyped => TypeOK
  BY DEF Typed, MailableTyped, TypeOK
<1> QED
  BY <1>1, <1>2, <1>3, PTL

-----------------------------------------------------------------------------

(* A worker in a task's critical section.                                  *)
Busy(w) == pc[w] \in {"build", "send", "sent"}

(* While no mail outlasts the lock, whoever is inside has it.              *)
LockKept == \A w \in Workers : Busy(w) => lock = w

(* A mailed reply is marked so, or it will be by the worker that sent it;  *)
(* or it was deleted, and no mail carries it any more.                     *)
Recorded ==
  \A m \in Ids \ excused :
    /\ mails[m] <= 1
    /\ mails[m] = 1 => \/ kind[m] = "deleted" \/ status[m] = "sent"
                       \/ \E w \in Workers : pc[w] = "sent" /\ m \in carry[w]

(* What a mail about to be sent carries was not mailed.                    *)
Unsent == \A w \in Workers : pc[w] = "send" => \A m \in carry[w] \ excused : mails[m] = 0

(* The inductive invariant of MailedOnce.                                  *)
OneMail == LockKept /\ Recorded /\ Unsent

(* Before any reply, no mail.                                              *)
LEMMA InitOneMail == Init => OneMail
<1> SUFFICES ASSUME Init PROVE OneMail
  OBVIOUS
<1>1. pc = [w \in Workers |-> "idle"] /\ mails = [m \in Ids |-> 0]
  BY DEF Init
<1> QED
  BY <1>1 DEF OneMail, LockKept, Recorded, Unsent, Busy

(* What a step does that neither sends a mail, builds one nor marks one:   *)
(* no worker gets inside, nor loses the lock; what is marked stays so, or  *)
(* is excused.                                                             *)
Outside ==
  /\ mails' = mails /\ excused \subseteq excused'
  /\ \A w \in Workers :
       /\ Busy(w)' => pc'[w] = pc[w] /\ carry'[w] = carry[w] /\ lock' = lock
       /\ pc[w] = "sent" => pc'[w] = "sent" \/ carry[w] \subseteq excused'
  /\ \A m \in Ids : /\ status[m] = "sent" => status'[m] = "sent" \/ m \in excused'
                    /\ kind[m] = "deleted" => kind'[m] = "deleted"

(* Such a step keeps the invariant.                                        *)
LEMMA OutsideKeeps == Typed /\ OneMail /\ Outside => OneMail'
<1> SUFFICES ASSUME Typed, OneMail, Outside PROVE OneMail'
  OBVIOUS
<1>1. LockKept'
  BY DEF OneMail, LockKept, Outside, Busy
<1>2. Unsent'
  BY DEF OneMail, Unsent, Outside, Busy
<1>3. ASSUME NEW m \in Ids, m \notin excused', mails[m] = 1
      PROVE  \/ kind'[m] = "deleted" \/ status'[m] = "sent"
             \/ \E w \in Workers : pc'[w] = "sent" /\ m \in carry'[w]
  <2>1. CASE kind[m] = "deleted" \/ status[m] = "sent"
    BY <1>3, <2>1 DEF Outside
  <2>2. CASE \E w \in Workers : pc[w] = "sent" /\ m \in carry[w]
    BY <1>3, <2>2 DEF Outside, Busy
  <2> QED
    BY <1>3, <2>1, <2>2 DEF OneMail, Recorded, Outside
<1>4. Recorded'
  BY <1>3 DEF OneMail, Recorded, Outside
<1> QED
  BY <1>1, <1>2, <1>4 DEF OneMail

(* A worker inside has the lock, and is the only one inside.               *)
LEMMA OneInside ==
  ASSUME Typed, OneMail, NEW w \in Workers, Busy(w)
  PROVE  lock = w /\ \A v \in Workers \ {w} : ~Busy(v)
BY ReplyMailAssumption DEF OneMail, LockKept

(* Every step keeps the invariant, if no mail outlasts the lock.           *)
LEMMA OneMailNext ==
  ASSUME "slow" \notin Faults, Typed, OneMail, [Next]_vars
  PROVE  OneMail'
<1> USE ReplyMailAssumption
<1>1. CASE AgentReplies \/ UserWrites
  <2>1. PICK k \in {"agent"} \cup UserKinds : Write(k)
    BY <1>1 DEF AgentReplies, UserWrites
  <2>2. \A m \in Ids : kind[m] = "deleted" => kind'[m] = "deleted"
    BY <2>1, LastIsLast DEF Write, Typed, Ids
  <2> QED
    BY <1>1, <2>2, OutsideKeeps
    DEF AgentReplies, UserWrites, Outside, Busy, workVars, history
<1>2. CASE Read \/ Unsubscribe
  BY <1>2, OutsideKeeps DEF Read, Unsubscribe, Outside, Busy, workVars, history
<1>3. CASE Expire
  <2>1. \A w \in Workers : ~Busy(w)
    BY <1>3 DEF Expire, Fault, OneMail, LockKept, Busy
  <2> QED
    BY <1>3, <2>1, OutsideKeeps DEF Expire, Outside, Busy, ticketVars, workVars, history
<1>4. ASSUME NEW m \in Ids, QueueReplyEmail(m) \/ QueuingFails(m) PROVE OneMail'
  BY <1>4, OutsideKeeps
  DEF QueueReplyEmail, QueuingFails, Outside, Busy, ticketVars, workVars, history
<1>5. ASSUME NEW m \in Ids, Delete(m) \/ Bounce(m) PROVE OneMail'
  BY <1>5, OutsideKeeps DEF Delete, Bounce, Outside, Busy, workVars, history, Typed
<1>6. ASSUME NEW w \in Workers, LoadSome(w) PROVE OneMail'
  BY <1>6, OutsideKeeps
  DEF LoadSome, Load, Outside, Busy, Typed, ticketVars, workVars, history
<1>7. ASSUME NEW w \in Workers, Consider(w) \/ LockBusy(w) PROVE OneMail'
  BY <1>7, OutsideKeeps
  DEF Consider, LockBusy, Retry, EndTask, GoTo, Outside, Busy, Typed, ticketVars, history
<1>8. ASSUME NEW w \in Workers, LockOutage(w) PROVE OneMail'
  BY <1>8, OutsideKeeps
  DEF LockOutage, MarkFailed, Retry, EndTask, Outside, Busy, Typed, history
<1>9. ASSUME NEW w \in Workers, TakeLock(w) PROVE OneMail'
  <2>1. \A v \in Workers : ~Busy(v)
    BY <1>9 DEF TakeLock, OneMail, LockKept
  <2> QED
    BY <1>9, <2>1
    DEF TakeLock, GoTo, OneMail, LockKept, Recorded, Unsent, Busy, Typed, ticketVars, history
<1>10. ASSUME NEW w \in Workers, Build(w) PROVE OneMail'
  <2>1. Busy(w)
    BY <1>10 DEF Build, Busy
  <2>2. lock = w /\ \A v \in Workers \ {w} : ~Busy(v)
    BY <2>1, OneInside
  <2>3. CASE EndTask(w) /\ Unlock
    BY <1>10, <2>2, <2>3
    DEF Build, EndTask, OneMail, LockKept, Recorded, Unsent, Busy, Typed, ticketVars, history
  <2>4. CASE /\ status[Msg(w)] # "sent" /\ kind[Msg(w)] # "deleted"
             /\ carry' = [carry EXCEPT ![w] = UnreadReplies(Msg(w), readSeen[w])]
             /\ pc' = [pc EXCEPT ![w] = "send"]
             /\ UNCHANGED <<task, readSeen, lock>>
    <3>1. Msg(w) \in Ids /\ readSeen[w] \in 0 .. MaxMessages
      BY <2>1 DEF Typed, TaskHeld, Busy, Msg, Tasks
    <3>2. ASSUME NEW m \in UnreadReplies(Msg(w), readSeen[w]) \ excused PROVE mails[m] = 0
      <4>1. m \in Ids /\ status[m] # "sent" /\ kind[m] # "deleted"
        BY <2>4, <3>1, UnreadAre DEF Breaks, Ids
      <4> QED
        BY <1>10, <2>2, <3>2, <4>1 DEF OneMail, Recorded, Typed, Busy, Build
    <3>3. UNCHANGED <<status, kind, mails, excused>>
      BY <1>10 DEF Build, ticketVars, history
    <3>4. Unsent'
      BY <2>2, <2>4, <3>2, <3>3 DEF Unsent, Typed, Busy
    <3>5. Recorded'
      BY <1>10, <2>4, <3>3 DEF OneMail, Recorded, Typed, Build
    <3>6. LockKept'
      BY <2>2, <2>4 DEF OneMail, LockKept, Busy, Typed
    <3> QED
      BY <3>4, <3>5, <3>6 DEF OneMail
  <2> QED
    BY <1>10, <2>3, <2>4 DEF Build
<1>11. ASSUME NEW w \in Workers, Send(w) PROVE OneMail'
  <2>1. Busy(w) /\ \A v \in Workers \ {w} : ~Busy(v)
    BY <1>11, OneInside DEF Send, Busy
  <2>2. Recorded'
    BY <1>11, <2>1
    DEF Send, Delivered, GoTo, OneMail, Recorded, Unsent, Typed, Busy, ticketVars
  <2>3. LockKept' /\ Unsent'
    BY <1>11, <2>1 DEF Send, GoTo, OneMail, LockKept, Unsent, Typed, Busy, ticketVars
  <2> QED
    BY <2>2, <2>3 DEF OneMail
<1>12. ASSUME NEW w \in Workers, SendFails(w) \/ SendUnanswered(w) PROVE OneMail'
  <2>1. Busy(w) /\ EndTask(w) /\ \A v \in Workers \ {w} : ~Busy(v)
    BY <1>12, OneInside DEF SendFails, SendUnanswered, TryAgain, Retry, Busy
  <2>2. /\ kind' = kind /\ excused \subseteq excused'
        /\ \A m \in Ids : /\ status[m] = "sent" => status'[m] = "sent"
                          /\ m \notin excused' => mails'[m] = mails[m]
    BY <1>12
    DEF SendFails, SendUnanswered, TryAgain, MarkFailed, Delivered, Typed, history
  <2>3. \A v \in Workers : ~Busy(v)' /\ pc[v] # "sent"
    BY <1>12, <2>1 DEF EndTask, Busy, Typed, SendFails, SendUnanswered
  <2> QED
    BY <2>2, <2>3 DEF OneMail, LockKept, Recorded, Unsent, Busy
<1>13. ASSUME NEW w \in Workers, MarkSent(w) PROVE OneMail'
  <2>1. Busy(w) /\ EndTask(w) /\ \A v \in Workers \ {w} : ~Busy(v)
    BY <1>13, OneInside DEF MarkSent, Busy
  <2>2. \A v \in Workers : ~Busy(v)'
    BY <2>1 DEF EndTask, Busy, Typed
  <2> QED
    BY <1>13, <2>1, <2>2
    DEF MarkSent, OneMail, LockKept, Recorded, Unsent, Busy, Typed, history
<1>14. ASSUME NEW w \in Workers, Crash(w) PROVE OneMail'
  BY <1>14, OutsideKeeps DEF Crash, EndTask, Outside, Busy, Typed, ticketVars
<1>15. CASE UNCHANGED vars
  BY <1>15, OutsideKeeps DEF vars, Outside, Busy
<1> QED
  BY <1>1, <1>2, <1>3, <1>4, <1>5, <1>6, <1>7, <1>8, <1>9, <1>10, <1>11, <1>12, <1>13,
     <1>14, <1>15
  DEF Next, TaskStep, TaskFault

(* While no mail is sent for longer than the lock lasts, no reply is       *)
(* mailed twice, but for those excused.                                    *)
THEOREM MailedOnceCorrect ==
  ASSUME "slow" \notin Faults
  PROVE  Spec => []MailedOnce
<1>1. Typed /\ OneMail /\ [Next]_vars => (Typed /\ OneMail)'
  BY TypedNext, OneMailNext
<1>2. Typed /\ OneMail => MailedOnce
  BY DEF OneMail, Recorded, MailedOnce
<1> QED
  BY <1>1, <1>2, InitTyped, InitOneMail, PTL DEF Spec

-----------------------------------------------------------------------------

(* Each failure that a task counts is a fault that happened.               *)
Counted ==
  /\ \A t \in tasks : t.smtp <= faults /\ t.outages <= faults
  /\ \A w \in Workers :
       pc[w] # "idle" => task[w].smtp <= faults /\ task[w].outages <= faults

(* No task, no failure.                                                    *)
LEMMA InitCounted == Init => Counted
<1> SUFFICES ASSUME Init PROVE Counted
  OBVIOUS
<1>1. pc = [w \in Workers |-> "idle"] /\ tasks = {}
  BY DEF Init
<1> QED
  BY <1>1 DEF Counted

(* The end of a task, which may be queued again.                           *)
LEMMA EndedIsCounted ==
  ASSUME Typed, Typed', Counted, faults' >= faults, NEW w \in Workers, EndTask(w),
         \A t \in tasks' : t \in tasks \/ (t.smtp <= faults' /\ t.outages <= faults')
  PROVE  Counted'
<1>1. \A v \in Workers : pc'[v] # "idle" => pc[v] # "idle" /\ task'[v] = task[v] /\ v # w
  BY DEF EndTask, Typed
<1>2. faults \in Nat /\ faults' \in Nat
  BY ReplyMailAssumption DEF Typed
<1>3. ASSUME NEW t \in tasks' PROVE t.smtp <= faults' /\ t.outages <= faults'
  <2>1. CASE t \in tasks
    <3>1. t.smtp <= faults /\ t.outages <= faults /\ t.smtp \in Nat /\ t.outages \in Nat
      BY <2>1, ReplyMailAssumption DEF Counted, Typed, Tasks
    <3> QED
      BY <3>1, <1>2
  <2> QED
    BY <1>3, <2>1
<1>4. ASSUME NEW v \in Workers, pc'[v] # "idle"
      PROVE  task'[v].smtp <= faults' /\ task'[v].outages <= faults'
  <2>1. task[v].smtp <= faults /\ task[v].outages <= faults
    BY <1>1, <1>4 DEF Counted
  <2>2. task[v].smtp \in Nat /\ task[v].outages \in Nat
    BY <1>1, <1>4, ReplyMailAssumption DEF Typed, TaskHeld, Tasks
  <2> QED
    BY <1>1, <1>2, <1>4, <2>1, <2>2
<1> QED
  BY <1>3, <1>4 DEF Counted

(* Every step keeps the counts below the number of faults.                 *)
LEMMA CountedNext ==
  ASSUME Typed, Typed', Counted, [Next]_vars
  PROVE  Counted'
<1> USE ReplyMailAssumption
<1>1. faults \in Nat
  BY DEF Typed
<1>2. CASE \/ AgentReplies \/ UserWrites \/ Read \/ Unsubscribe \/ Expire \/ UNCHANGED vars
           \/ \E m \in Ids : QueuingFails(m) \/ Delete(m) \/ Bounce(m)
  <2>1. UNCHANGED <<tasks, pc, task>> /\ faults' >= faults
    BY <1>1, <1>2
    DEF AgentReplies, UserWrites, Read, Unsubscribe, Expire, QueuingFails, Delete, Bounce,
        Fault, vars, workVars
  <2>2. \A t \in Tasks : t.smtp \in Nat /\ t.outages \in Nat
    BY DEF Tasks
  <2> QED
    BY <1>1, <2>1, <2>2 DEF Counted, Typed, TaskHeld
<1>3. ASSUME NEW m \in Ids, QueueReplyEmail(m) PROVE Counted'
  <2>1. NewTask(m, TRUE).smtp <= faults /\ NewTask(m, TRUE).outages <= faults
    BY <1>1 DEF NewTask
  <2>2. NewTask(m, FALSE).smtp <= faults /\ NewTask(m, FALSE).outages <= faults
    BY <1>1 DEF NewTask
  <2>3. tasks' \subseteq tasks \cup {NewTask(m, TRUE), NewTask(m, FALSE)}
    BY <1>3, Zenon DEF QueueReplyEmail
  <2>4. UNCHANGED <<pc, task, faults>>
    BY <1>3 DEF QueueReplyEmail, workVars
  <2>5. ASSUME NEW t \in tasks' PROVE t.smtp <= faults' /\ t.outages <= faults'
    <3>1. CASE t \in tasks
      BY <2>4, <3>1 DEF Counted
    <3>2. CASE t = NewTask(m, TRUE) \/ t = NewTask(m, FALSE)
      BY <2>1, <2>2, <2>4, <3>2, Zenon
    <3> QED
      BY <2>3, <3>1, <3>2
  <2> QED
    BY <2>4, <2>5 DEF Counted
<1>4. ASSUME NEW w \in Workers, LoadSome(w) PROVE Counted'
  BY <1>4 DEF LoadSome, Load, Counted, Typed, workVars
<1>5. ASSUME NEW w \in Workers, GoTo(w, "lock") \/ GoTo(w, "build") \/ GoTo(w, "sent"),
             pc[w] # "idle", UNCHANGED <<tasks, faults>>
      PROVE  Counted'
  BY <1>5 DEF GoTo, Counted, Typed
<1>6. ASSUME NEW w \in Workers, Consider(w) \/ TakeLock(w) \/ Send(w) PROVE Counted'
  <2>1. CASE EndTask(w) /\ tasks' = tasks /\ faults' = faults
    BY <1>1, <2>1, EndedIsCounted
  <2> QED
    BY <1>5, <1>6, <2>1 DEF Consider, TakeLock, Send
<1>7. ASSUME NEW w \in Workers, LockBusy(w) PROVE Counted'
  BY <1>1, <1>7, EndedIsCounted DEF LockBusy, Retry, Counted
<1>8. ASSUME NEW w \in Workers, Build(w) PROVE Counted'
  <2>1. CASE EndTask(w)
    BY <1>1, <1>8, <2>1, EndedIsCounted DEF Build
  <2>2. CASE pc' = [pc EXCEPT ![w] = "send"] /\ task' = task
    BY <1>8, <2>2 DEF Build, Counted, Typed
  <2> QED
    BY <1>8, <2>1, <2>2 DEF Build
<1>9. ASSUME NEW w \in Workers, LockOutage(w) \/ SendFails(w) \/ SendUnanswered(w)
      PROVE  Counted'
  <2>1. faults' = faults + 1 /\ EndTask(w) /\ pc[w] # "idle"
    BY <1>9 DEF LockOutage, SendFails, SendUnanswered, Fault, TryAgain, Retry
  <2>2. task[w] \in Tasks /\ task[w].smtp <= faults /\ task[w].outages <= faults
    BY <2>1 DEF Counted, Typed, TaskHeld
  <2>3. ASSUME NEW t \in tasks', t \notin tasks
        PROVE  t.smtp <= faults + 1 /\ t.outages <= faults + 1
    <3>1. \/ t = [task[w] EXCEPT !.smtp = @ + 1]
          \/ t = [task[w] EXCEPT !.outages = @ + 1]
      BY <1>9, <2>3 DEF LockOutage, SendFails, SendUnanswered, TryAgain, Retry
    <3> QED
      BY <1>1, <2>2, <3>1 DEF Tasks
  <2> QED
    BY <1>1, <2>1, <2>3, EndedIsCounted
<1>10. ASSUME NEW w \in Workers, MarkSent(w) \/ Crash(w) PROVE Counted'
  BY <1>1, <1>10, EndedIsCounted DEF MarkSent, Crash, Fault
<1> QED
  BY <1>2, <1>3, <1>4, <1>6, <1>7, <1>8, <1>9, <1>10 DEF Next, TaskStep, TaskFault

-----------------------------------------------------------------------------

(* Nothing goes wrong but what retries make up for, the lock's cache and   *)
(* the mail server out of reach and a slow mail, no more often than a task *)
(* retries.                                                                *)
OnlyPassing ==
  /\ Faults \subseteq {"outage", "smtp", "slow"}
  /\ MaxFaults <= MaxSmtp /\ MaxFaults <= MaxOutages

(* n is the reply of a task queued, waiting, or not yet under way to send. *)
WaitsFor(n) ==
  \/ n \in unqueued
  \/ \E t \in tasks : t.msg = n
  \/ \E w \in Workers : pc[w] \in {"consider", "lock", "build"} /\ Msg(w) = n

(* The worker has built a mail.                                            *)
Sending(w) == pc[w] \in {"send", "sent"}

(* The replies from m to n are all unread, and the user wrote none between *)
(* them: a mail of n carries m, unless m was emailed.                      *)
Together(m, n) ==
  /\ m <= n /\ readUpto < m /\ kind[m] = "agent" /\ kind[n] = "agent"
  /\ \A k \in m .. n : kind[k] \notin UserKinds

(* A reply neither read nor emailed; Owed, but for the requester's         *)
(* address.                                                                *)
Due(m) == kind[m] = "agent" /\ status[m] = "" /\ readUpto < m

(* No reply is deleted or given up, only replies are emailed, and the      *)
(* reading that a worker loaded is not later than the last.                *)
Whole ==
  /\ \A m \in Ids : /\ kind[m] # "deleted" /\ status[m] # "failed"
                    /\ status[m] = "sent" => kind[m] = "agent"
  /\ \A w \in Workers : readSeen[w] <= readUpto

(* Tasks are those of replies.                                             *)
OfReplies == \A n \in Ids : WaitsFor(n) => kind[n] = "agent"

(* Of replies unread together, the later is not emailed without the        *)
(* earlier.                                                                *)
SentTogether == \A m, n \in Ids : Together(m, n) /\ status[n] = "sent" => status[m] = "sent"

(* A mail carries replies together with its own, and all such that were    *)
(* not emailed.                                                            *)
CarryTogether ==
  \A w \in Workers : Sending(w) =>
    /\ Msg(w) \in Ids /\ kind[Msg(w)] = "agent"
    /\ \A m \in carry[w] : /\ m <= Msg(w) /\ kind[m] = "agent"
                           /\ \A k \in m .. Msg(w) : kind[k] \notin UserKinds
    /\ \A m \in Ids : Together(m, Msg(w)) => m \in carry[w] \/ status[m] = "sent"

(* m will be in a mail: that of a task together with it, or one being      *)
(* sent.                                                                   *)
Carried(m) ==
  \/ \E n \in Ids : WaitsFor(n) /\ Together(m, n)
  \/ \E w \in Workers : Sending(w) /\ m \in carry[w]

(* Every reply due will be in a mail.                                      *)
DueCarried == \A m \in Ids : Due(m) => Carried(m)

(* The inductive invariant of Covered, with Counted.                       *)
Looked == Whole /\ OfReplies /\ SentTogether /\ CarryTogether /\ DueCarried

(* Of no message, nothing is due.                                          *)
LEMMA InitLooked == Init => Looked
<1> SUFFICES ASSUME Init PROVE Looked
  OBVIOUS
<1>1. /\ pc = [w \in Workers |-> "idle"] /\ tasks = {} /\ unqueued = {} /\ readUpto = 0
      /\ readSeen = [w \in Workers |-> 0]
      /\ kind = [m \in Ids |-> "none"] /\ status = [m \in Ids |-> ""]
  BY DEF Init
<1>2. Whole
  <2>1. \A w \in Workers : readSeen[w] <= readUpto
    <3>1. readUpto = 0 /\ \A w \in Workers : readSeen[w] = 0
      BY <1>1, Zenon
    <3> QED
      BY <3>1
  <2>2. \A m \in Ids : kind[m] = "none" /\ status[m] = ""
    BY <1>1
  <2> QED
    BY <2>1, <2>2, Zenon DEF Whole
<1>3. OfReplies
  BY <1>1 DEF OfReplies, WaitsFor
<1>4. SentTogether /\ DueCarried
  BY <1>1 DEF SentTogether, DueCarried, Together, Due
<1>5. CarryTogether
  BY <1>1 DEF CarryTogether, Sending
<1> QED
  BY <1>2, <1>3, <1>4, <1>5 DEF Looked

(* What leaves the ticket as it is keeps all this, if no mail begins, and  *)
(* what carried a reply due goes on to.                                    *)
LEMMA TicketKept ==
  ASSUME Typed, Looked, UNCHANGED <<kind, status, readUpto>>,
         \A w \in Workers :
           /\ readSeen'[w] <= readUpto'
           /\ Sending(w)' => Sending(w) /\ carry'[w] = carry[w] /\ Msg(w)' = Msg(w)
           /\ Sending(w) => Sending(w)' \/ \E n \in Ids : n = Msg(w) /\ WaitsFor(n)',
         \A n \in Ids : /\ WaitsFor(n)' => \/ WaitsFor(n)
                                           \/ \E w \in Workers : Sending(w) /\ n = Msg(w)
                        /\ WaitsFor(n) => \/ WaitsFor(n)'
                                          \/ \A m \in Ids : Due(m) /\ Together(m, n) => Carried(m)'
  PROVE  Looked'
<1>1. \A m, n \in Ids : Together(m, n)' <=> Together(m, n)
  BY DEF Together
<1>2. \A m \in Ids : Due(m)' <=> Due(m)
  BY DEF Due
<1>3. Whole'
  BY DEF Looked, Whole
<1>4. OfReplies'
  BY DEF Looked, OfReplies, CarryTogether
<1>5. SentTogether'
  BY <1>1 DEF Looked, SentTogether
<1>6. CarryTogether'
  BY <1>1 DEF Looked, CarryTogether
<1>7. ASSUME NEW m \in Ids, Due(m) PROVE Carried(m)'
  <2>1. Carried(m)
    BY <1>7 DEF Looked, DueCarried
  <2>2. CASE \E n \in Ids : WaitsFor(n) /\ Together(m, n)
    BY <1>1, <1>7, <2>2 DEF Carried
  <2>3. ASSUME NEW w \in Workers, Sending(w), m \in carry[w] PROVE Carried(m)'
    <3>1. CASE Sending(w)'
      BY <2>3, <3>1 DEF Carried
    <3>2. CASE \E n \in Ids : n = Msg(w) /\ WaitsFor(n)'
      <4>1. Together(m, Msg(w))
        BY <1>7, <2>3 DEF Looked, CarryTogether, Together, Due
      <4> QED
        BY <1>1, <3>2, <4>1 DEF Carried
    <3> QED
      BY <2>3, <3>1, <3>2
  <2> QED
    BY <2>1, <2>2, <2>3 DEF Carried
<1> QED
  BY <1>2, <1>3, <1>4, <1>5, <1>6, <1>7 DEF Looked, DueCarried

(* A reply was written, or the user wrote.                                 *)
LEMMA WriteKeeps ==
  ASSUME Typed, Looked, NEW k \in {"agent"} \cup UserKinds, Write(k),
         unqueued' = IF k = "agent" THEN unqueued \cup {Last + 1} ELSE unqueued,
         UNCHANGED <<status, readUpto, tasks, pc, task, readSeen, carry>>
  PROVE  Looked'
<1> USE ReplyMailAssumption
<1> DEFINE l == Last + 1
<1>1. /\ l \in Ids /\ kind' = [kind EXCEPT ![l] = k]
      /\ \A m \in Ids : m >= l => kind[m] = "none"
  BY LastIsLast DEF Write, Ids, Typed
<1>2. UNCHANGED <<status, readUpto, tasks, pc, task, readSeen, carry>>
  OBVIOUS
<1>3. unqueued' = unqueued \/ (k = "agent" /\ unqueued' = unqueued \cup {l})
  OBVIOUS
<1>4. k = "agent" => l \in unqueued'
  OBVIOUS
<1> HIDE DEF l
<1>5. \A m \in Ids : kind'[m] = IF m = l THEN k ELSE kind[m]
  BY <1>1 DEF Typed
<1>6. k # "none" /\ k # "deleted" /\ status[l] = ""
  <2>1. kind[l] = "none"
    BY <1>1 DEF Ids
  <2>2. status[l] = ""
    BY <1>1, <2>1 DEF Looked, Whole, Typed, Statuses
  <2> QED
    BY <2>2 DEF UserKinds
<1>7. ASSUME NEW m \in Ids, NEW n \in Ids, n # l PROVE Together(m, n)' <=> Together(m, n)
  BY <1>1, <1>2, <1>5, <1>7 DEF Together, Ids
<1>8. \A m \in Ids : /\ WaitsFor(m) => WaitsFor(m)'
                     /\ WaitsFor(m)' => WaitsFor(m) \/ (m = l /\ k = "agent")
  BY <1>3, <1>2 DEF WaitsFor, Msg
<1>9. Whole'
  BY <1>2, <1>5, <1>6 DEF Looked, Whole
<1>10. OfReplies'
  BY <1>1, <1>5, <1>8 DEF Looked, OfReplies, Ids
<1>11. SentTogether'
  BY <1>2, <1>6, <1>7 DEF Looked, SentTogether
<1>12. CarryTogether'
  <2> SUFFICES ASSUME NEW w \in Workers, Sending(w)'
               PROVE  /\ Msg(w)' \in Ids /\ kind'[Msg(w)'] = "agent"
                      /\ \A m \in carry'[w] :
                           /\ m <= Msg(w)' /\ kind'[m] = "agent"
                           /\ \A n \in m .. Msg(w)' : kind'[n] \notin UserKinds
                      /\ \A m \in Ids :
                           Together(m, Msg(w))' => m \in carry'[w] \/ status'[m] = "sent"
    BY DEF CarryTogether
  <2>1. Msg(w)' = Msg(w) /\ carry'[w] = carry[w] /\ Sending(w) /\ carry[w] \in SUBSET Ids
    BY <1>2 DEF Msg, Sending, Typed
  <2>2. /\ Msg(w) \in Ids /\ kind[Msg(w)] = "agent"
        /\ \A m \in carry[w] : /\ m <= Msg(w) /\ kind[m] = "agent"
                               /\ \A n \in m .. Msg(w) : kind[n] \notin UserKinds
        /\ \A m \in Ids : Together(m, Msg(w)) => m \in carry[w] \/ status[m] = "sent"
    BY <2>1 DEF Looked, CarryTogether
  <2>3. Msg(w) # l /\ Msg(w) < l
    BY <1>1, <2>2 DEF Ids
  <2>4. \A m \in Ids : Together(m, Msg(w))' <=> Together(m, Msg(w))
    BY <1>7, <2>1, <2>2, <2>3
  <2> QED
    BY <1>1, <1>2, <1>5, <2>1, <2>2, <2>3, <2>4 DEF Ids
<1>13. ASSUME NEW m \in Ids, Due(m)' PROVE Carried(m)'
  <2>1. CASE m = l
    <3>1. kind'[m] = "agent" /\ readUpto' < m
      BY <1>13 DEF Due
    <3>2. WaitsFor(m)'
      BY <1>1, <1>5, <1>4, <2>1, <3>1 DEF WaitsFor
    <3>3. Together(m, m)'
      BY <3>1 DEF Together, UserKinds, Ids
    <3> QED
      BY <3>2, <3>3 DEF Carried
  <2>2. CASE m # l
    <3>1. Carried(m)
      BY <1>2, <1>5, <1>13, <2>2 DEF Due, Looked, DueCarried
    <3>2. ASSUME NEW n \in Ids, WaitsFor(n), Together(m, n) PROVE Carried(m)'
      <4>1. n # l
        BY <1>1, <3>2 DEF Together, Ids
      <4> QED
        BY <1>7, <1>8, <3>2, <4>1 DEF Carried
    <3> QED
      BY <1>2, <3>1, <3>2 DEF Carried, Sending
  <2> QED
    BY <2>1, <2>2
<1> QED
  BY <1>9, <1>10, <1>11, <1>12, <1>13 DEF Looked, DueCarried

(* Who read the ticket, read all of it: nothing is due.                    *)
LEMMA ReadKeeps ==
  ASSUME Typed, Looked, Read
  PROVE  Looked'
<1> USE ReplyMailAssumption
<1>1. /\ UNCHANGED <<kind, status, unqueued, tasks, pc, task, readSeen, carry>>
      /\ readUpto' = Last /\ readUpto < Last
  BY DEF Read, workVars
<1>2. \A m \in Ids : kind[m] = "agent" => m <= readUpto'
  BY <1>1, LastIsLast DEF Typed
<1>3. \A m \in Ids : ~Due(m)' /\ \A n \in Ids : ~Together(m, n)'
  <2> SUFFICES ASSUME NEW m \in Ids, kind[m] = "agent" PROVE ~(readUpto' < m)
    BY <1>1 DEF Due, Together
  <2> QED
    BY <1>1, <1>2, LastIsLast DEF Ids, Typed
<1>4. Whole'
  BY <1>1, LastIsLast DEF Looked, Whole, Typed
<1>5. OfReplies'
  BY <1>1 DEF Looked, OfReplies, WaitsFor, Msg
<1>6. CarryTogether'
  BY <1>1, <1>3 DEF Looked, CarryTogether, Sending, Msg
<1> QED
  BY <1>3, <1>4, <1>5, <1>6 DEF Looked, SentTogether, DueCarried

(* The requester can be mailed.                                            *)
MailableSet == mailable = TRUE

(* A task that stands down for a later reply's leaves it what it carried:  *)
(* that reply is due too, and is carried.                                  *)
LEMMA LaterCarries ==
  ASSUME Typed, Looked, NEW n \in Ids, NEW r \in 0 .. MaxMessages,
         CarriedByLaterReply(n, r), NEW m \in Ids, Due(m), Together(m, n)
  PROVE  \/ \E k \in Ids : k > n /\ WaitsFor(k) /\ Together(m, k)
         \/ \E w \in Workers : Sending(w) /\ m \in carry[w]
<1> USE ReplyMailAssumption
<1> DEFINE S == Later(n)
           l == Min(S)
<1>1. S \in SUBSET Nat /\ S # {}
  BY DEF CarriedByLaterReply, Later, Written, Ids
<1>2. l \in S
  <2> HIDE DEF S
  <2> QED
    BY <1>1, MinIsLeast
<1>3. l \in Ids /\ l > n /\ kind[l] = "agent"
  BY <1>2 DEF Later, Written
<1>4. n \in UnreadReplies(l, r)
  BY DEF CarriedByLaterReply
<1> HIDE DEF l, S
<1>5. \A k \in n .. l - 1 : kind[k] \notin UserKinds
  BY <1>3, <1>4, UnreadAre DEF Breaks, Ids
<1>6. Together(m, l)
  BY <1>3, <1>5 DEF Together, Ids, UserKinds
<1>7. Due(l)
  <2>1. status[l] # "sent"
    BY <1>3, <1>6 DEF Looked, SentTogether, Due
  <2>2. status[l] = ""
    BY <1>3, <2>1 DEF Looked, Whole, Typed, Statuses
  <2>3. readUpto < l
    BY <1>3, <1>6 DEF Together, Typed, Ids
  <2> QED
    BY <1>3, <2>2, <2>3, Zenon DEF Due
<1>8. Carried(l)
  BY <1>3, <1>7 DEF Looked, DueCarried
<1>9. ASSUME NEW k \in Ids, WaitsFor(k), Together(l, k) PROVE k > n /\ Together(m, k)
  BY <1>3, <1>6, <1>9 DEF Together, Ids
<1>10. ASSUME NEW w \in Workers, Sending(w), l \in carry[w] PROVE m \in carry[w]
  <2>1. Msg(w) \in Ids /\ Together(m, Msg(w))
    BY <1>3, <1>6, <1>10 DEF Looked, CarryTogether, Together, Ids
  <2> QED
    BY <1>10, <2>1 DEF Looked, CarryTogether, Due
<1> QED
  BY <1>8, <1>9, <1>10 DEF Carried

(* What is built for a task carries all it is to carry.                    *)
LEMMA BuiltTogether ==
  ASSUME Typed, Looked, NEW n \in Ids, kind[n] = "agent", NEW r \in 0 .. MaxMessages,
         r <= readUpto
  PROVE  /\ \A m \in UnreadReplies(n, r) :
              /\ m \in Ids /\ m <= n /\ kind[m] = "agent"
              /\ \A k \in m .. n : kind[k] \notin UserKinds
         /\ \A m \in Ids : Together(m, n) => m \in UnreadReplies(n, r) \/ status[m] = "sent"
<1> USE ReplyMailAssumption
<1>1. ASSUME NEW m \in UnreadReplies(n, r)
      PROVE  /\ m \in Ids /\ m <= n /\ kind[m] = "agent"
             /\ \A k \in m .. n : kind[k] \notin UserKinds
  BY <1>1, UnreadAre DEF Breaks, UserKinds, Ids
<1>2. ASSUME NEW m \in Ids, Together(m, n), status[m] # "sent"
      PROVE  m \in UnreadReplies(n, r)
  <2>1. ASSUME NEW k \in m .. n - 1 PROVE ~Breaks(k)
    <3>1. k \in Ids /\ kind[k] \notin UserKinds
      BY <1>2, <2>1 DEF Together, Ids
    <3>2. status[k] = "sent" => Together(m, k)
      BY <1>2, <2>1, <3>1 DEF Looked, Whole, Together, Ids
    <3> QED
      BY <1>2, <3>1, <3>2 DEF Looked, SentTogether, Breaks
  <2>2. m <= n /\ kind[m] = "agent" /\ m > r
    BY <1>2 DEF Together, Typed, Ids
  <2>3. m = n \/ m \in 1 .. n - 1
    BY <2>2 DEF Ids
  <2> QED
    BY <2>1, <2>2, <2>3, UnreadAre
<1> QED
  BY <1>1, <1>2

(* Every step keeps the invariant.                                         *)
LEMMA LookedNext ==
  ASSUME OnlyPassing, MailableSet, Typed, Typed', Counted, Looked, [Next]_vars
  PROVE  Looked'
<1> USE ReplyMailAssumption
<1>1. /\ \A f \in FaultKinds \ {"outage", "smtp", "slow"} : ~Fault(f)
      /\ \A f : Fault(f) => faults < MaxSmtp /\ faults < MaxOutages
  BY DEF OnlyPassing, Fault, Typed
<1>2. /\ ~Unsubscribe
      /\ \A m \in Ids : ~QueuingFails(m) /\ ~Delete(m) /\ ~Bounce(m)
      /\ \A w \in Workers : ~SendUnanswered(w) /\ ~Crash(w)
  BY DEF OnlyPassing, Fault, Unsubscribe, QueuingFails, Delete, Bounce, SendUnanswered, Crash
<1>3. CASE AgentReplies
  BY <1>3, WriteKeeps DEF AgentReplies, UserKinds, workVars
<1>4. CASE UserWrites
  BY <1>4, WriteKeeps DEF UserWrites, UserKinds, workVars
<1>5. CASE Read
  BY <1>5, ReadKeeps
<1>6. CASE Expire \/ UNCHANGED vars
  <2>1. UNCHANGED <<kind, status, readUpto, unqueued, tasks, pc, task, readSeen, carry>>
    BY <1>6 DEF Expire, vars, ticketVars, workVars
  <2>2. \A n \in Ids : WaitsFor(n)' <=> WaitsFor(n)
    BY <2>1 DEF WaitsFor, Msg
  <2> QED
    BY <2>1, <2>2, TicketKept DEF Looked, Whole, Sending, Msg
<1>7. ASSUME NEW m \in Ids, QueueReplyEmail(m) PROVE Looked'
  <2>1. UNCHANGED <<kind, status, readUpto, pc, task, readSeen, carry>>
    BY <1>7 DEF QueueReplyEmail, ticketVars, workVars
  <2>2. \E later \in BOOLEAN : /\ tasks' = tasks \cup {NewTask(m, later)}
                               /\ unqueued' = unqueued \ {m} /\ m \in unqueued
    BY <1>7, Zenon DEF QueueReplyEmail, MailableSet
  <2>3. \A later \in BOOLEAN : NewTask(m, later).msg = m
    BY DEF NewTask
  <2>4. \A n \in Ids : WaitsFor(n)' <=> WaitsFor(n)
    BY <2>1, <2>2, <2>3 DEF WaitsFor, Msg
  <2> QED
    BY <2>1, <2>4, TicketKept DEF Looked, Whole, Sending, Msg
<1>8. ASSUME NEW w \in Workers, ~Sending(w), UNCHANGED <<kind, status, readUpto>>,
             ~Sending(w)',
             readSeen'[w] <= readUpto',
             \A v \in Workers \ {w} : /\ pc'[v] = pc[v] /\ task'[v] = task[v]
                                      /\ readSeen'[v] = readSeen[v] /\ carry'[v] = carry[v],
             \A n \in Ids : /\ WaitsFor(n)' => WaitsFor(n)
                            /\ WaitsFor(n) =>
                                 \/ WaitsFor(n)'
                                 \/ \A m \in Ids : Due(m) /\ Together(m, n) => Carried(m)'
      PROVE  Looked'
  BY <1>8, TicketKept DEF Looked, Whole, Sending, Msg
<1>9. ASSUME NEW w \in Workers, LoadSome(w) PROVE Looked'
  <2>1. PICK t \in Tasks : Load(w, t)
    BY <1>9 DEF LoadSome
  <2>2. t \in tasks /\ tasks' = tasks \ {t} /\ pc[w] = "idle" /\ t.msg \in Ids
        /\ UNCHANGED <<kind, status, readUpto, unqueued>>
    BY <2>1 DEF Load, ticketVars, Tasks
  <2>3. CASE StandsDown(t) /\ UNCHANGED workVars
    <3>1. status[t.msg] = "sent" \/ readUpto >= t.msg
      <4>1. kind[t.msg] # "deleted"
        BY <2>2 DEF Looked, Whole
      <4> QED
        BY <2>3, <4>1, Zenon DEF StandsDown, Unmailable, ReadInWidget, MailableSet
    <3>2. ASSUME NEW m \in Ids, Due(m) PROVE ~Together(m, t.msg)
      <4>1. CASE status[t.msg] = "sent"
        BY <2>2, <3>2, <4>1 DEF Looked, SentTogether, Due
      <4>2. CASE readUpto >= t.msg
        BY <2>2, <4>2 DEF Together, Typed, Ids
      <4> QED
        BY <3>1, <4>1, <4>2
    <3>3. \A n \in Ids : /\ WaitsFor(n)' => WaitsFor(n)
                         /\ WaitsFor(n) => WaitsFor(n)' \/ n = t.msg
      BY <2>2, <2>3 DEF WaitsFor, Msg, workVars
    <3> QED
      BY <2>2, <2>3, <3>2, <3>3, <1>8 DEF Looked, Whole, Sending, workVars
  <2>4. CASE /\ pc' = [pc EXCEPT ![w] = IF t.unread THEN "consider" ELSE "lock"]
             /\ task' = [task EXCEPT ![w] = t]
             /\ readSeen' = [readSeen EXCEPT ![w] = readUpto] /\ carry' = carry
    <3>1. /\ pc'[w] \in {"consider", "lock"} /\ task'[w] = t /\ readSeen'[w] = readUpto
          /\ \A v \in Workers \ {w} : /\ pc'[v] = pc[v] /\ task'[v] = task[v]
                                      /\ readSeen'[v] = readSeen[v] /\ carry'[v] = carry[v]
      BY <2>4 DEF Typed
    <3>2. \A n \in Ids : WaitsFor(n)' <=> WaitsFor(n)
      BY <2>2, <3>1 DEF WaitsFor, Msg
    <3> QED
      BY <2>2, <3>1, <3>2, <1>8 DEF Typed, Sending
  <2> QED
    BY <2>1, <2>3, <2>4 DEF Load
<1>10. ASSUME NEW w \in Workers, Consider(w) PROVE Looked'
  <2> DEFINE n == Msg(w)
  <2>1. pc[w] = "consider" /\ UNCHANGED <<kind, status, readUpto, unqueued, tasks>>
    BY <1>10 DEF Consider, ticketVars
  <2>2. n \in Ids /\ readSeen[w] \in 0 .. MaxMessages /\ readSeen[w] <= readUpto
    BY <2>1 DEF Typed, TaskHeld, Msg, Tasks, Looked, Whole
  <2>3. CASE CarriedByLaterReply(n, readSeen[w]) /\ EndTask(w)
    <3>1. /\ pc'[w] = "idle" /\ readSeen'[w] = 0
          /\ \A v \in Workers \ {w} : /\ pc'[v] = pc[v] /\ task'[v] = task[v]
                                      /\ readSeen'[v] = readSeen[v] /\ carry'[v] = carry[v]
      BY <2>3 DEF EndTask, Typed
    <3>2. \A k \in Ids : /\ WaitsFor(k)' => WaitsFor(k)
                         /\ WaitsFor(k) => WaitsFor(k)' \/ k = n
      BY <2>1, <3>1 DEF WaitsFor, Msg
    <3>3. ASSUME NEW m \in Ids, Due(m), Together(m, n) PROVE Carried(m)'
      <4>1. \/ \E k \in Ids : k > n /\ WaitsFor(k) /\ Together(m, k)
            \/ \E v \in Workers : Sending(v) /\ m \in carry[v]
        BY <2>2, <2>3, <3>3, LaterCarries
      <4>2. ASSUME NEW k \in Ids, k > n, WaitsFor(k), Together(m, k) PROVE Carried(m)'
        BY <2>1, <2>2, <3>2, <4>2 DEF Carried, Together, Ids
      <4>3. ASSUME NEW v \in Workers, Sending(v), m \in carry[v] PROVE Carried(m)'
        BY <2>1, <3>1, <4>3 DEF Carried, Sending
      <4> QED
        BY <4>1, <4>2, <4>3
    <3> QED
      BY <2>1, <3>1, <3>2, <3>3, <1>8 DEF Typed, Sending
  <2>4. CASE GoTo(w, "lock")
    <3>1. \A k \in Ids : WaitsFor(k)' <=> WaitsFor(k)
      BY <2>1, <2>4 DEF WaitsFor, Msg, GoTo, Typed
    <3> QED
      BY <2>1, <2>2, <2>4, <3>1, <1>8 DEF GoTo, Typed, Sending
  <2> QED
    BY <1>10, <2>3, <2>4 DEF Consider
<1>11. ASSUME NEW w \in Workers, TakeLock(w) PROVE Looked'
  <2>1. GoTo(w, "build") /\ pc[w] = "lock"
        /\ UNCHANGED <<kind, status, readUpto, unqueued, tasks>>
    BY <1>11 DEF TakeLock, ticketVars
  <2>2. \A k \in Ids : WaitsFor(k)' <=> WaitsFor(k)
    BY <2>1 DEF WaitsFor, Msg, GoTo, Typed
  <2> QED
    BY <2>1, <2>2, <1>8 DEF GoTo, Typed, Sending, Looked, Whole
<1>12. ASSUME NEW w \in Workers, ~Sending(w), pc[w] # "idle", NEW t \in Tasks, t.msg = Msg(w),
             Retry(w, t), UNCHANGED <<kind, status, readUpto, unqueued>>
      PROVE  Looked'
  <2>1. /\ pc'[w] = "idle" /\ readSeen'[w] = 0
        /\ \A v \in Workers \ {w} : /\ pc'[v] = pc[v] /\ task'[v] = task[v]
                                    /\ readSeen'[v] = readSeen[v] /\ carry'[v] = carry[v]
    BY <1>12 DEF Retry, EndTask, Typed
  <2>2. pc[w] \in {"consider", "lock", "build"}
    BY <1>12 DEF Sending, Typed, Steps
  <2>3. \A k \in Ids : WaitsFor(k)' <=> WaitsFor(k)
    BY <1>12, <2>1, <2>2 DEF WaitsFor, Msg, Retry
  <2> QED
    BY <1>12, <2>1, <2>3, <1>8 DEF Typed, Sending
<1>13. ASSUME NEW w \in Workers, LockBusy(w) PROVE Looked'
  BY <1>13, <1>12 DEF LockBusy, Sending, Typed, TaskHeld, Msg, ticketVars
<1>14. ASSUME NEW w \in Workers, LockOutage(w) PROVE Looked'
  <2>1. task[w] \in Tasks /\ task[w].outages <= faults /\ faults < MaxOutages
    BY <1>1, <1>14 DEF LockOutage, Typed, TaskHeld, Counted
  <2>2. task[w].outages \in Nat /\ ~(task[w].outages >= MaxOutages)
    BY <2>1 DEF Tasks, Typed
  <2> DEFINE t == [task[w] EXCEPT !.outages = @ + 1]
  <2>3. t \in Tasks /\ t.msg = Msg(w)
    BY <2>1, <2>2 DEF Tasks, Msg
  <2>4. Retry(w, t) /\ UNCHANGED <<kind, status, readUpto, unqueued>>
    BY <1>14, <2>2 DEF LockOutage
  <2> QED
    BY <1>14, <2>3, <2>4, <1>12 DEF LockOutage, Sending
<1>15. ASSUME NEW w \in Workers, Build(w) PROVE Looked'
  <2> DEFINE n == Msg(w)
             U == UnreadReplies(n, readSeen[w])
  <2>1. pc[w] = "build" /\ UNCHANGED <<kind, status, readUpto, unqueued, tasks>>
    BY <1>15 DEF Build, ticketVars
  <2>2. /\ n \in Ids /\ readSeen[w] \in 0 .. MaxMessages /\ readSeen[w] <= readUpto
        /\ kind[n] = "agent" /\ kind[n] # "deleted"
    <3>1. n \in Ids
      BY <2>1 DEF Typed, TaskHeld, Msg, Tasks
    <3>2. WaitsFor(n)
      BY <2>1 DEF WaitsFor
    <3> QED
      BY <3>1, <3>2 DEF Typed, Looked, Whole, OfReplies
  <2>3. CASE status[n] = "sent" /\ EndTask(w)
    <3>1. /\ pc'[w] = "idle" /\ readSeen'[w] = 0
          /\ \A v \in Workers \ {w} : /\ pc'[v] = pc[v] /\ task'[v] = task[v]
                                      /\ readSeen'[v] = readSeen[v] /\ carry'[v] = carry[v]
      BY <2>3 DEF EndTask, Typed
    <3>2. \A k \in Ids : /\ WaitsFor(k)' => WaitsFor(k)
                         /\ WaitsFor(k) => WaitsFor(k)' \/ k = n
      BY <2>1, <3>1 DEF WaitsFor, Msg
    <3>3. ASSUME NEW m \in Ids, Due(m) PROVE ~Together(m, n)
      BY <2>2, <2>3, <3>3 DEF Looked, SentTogether, Due
    <3> QED
      BY <2>1, <3>1, <3>2, <3>3, <1>8 DEF Typed, Sending
  <2>4. CASE /\ carry' = [carry EXCEPT ![w] = U] /\ pc' = [pc EXCEPT ![w] = "send"]
             /\ UNCHANGED <<task, readSeen>>
    <3>1. /\ pc'[w] = "send" /\ carry'[w] = U /\ Msg(w)' = n
          /\ \A v \in Workers \ {w} : pc'[v] = pc[v] /\ carry'[v] = carry[v] /\ Msg(v)' = Msg(v)
      BY <2>4 DEF Typed, Msg
    <3>2. /\ \A m \in U : /\ m \in Ids /\ m <= n /\ kind[m] = "agent"
                          /\ \A k \in m .. n : kind[k] \notin UserKinds
          /\ \A m \in Ids : Together(m, n) => m \in U \/ status[m] = "sent"
      BY <2>2, BuiltTogether
    <3> HIDE DEF U
    <3>3. \A k \in Ids : /\ WaitsFor(k)' => WaitsFor(k)
                         /\ WaitsFor(k) => WaitsFor(k)' \/ k = n
      BY <2>1, <2>4, <3>1 DEF WaitsFor
    <3>4. \A m, k \in Ids : Together(m, k)' <=> Together(m, k)
      BY <2>1 DEF Together
    <3>5. Whole' /\ OfReplies' /\ SentTogether'
      BY <2>1, <2>4, <3>3, <3>4 DEF Looked, Whole, OfReplies, SentTogether
    <3>6. CarryTogether'
      <4>1. ASSUME NEW v \in Workers, Sending(v)', v # w
            PROVE  /\ Sending(v) /\ Msg(v)' = Msg(v) /\ carry'[v] = carry[v]
        BY <3>1, <4>1 DEF Sending
      <4> QED
        BY <2>1, <2>2, <3>1, <3>2, <3>4, <4>1 DEF Looked, CarryTogether
    <3>7. ASSUME NEW m \in Ids, Due(m) PROVE Carried(m)'
      <4>1. Carried(m)
        BY <3>7 DEF Looked, DueCarried
      <4>2. CASE Together(m, n)
        BY <3>1, <3>2, <3>7, <4>2 DEF Due, Carried, Sending
      <4>3. CASE \E k \in Ids : WaitsFor(k) /\ Together(m, k)
        BY <3>3, <3>4, <4>2, <4>3 DEF Carried
      <4>4. CASE \E v \in Workers : Sending(v) /\ m \in carry[v]
        BY <2>1, <3>1, <4>4 DEF Carried, Sending
      <4> QED
        BY <4>1, <4>3, <4>4 DEF Carried
    <3> QED
      BY <2>1, <3>5, <3>6, <3>7 DEF Looked, DueCarried, Due
  <2> QED
    BY <1>15, <2>2, <2>3, <2>4 DEF Build
<1>16. ASSUME NEW w \in Workers, Send(w) PROVE Looked'
  <2>1. pc[w] = "send" /\ pc' = [pc EXCEPT ![w] = "sent"]
        /\ UNCHANGED <<kind, status, readUpto, unqueued, tasks, task, readSeen, carry>>
    BY <1>16 DEF Send, GoTo, ticketVars
  <2>2. \A k \in Ids : WaitsFor(k)' <=> WaitsFor(k)
    BY <2>1 DEF WaitsFor, Msg, Typed
  <2>3. \A v \in Workers : Sending(v)' <=> Sending(v)
    BY <2>1 DEF Sending, Typed
  <2> QED
    BY <2>1, <2>2, <2>3, TicketKept DEF Looked, Whole, Msg
<1>17. ASSUME NEW w \in Workers, SendFails(w) PROVE Looked'
  <2>1. task[w] \in Tasks /\ task[w].smtp <= faults /\ faults < MaxSmtp /\ pc[w] = "send"
    BY <1>1, <1>17 DEF SendFails, Typed, TaskHeld, Counted
  <2>2. task[w].smtp \in Nat /\ ~(task[w].smtp >= MaxSmtp)
    BY <2>1 DEF Tasks, Typed
  <2> DEFINE t == [task[w] EXCEPT !.smtp = @ + 1]
  <2>3. t \in Tasks /\ t.msg = Msg(w)
    BY <2>1, <2>2 DEF Tasks, Msg
  <2>4. /\ tasks' = tasks \cup {t} /\ EndTask(w)
        /\ UNCHANGED <<kind, status, readUpto, unqueued>>
    BY <1>17, <2>2 DEF SendFails, TryAgain, Retry
  <2>5. /\ pc'[w] = "idle" /\ readSeen'[w] = 0
        /\ \A v \in Workers \ {w} : /\ pc'[v] = pc[v] /\ task'[v] = task[v]
                                    /\ readSeen'[v] = readSeen[v] /\ carry'[v] = carry[v]
    BY <2>4 DEF EndTask, Typed
  <2> HIDE DEF t
  <2>6. \A k \in Ids : /\ WaitsFor(k)' <=> WaitsFor(k) \/ k = Msg(w)
    BY <2>1, <2>3, <2>4, <2>5 DEF WaitsFor, Msg
  <2> QED
    BY <2>1, <2>3, <2>4, <2>5, <2>6, TicketKept DEF Looked, Whole, Sending, Msg, Typed, Tasks
<1>18. ASSUME NEW w \in Workers, MarkSent(w) PROVE Looked'
  <2>1. /\ pc[w] = "sent" /\ EndTask(w)
        /\ UNCHANGED <<kind, readUpto, unqueued, tasks>>
    BY <1>18 DEF MarkSent
  <2>2. /\ pc'[w] = "idle" /\ readSeen'[w] = 0
        /\ \A v \in Workers \ {w} : /\ pc'[v] = pc[v] /\ Msg(v)' = Msg(v)
                                    /\ readSeen'[v] = readSeen[v] /\ carry'[v] = carry[v]
    BY <2>1 DEF EndTask, Typed, Msg
  <2>3. /\ Msg(w) \in Ids /\ kind[Msg(w)] = "agent"
        /\ \A m \in carry[w] : /\ m \in Ids /\ m <= Msg(w) /\ kind[m] = "agent"
                               /\ \A k \in m .. Msg(w) : kind[k] \notin UserKinds
        /\ \A m \in Ids : Together(m, Msg(w)) => m \in carry[w] \/ status[m] = "sent"
    BY <2>1 DEF Looked, CarryTogether, Sending, Typed
  <2>4. \A m \in Ids : status'[m] = IF m \in carry[w] THEN "sent" ELSE status[m]
    BY <1>18 DEF MarkSent, Looked, Whole
  <2>5. \A m, k \in Ids : Together(m, k)' <=> Together(m, k)
    BY <2>1 DEF Together
  <2>6. \A k \in Ids : WaitsFor(k)' <=> WaitsFor(k)
    BY <2>1, <2>2 DEF WaitsFor
  <2>7. Whole'
    BY <2>1, <2>2, <2>3, <2>4 DEF Looked, Whole, Typed
  <2>8. OfReplies'
    BY <2>1, <2>6 DEF Looked, OfReplies
  <2>9. SentTogether'
    <3> SUFFICES ASSUME NEW m \in Ids, NEW k \in Ids, Together(m, k), status'[k] = "sent"
                 PROVE  status'[m] = "sent"
      BY <2>5 DEF SentTogether
    <3>1. CASE status[k] = "sent"
      BY <2>4, <3>1 DEF Looked, SentTogether
    <3>2. CASE k \in carry[w]
      <4>1. Together(m, Msg(w))
        BY <2>3, <3>2 DEF Together, Ids
      <4> QED
        BY <2>3, <2>4, <4>1
    <3> QED
      BY <2>4, <3>1, <3>2
  <2>10. CarryTogether'
    <3>1. ASSUME NEW v \in Workers, Sending(v)'
          PROVE  v # w /\ Sending(v) /\ Msg(v)' = Msg(v) /\ carry'[v] = carry[v]
      BY <2>2, <3>1 DEF Sending
    <3>2. \A m \in Ids : status[m] = "sent" => status'[m] = "sent"
      BY <2>4
    <3> QED
      BY <2>1, <2>5, <3>1, <3>2 DEF Looked, CarryTogether
  <2>11. ASSUME NEW m \in Ids, Due(m)' PROVE Carried(m)'
    <3>1. Due(m) /\ m \notin carry[w]
      BY <2>1, <2>4, <2>11 DEF Due
    <3>2. Carried(m)
      BY <3>1 DEF Looked, DueCarried
    <3> QED
      BY <2>2, <2>5, <2>6, <3>1, <3>2 DEF Carried, Sending
  <2> QED
    BY <2>7, <2>8, <2>9, <2>10, <2>11 DEF Looked, DueCarried
<1> QED
  BY <1>2, <1>3, <1>4, <1>5, <1>6, <1>7, <1>9, <1>10, <1>11, <1>13, <1>14,
     <1>15, <1>16, <1>17, <1>18
  DEF Next, TaskStep, TaskFault

(* Nothing takes the requester's address away.                             *)
LEMMA MailableStays ==
  ASSUME OnlyPassing, MailableSet, [Next]_vars
  PROVE  MailableSet'
<1>1. ~Unsubscribe
  BY DEF OnlyPassing, Unsubscribe, Fault
<1> QED
  BY <1>1, Zenon
  DEF MailableSet, Next, TaskStep, TaskFault, AgentReplies, UserWrites, Read, Expire,
      QueueReplyEmail, QueuingFails, Delete, Bounce, LoadSome, Load, Consider, TakeLock, LockBusy,
      Build, Send, MarkSent, LockOutage, SendFails, SendUnanswered, Crash, ticketVars, vars

(* What is together with a waiting task's reply is in what its mail will   *)
(* carry: the invariant implies Covered.                                   *)
LEMMA LookedCovers == Typed /\ Looked => Covered
<1> SUFFICES ASSUME Typed, Looked, NEW m \in Ids, Due(m) PROVE HasCarrier(m)
  BY Zenon DEF Covered, Owed, Due
<1>1. Carried(m)
  BY DEF Looked, DueCarried
<1>2. ASSUME NEW n \in Ids, WaitsFor(n), Together(m, n)
      PROVE  /\ n \in Waiting /\ n >= m /\ kind[n] = "agent" /\ status[n] # "sent"
             /\ m \in UnreadReplies(n, readUpto)
  <2>1. n \in Waiting
    BY <1>2 DEF WaitsFor, Waiting
  <2>2. n >= m /\ kind[n] = "agent"
    BY <1>2 DEF Together, Ids
  <2>3. status[n] # "sent" /\ status[m] # "sent"
    BY <1>2 DEF Looked, SentTogether, Due
  <2>4. readUpto <= readUpto
    BY DEF Typed
  <2>5. m \in UnreadReplies(n, readUpto)
    BY <1>2, <2>2, <2>3, <2>4, BuiltTogether DEF Typed
  <2> QED
    BY <2>1, <2>2, <2>3, <2>5
<1> QED
  BY <1>1, <1>2 DEF Carried, Sending, HasCarrier

(* While nothing but what retries make up for goes wrong, and no more      *)
(* often, every reply owed is in a mail being sent, or in that of a task   *)
(* still to send it: tasks that stand down for one another never all do.   *)
THEOREM CoveredCorrect ==
  ASSUME OnlyPassing
  PROVE  Spec => []Covered
<1> DEFINE IInv == Typed /\ MailableSet /\ Counted /\ Looked
<1>1. Init => IInv
  <2>1. Init => MailableSet
    BY DEF Init, MailableSet
  <2> QED
    BY <2>1, InitTyped, InitCounted, InitLooked
<1>2. IInv /\ [Next]_vars => IInv'
  <2> SUFFICES ASSUME IInv, [Next]_vars PROVE IInv'
    OBVIOUS
  <2>1. Typed'
    BY TypedNext
  <2> QED
    BY <2>1, MailableStays, CountedNext, LookedNext
<1>3. IInv => Covered
  BY LookedCovers
<1> HIDE DEF IInv
<1> QED
  BY <1>1, <1>2, <1>3, PTL DEF Spec
=============================================================================
