--------------------------- MODULE Tickets_proofs ---------------------------
(***************************************************************************)
(* Proofs about the tickets' references and dates, for any number of       *)
(* tickets, requests and processes, and any faults.                        *)
(*                                                                         *)
(* Each lemma ...Next shows that a step preserves one part of IInv: the    *)
(* types and what requests have in hand; that the counter is beyond every  *)
(* reference; that a transaction which incremented it holds its row and    *)
(* has the next number; and that a row's dates say when its ticket ended.  *)
(* StepInTime then has, of one step, what ReopensInTime says of it.        *)
(***************************************************************************)
EXTENDS Tickets, TLAPS

(* A request under way has something in hand; of a ticket, if it found one. *)
InHandIsReal ==
  \A p \in Procs :
    /\ pc[p] # "idle" => job[p] \in Jobs
    /\ pc[p] \in {"write", "bulk"} => job[p].ticket \in Ids
    /\ pc[p] = "bulk" => job[p].row \in Rows /\ job[p].status \in Statuses

(* No reference, given or about to be, is beyond the counter.              *)
Counted ==
  /\ \A t \in Exists : ticket[t].ref <= counter
  /\ \A p \in Procs : pc[p] = "insert" => job[p].ref <= counter

(* A transaction that incremented the counter holds its row, and has the   *)
(* number after the one that is committed.                                 *)
LockNumbers ==
  \A p \in Procs : pc[p] = "commit" => rowLock = p /\ job[p].ref = counter + 1

(* Two tickets never share a reference.                                    *)
OwnReference == \A t, u \in Exists : t # u => ticket[t].ref # ticket[u].ref

(* TypeOK, in parts: the rows, who does what, and the rest.                *)
RowsTyped == ticket \in [Ids -> Rows \cup {None}] /\ ended \in [Ids -> Dates]

ProcsTyped ==
  /\ pc \in [Procs -> {"idle", "read", "insert", "write", "commit", "bulk"}]
  /\ job \in [Procs -> Jobs \cup {None}]
  /\ InHandIsReal

CountsTyped ==
  /\ counter \in References /\ rowLock \in Procs \cup {None}
  /\ requests \in 0 .. MaxRequests /\ edits \in 0 .. MaxEdits
  /\ took \in [Ids -> Nat] /\ turned \in [Ids -> Nat]
  /\ happened \in SUBSET Faults

(* When a ticket ended is what its row says of it, but for what the two    *)
(* faults do: one that ended has a date, of the time it last ended or of   *)
(* the day, unless it was dated by neither; and nothing later than its row. *)
DatedRow(row, when, faults) ==
  /\ row.status \notin Ends => when = None
  /\ row.status \in Ends => when # None
  /\ row.updated = "old" => when # "recent"
  /\ row.status \in Ends /\ "undated" \notin faults =>
       /\ {row.resolved, row.closed} # {None}
       /\ EndDate(row) = "recent" => when = "recent"
  /\ row.status \in Ends /\ "kept" \notin faults =>
       (EndDate(row) = "old" => when = "old")

Dated ==
  \A t \in Ids :
    IF t \in Exists THEN DatedRow(ticket[t], ended[t], happened) ELSE ended[t] = None

Typed == RowsTyped /\ OwnReference /\ ProcsTyped /\ CountsTyped
IInv == Typed /\ Counted /\ LockNumbers /\ Dated

(* With no ticket and no request there is nothing to hold.                 *)
LEMMA InitIInv == Init => IInv
BY TicketsAssumption
DEF Init, IInv, Typed, RowsTyped, OwnReference, ProcsTyped, CountsTyped, InHandIsReal,
    Counted, LockNumbers, Dated, Exists, Born, Dates, References

(* The typed part of the invariant is the one the runs check.              *)
LEMMA TypedIsTypeOK == Typed => TypeOK
BY DEF Typed, RowsTyped, OwnReference, ProcsTyped, CountsTyped, TypeOK

-----------------------------------------------------------------------------

(* What the operators that make rows and jobs return.                      *)
LEMMA NewTicketIsRow ==
  ASSUME NEW ref \in References
  PROVE  NewTicket(ref) \in Rows /\ NewTicket(ref).ref = ref
BY TicketsAssumption DEF NewTicket, Rows, Statuses, Dates

(* A ticket reopened is a row, with the reference it had.                  *)
LEMMA ReopenedIsRow ==
  ASSUME NEW row \in Rows
  PROVE  Reopened(row) \in Rows /\ Reopened(row).ref = row.ref
BY TicketsAssumption DEF Reopened, Rows, Statuses, Dates

(* A bulk update's save is of a row, with the reference it had.            *)
LEMMA BulkIsRow ==
  ASSUME NEW t \in Ids, ticket[t] \in Rows, NEW read \in Rows, NEW status \in Statuses
  PROVE  BulkRow(t, read, status) \in Rows /\ BulkRow(t, read, status).ref = ticket[t].ref
<1>1. CASE status = "open"
  BY <1>1, ReopenedIsRow DEF BulkRow
<1>2. CASE status # "open"
  BY <1>2, TicketsAssumption DEF BulkRow, OrNow, Rows, Statuses, Dates
<1> QED
  BY <1>1, <1>2

(* What a request begins with.                                             *)
LEMMA NewJobIsJob == ASSUME NEW t \in Ids \cup {None} PROVE NewJob(t) \in Jobs
BY DEF NewJob, Jobs, References

(* What a request that took a number goes on with.                         *)
LEMMA OpeningIsJob ==
  ASSUME NEW j \in Jobs, NEW ref \in References
  PROVE  [j EXCEPT !.ref = ref] \in Jobs /\ [j EXCEPT !.ref = ref].ref = ref
BY DEF Jobs

(* Of the tickets there are, each is a row.                                *)
LEMMA ExistIsRow ==
  ASSUME RowsTyped, NEW t \in Exists
  PROVE  ticket[t] \in Rows /\ t \in Ids
BY DEF RowsTyped, Exists, Born

-----------------------------------------------------------------------------

(* What a step may do of the rows: those there keep their reference,       *)
RowsKept ==
  RowsTyped' /\ \A u \in Exists' : u \in Exists /\ ticket'[u].ref = ticket[u].ref

(* or one is added, with a reference that none has.                        *)
RowAdded(ref) ==
  /\ RowsTyped' /\ ref \notin Refs
  /\ \E n : \A u \in Exists' : IF u = n THEN ticket'[u].ref = ref
                             ELSE u \in Exists /\ ticket'[u].ref = ticket[u].ref

RowsMove ==
  \/ RowsKept
  \/ \E p \in Procs : /\ RowAdded(job[p].ref)
                      /\ \/ pc[p] = "insert" /\ counter' = counter
                         \/ pc[p] = "commit" /\ counter' = job[p].ref

(* A save of a row with its ticket's reference keeps the rows.             *)
LEMMA SavedKeepsRows ==
  ASSUME Typed, NEW t \in Ids, NEW row \in Rows, SaveRow(t, row), row.ref = ticket[t].ref
  PROVE  RowsKept
<1>1. t \in Exists /\ ticket' = [ticket EXCEPT ![t] = [row EXCEPT !.updated = "recent"]]
  BY DEF SaveRow
<1>2. /\ [row EXCEPT !.updated = "recent"] \in Rows
      /\ [row EXCEPT !.updated = "recent"].ref = row.ref
  BY TicketsAssumption DEF Rows, Dates
<1>3. ended' \in [Ids -> Dates]
  BY DEF SaveRow, Typed, RowsTyped, Dates
<1> QED
  BY <1>1, <1>2, <1>3 DEF Typed, RowsTyped, Exists, Born, RowsKept

(* A creation adds a row that no ticket was, with its reference.           *)
LEMMA InsertedAddsRow ==
  ASSUME Typed, NEW ref \in References, ref \notin Refs, ended' = ended,
         NEW t \in NextTickets, ticket' = [ticket EXCEPT ![t] = NewTicket(ref)]
  PROVE  RowAdded(ref)
<1>1. RowsTyped'
  BY NewTicketIsRow DEF Typed, RowsTyped
<1>2. \A u \in Exists' : IF u = t THEN ticket'[u].ref = ref
                         ELSE u \in Exists /\ ticket'[u].ref = ticket[u].ref
  BY NewTicketIsRow DEF Typed, RowsTyped, Exists, Born
<1> QED
  BY <1>1, <1>2 DEF RowAdded

(* A step that touches no ticket keeps the rows.                           *)
LEMMA SameKeepsRows == ASSUME Typed, ticket' = ticket, ended' = ended PROVE RowsKept
BY DEF Typed, RowsTyped, Exists, Born, RowsKept

(* Every step keeps the rows, or adds the one of a creation.               *)
LEMMA RowsNext == Typed /\ [Next]_vars => RowsMove
<1> SUFFICES ASSUME Typed, [Next]_vars PROVE RowsMove
  OBVIOUS
<1>1. ASSUME NEW p \in Procs, Count(p) \/ ReadCounter(p) \/ FirstMessage(p) PROVE RowsMove
  BY <1>1, SameKeepsRows DEF Count, ReadCounter, FirstMessage, RowsMove
<1>2. ASSUME NEW p \in Procs, Insert(p) PROVE RowsMove
  <2>1. /\ pc[p] = "insert" /\ counter' = counter /\ ended' = ended
        /\ job[p].ref \in References
    BY <1>2 DEF Insert, org, Typed, ProcsTyped, InHandIsReal, Jobs
  <2>2. \/ ticket' = ticket
        \/ /\ job[p].ref \notin Refs
           /\ \E t \in NextTickets : ticket' = [ticket EXCEPT ![t] = NewTicket(job[p].ref)]
    BY <1>2 DEF Insert, Unique
  <2> QED
    BY <2>1, <2>2, SameKeepsRows, InsertedAddsRow DEF RowsMove
<1>3. ASSUME NEW p \in Procs, Commit(p) PROVE RowsMove
  <2>1. pc[p] = "commit" /\ ended' = ended /\ job[p].ref \in References
    BY <1>3 DEF Commit, Typed, ProcsTyped, InHandIsReal, Jobs
  <2>2. \/ ticket' = ticket
        \/ /\ job[p].ref \notin Refs /\ counter' = job[p].ref
           /\ \E t \in NextTickets : ticket' = [ticket EXCEPT ![t] = NewTicket(job[p].ref)]
    BY <1>3 DEF Commit, Unique
  <2> QED
    BY <2>1, <2>2, SameKeepsRows, InsertedAddsRow DEF RowsMove
<1>4. ASSUME NEW p \in Procs, WriteMessage(p) PROVE RowsMove
  <2> DEFINE t == job[p].ticket
  <2>1. CASE TurnAway(p, t)
    BY <2>1, SameKeepsRows DEF TurnAway, RowsMove
  <2>2. CASE t \in Exists /\ Take(p, t)
    <3>1. ticket[t] \in Rows /\ t \in Ids
      BY <2>2, ExistIsRow DEF Typed
    <3>2. ended' \in [Ids -> Dates]
      BY <2>2 DEF Take, Typed, RowsTyped, Dates
    <3>3. CASE ticket' = [ticket EXCEPT ![t] = Reopened(ticket[t])]
      BY <2>2, <3>1, <3>2, <3>3, ReopenedIsRow
      DEF Typed, RowsTyped, Exists, Born, RowsKept, RowsMove
    <3>4. CASE ticket' = ticket
      BY <3>2, <3>4 DEF Typed, RowsTyped, Exists, Born, RowsKept, RowsMove
    <3> QED
      BY <2>2, <3>1, <3>3, <3>4 DEF Take, Typed, RowsTyped
  <2> QED
    BY <1>4, <2>1, <2>2 DEF WriteMessage
<1>5. ASSUME NEW p \in Procs, BulkSave(p) PROVE RowsMove
  <2> DEFINE t == job[p].ticket
  <2>1. t \in Ids /\ job[p].row \in Rows /\ job[p].status \in Statuses
    BY <1>5 DEF BulkSave, Typed, ProcsTyped, InHandIsReal
  <2>2. CASE t \in Exists
    <3>1. SaveRow(t, BulkRow(t, job[p].row, job[p].status))
      BY <1>5, <2>2 DEF BulkSave
    <3>2. ticket[t] \in Rows
      BY <2>2, ExistIsRow DEF Typed
    <3> QED
      BY <2>1, <3>1, <3>2, BulkIsRow, SavedKeepsRows DEF RowsMove
  <2>3. CASE t \notin Exists
    BY <1>5, <2>3, SameKeepsRows DEF BulkSave, RowsMove
  <2> QED
    BY <2>2, <2>3
<1>6. ASSUME NEW p \in Procs, NEW t \in Ids, NEW by \in {"page", "mail"}, Find(p, t, by)
      PROVE RowsMove
  BY <1>6, SameKeepsRows DEF Find, RowsMove
<1>7. ASSUME NEW p \in Procs, NEW t \in Ids, NEW status \in Statuses,
             BulkUpdate(p, t, status) PROVE RowsMove
  BY <1>7, SameKeepsRows DEF BulkUpdate, RowsMove
<1>8. ASSUME NEW t \in Ids, Assign(t) \/ Resolve(t) \/ Close(t) \/ Reopen(t)
             \/ \E status \in Statuses : Patch(t, status)
      PROVE RowsMove
  <2>1. t \in Exists
    BY <1>8 DEF Assign, Resolve, Close, Reopen, Patch, Act
  <2>2. ticket[t] \in Rows
    BY <2>1, ExistIsRow DEF Typed
  <2>3. PICK row \in Rows : SaveRow(t, row) /\ row.ref = ticket[t].ref
    <3>1. CASE Assign(t)
      BY <2>2, <3>1 DEF Assign, Act, Rows, Statuses
    <3>2. CASE Resolve(t)
      <4> DEFINE row == [ticket[t] EXCEPT !.status = "resolved", !.resolved = "recent"]
      <4>1. row \in Rows /\ row.ref = ticket[t].ref
        BY <2>2 DEF Rows, Statuses, Dates
      <4>2. SaveRow(t, row)
        BY <3>2 DEF Resolve, Act
      <4> QED
        BY <4>1, <4>2
    <3>3. CASE Close(t)
      <4> DEFINE row == [ticket[t] EXCEPT !.status = "closed", !.closed = "recent"]
      <4>1. row \in Rows /\ row.ref = ticket[t].ref
        BY <2>2 DEF Rows, Statuses, Dates
      <4>2. SaveRow(t, row)
        BY <3>3 DEF Close, Act
      <4> QED
        BY <4>1, <4>2
    <3>4. CASE Reopen(t)
      BY <2>2, <3>4, ReopenedIsRow DEF Reopen, Act
    <3>5. ASSUME NEW status \in Statuses, Patch(t, status)
          PROVE \E row \in Rows : SaveRow(t, row) /\ row.ref = ticket[t].ref
      BY <2>2, <3>5 DEF Patch, Act, Rows
    <3> QED
      BY <1>8, <3>1, <3>2, <3>3, <3>4, <3>5
  <2> QED
    BY <2>3, SavedKeepsRows DEF RowsMove
<1>9. ASSUME NEW t \in Ids, Destroy(t) PROVE RowsMove
  <2>1. t \in Exists /\ ticket[t] \in Rows
    BY <1>9, ExistIsRow DEF Destroy, Typed
  <2> DEFINE row == [ticket[t] EXCEPT !.status = "deleted"]
  <2>2. /\ row \in Rows /\ row.ref = ticket[t].ref /\ t \in Ids
        /\ ticket' = [ticket EXCEPT ![t] = row]
    BY <1>9, <2>1 DEF Destroy, Typed, RowsTyped, Rows
  <2>3. ended' \in [Ids -> Dates]
    BY <1>9 DEF Destroy, Typed, RowsTyped, Dates
  <2> HIDE DEF row
  <2> QED
    BY <2>1, <2>2, <2>3 DEF Typed, RowsTyped, Exists, Born, RowsKept, RowsMove
<1>10. CASE Age
  <2> DEFINE Older(date) == IF date = "recent" THEN "old" ELSE date
             Aged(t) == [ticket[t] EXCEPT !.resolved = Older(@), !.closed = Older(@),
                                          !.updated = Older(@)]
  <2>1. ticket' = [t \in Ids |-> IF t \notin Born THEN ticket[t] ELSE Aged(t)]
    BY <1>10 DEF Age
  <2>2. ASSUME NEW t \in Born
        PROVE /\ Aged(t) \in Rows /\ Aged(t).ref = ticket[t].ref
              /\ Aged(t).status = ticket[t].status
    <3>1. ticket[t] \in Rows
      BY <2>2 DEF Typed, RowsTyped, Born
    <3> QED
      BY <3>1, TicketsAssumption DEF Rows, Dates
  <2>3. ended' \in [Ids -> Dates]
    BY <1>10 DEF Age, Typed, RowsTyped, Dates
  <2> HIDE DEF Aged
  <2> QED
    BY <2>1, <2>2, <2>3 DEF Typed, RowsTyped, Exists, Born, RowsKept, RowsMove
<1>11. CASE UNCHANGED vars
  BY <1>11, SameKeepsRows DEF vars, RowsMove
<1> QED
  BY <1>1, <1>2, <1>3, <1>4, <1>5, <1>6, <1>7, <1>8, <1>9, <1>10, <1>11 DEF Next

(* Two tickets never come to share a reference.                            *)
LEMMA OwnReferenceNext == Typed /\ RowsMove => OwnReference'
<1> SUFFICES ASSUME Typed, RowsMove PROVE OwnReference'
  OBVIOUS
<1>1. CASE RowsKept
  BY <1>1 DEF RowsKept, Typed, OwnReference
<1>2. ASSUME NEW ref, RowAdded(ref) PROVE OwnReference'
  BY <1>2 DEF RowAdded, Refs, Typed, OwnReference
<1> QED
  BY <1>1, <1>2 DEF RowsMove

-----------------------------------------------------------------------------

Steps == {"idle", "read", "insert", "write", "commit", "bulk"}

(* What a process goes on with is typed, and so are all.                   *)
LEMMA GotoKeepsProcs ==
  ASSUME Typed, NEW p \in Procs, NEW step \in Steps, NEW j, Goto(p, step, j),
         j \in Jobs \/ (j = None /\ step = "idle"),
         step \in {"write", "bulk"} => j.ticket \in Ids,
         step = "bulk" => j.row \in Rows /\ j.status \in Statuses
  PROVE  ProcsTyped'
BY DEF Typed, ProcsTyped, InHandIsReal, Goto, Steps

(* A request that ends leaves its process typed.                           *)
LEMMA ReturnKeepsProcs == ASSUME Typed, NEW p \in Procs, Return(p) PROVE ProcsTyped'
BY GotoKeepsProcs DEF Return, Steps

(* A step of no process leaves them typed.                                 *)
LEMMA SameKeepsProcs == ASSUME Typed, UNCHANGED procs PROVE ProcsTyped'
BY DEF Typed, ProcsTyped, InHandIsReal, procs

(* A process under way has a job.                                          *)
LEMMA HasJob ==
  ASSUME Typed, NEW p \in Procs, pc[p] # "idle" PROVE job[p] \in Jobs
BY DEF Typed, ProcsTyped, InHandIsReal

(* The counter counts on.                                                  *)
LEMMA NextNumber == Typed => counter \in References /\ counter + 1 \in References
BY DEF Typed, CountsTyped, References

(* Every step keeps what processes do, and have in hand, typed.            *)
LEMMA ProcsNext == Typed /\ [Next]_vars => ProcsTyped'
<1> SUFFICES ASSUME Typed, [Next]_vars PROVE ProcsTyped'
  OBVIOUS
<1>1. ASSUME NEW p \in Procs, Count(p) PROVE ProcsTyped'
  BY <1>1, NewJobIsJob, GotoKeepsProcs DEF Count, Begin, Steps
<1>2. ASSUME NEW p \in Procs, ReadCounter(p) PROVE ProcsTyped'
  <2>1. [job[p] EXCEPT !.ref = counter] \in Jobs
    BY <1>2, HasJob, NextNumber, OpeningIsJob DEF ReadCounter
  <2> QED
    BY <1>2, <2>1, GotoKeepsProcs DEF ReadCounter, Steps
<1>3. ASSUME NEW p \in Procs, Insert(p) \/ Commit(p) \/ BulkSave(p) PROVE ProcsTyped'
  BY <1>3, ReturnKeepsProcs DEF Insert, Commit, BulkSave
<1>4. ASSUME NEW p \in Procs, NEW j \in Jobs, OpenTicket(p, j) PROVE ProcsTyped'
  <2>1. [j EXCEPT !.ref = counter + 1] \in Jobs
    BY NextNumber, OpeningIsJob
  <2> QED
    BY <1>4, <2>1, GotoKeepsProcs DEF OpenTicket, Steps
<1>5. ASSUME NEW p \in Procs, FirstMessage(p) PROVE ProcsTyped'
  <2>1. [NewJob(None) EXCEPT !.by = "page"] \in Jobs
    BY NewJobIsJob DEF Jobs
  <2> QED
    BY <1>4, <1>5, <2>1 DEF FirstMessage
<1>6. ASSUME NEW p \in Procs, WriteMessage(p) PROVE ProcsTyped'
  <2>1. Return(p) \/ OpenTicket(p, job[p])
    BY <1>6 DEF WriteMessage, Take, TurnAway
  <2>2. job[p] \in Jobs
    BY <1>6, HasJob DEF WriteMessage
  <2> QED
    BY <1>4, <2>1, <2>2, ReturnKeepsProcs
<1>7. ASSUME NEW p \in Procs, NEW t \in Ids, NEW by \in {"page", "mail"}, Find(p, t, by)
      PROVE ProcsTyped'
  <2> DEFINE j == [NewJob(t) EXCEPT !.by = by, !.row = ticket[t]]
  <2>1. ticket[t] \in Rows
    BY <1>7, ExistIsRow DEF Find, Typed
  <2>2. j \in Jobs /\ j.ticket = t
    BY <2>1, NewJobIsJob DEF Jobs, NewJob
  <2>3. Goto(p, "write", j)
    BY <1>7 DEF Find, Begin
  <2> HIDE DEF j
  <2> QED
    BY <2>2, <2>3, GotoKeepsProcs DEF Steps
<1>8. ASSUME NEW p \in Procs, NEW t \in Ids, NEW status \in Statuses,
             BulkUpdate(p, t, status) PROVE ProcsTyped'
  <2> DEFINE j == [NewJob(t) EXCEPT !.row = ticket[t], !.status = status]
  <2>1. ticket[t] \in Rows
    BY <1>8, ExistIsRow DEF BulkUpdate, Typed
  <2>2. j \in Jobs /\ j.ticket = t /\ j.row \in Rows /\ j.status \in Statuses
    BY <2>1, NewJobIsJob DEF Jobs, NewJob
  <2>3. Goto(p, "bulk", j)
    BY <1>8 DEF BulkUpdate
  <2> HIDE DEF j
  <2> QED
    BY <2>2, <2>3, GotoKeepsProcs DEF Steps
<1>9. ASSUME NEW t \in Ids, Assign(t) \/ Resolve(t) \/ Close(t) \/ Reopen(t) \/ Destroy(t)
             \/ \E status \in Statuses : Patch(t, status)
      PROVE ProcsTyped'
  BY <1>9, SameKeepsProcs DEF Assign, Resolve, Close, Reopen, Destroy, Patch, Act
<1>10. CASE Age
  BY <1>10, SameKeepsProcs DEF Age
<1>11. CASE UNCHANGED vars
  BY <1>11, SameKeepsProcs DEF vars, procs
<1> QED
  BY <1>1, <1>2, <1>3, <1>5, <1>6, <1>7, <1>8, <1>9, <1>10, <1>11 DEF Next

-----------------------------------------------------------------------------

(* How the counter and its row move: nobody touches them, or an increment  *)
(* commits at once, or one takes the row, or gives it back.                *)
Bystander ==
  /\ counter' = counter /\ rowLock' = rowLock
  /\ \A p \in Procs :
       /\ pc'[p] = "commit" => pc[p] = "commit" /\ job'[p] = job[p]
       /\ pc'[p] = "insert" => \/ pc[p] = "insert" /\ job'[p] = job[p]
                              \/ job'[p].ref = counter

CounterMove ==
  Bystander \/ \E p \in Procs : Count(p) \/ Commit(p) \/ \E j \in Jobs : OpenTicket(p, j)

(* A request that goes on without a number leaves others theirs.           *)
LEMMA GotoIsBystander ==
  ASSUME Typed, NEW p \in Procs, NEW step \in Steps \ {"insert", "commit"}, NEW j,
         Goto(p, step, j), UNCHANGED org
  PROVE  Bystander
BY DEF Typed, ProcsTyped, Goto, org, Bystander

(* A step that touches neither counter nor processes is one too.           *)
LEMMA SameIsBystander == ASSUME Typed, UNCHANGED <<org, procs>> PROVE Bystander
BY DEF org, procs, Bystander

(* Every step but these leaves the counter and who holds it alone.         *)
LEMMA CounterNext == Typed /\ [Next]_vars => CounterMove
<1> SUFFICES ASSUME Typed, [Next]_vars PROVE CounterMove
  OBVIOUS
<1>1. ASSUME NEW p \in Procs, Count(p) \/ Commit(p) PROVE CounterMove
  BY <1>1 DEF CounterMove
<1>2. ASSUME NEW p \in Procs, ReadCounter(p) PROVE CounterMove
  <2>1. job[p] \in Jobs /\ counter \in References
    BY <1>2, HasJob, NextNumber DEF ReadCounter
  <2>2. [job[p] EXCEPT !.ref = counter].ref = counter
    BY <2>1, OpeningIsJob
  <2> QED
    BY <1>2, <2>2 DEF ReadCounter, Goto, org, Typed, ProcsTyped, Bystander, CounterMove
<1>3. ASSUME NEW p \in Procs, Insert(p) \/ BulkSave(p) PROVE CounterMove
  <2>1. Return(p) /\ UNCHANGED org
    BY <1>3 DEF Insert, BulkSave, SaveRow
  <2> QED
    BY <2>1, GotoIsBystander DEF Return, Steps, CounterMove
<1>4. ASSUME NEW p \in Procs, FirstMessage(p) PROVE CounterMove
  <2>1. [NewJob(None) EXCEPT !.by = "page"] \in Jobs
    BY NewJobIsJob DEF Jobs
  <2> QED
    BY <1>4, <2>1 DEF FirstMessage, CounterMove
<1>5. ASSUME NEW p \in Procs, WriteMessage(p) PROVE CounterMove
  <2>1. job[p] \in Jobs
    BY <1>5, HasJob DEF WriteMessage
  <2>2. OpenTicket(p, job[p]) \/ (Return(p) /\ UNCHANGED org)
    BY <1>5 DEF WriteMessage, Take, TurnAway
  <2> QED
    BY <2>1, <2>2, GotoIsBystander DEF Return, Steps, CounterMove
<1>6. ASSUME NEW p \in Procs, NEW t \in Ids, NEW by \in {"page", "mail"}, Find(p, t, by)
      PROVE CounterMove
  BY <1>6, GotoIsBystander DEF Find, Begin, Steps, CounterMove
<1>7. ASSUME NEW p \in Procs, NEW t \in Ids, NEW status \in Statuses,
             BulkUpdate(p, t, status) PROVE CounterMove
  BY <1>7, GotoIsBystander DEF BulkUpdate, Steps, CounterMove
<1>8. ASSUME NEW t \in Ids, Assign(t) \/ Resolve(t) \/ Close(t) \/ Reopen(t) \/ Destroy(t)
             \/ \E status \in Statuses : Patch(t, status)
      PROVE CounterMove
  BY <1>8, SameIsBystander
  DEF Assign, Resolve, Close, Reopen, Destroy, Patch, Act, SaveRow, CounterMove
<1>9. CASE Age
  BY <1>9, SameIsBystander DEF Age, CounterMove
<1>10. CASE UNCHANGED vars
  BY <1>10, SameIsBystander DEF vars, org, procs, CounterMove
<1> QED
  BY <1>1, <1>2, <1>3, <1>4, <1>5, <1>6, <1>7, <1>8, <1>9, <1>10 DEF Next

(* The types of the counter, of the bounds and of the history.             *)
LEMMA CountsNext == Typed /\ [Next]_vars => CountsTyped'
<1> SUFFICES ASSUME Typed, [Next]_vars PROVE CountsTyped'
  OBVIOUS
<1> USE DEF Typed, CountsTyped
<1>1. ASSUME NEW p \in Procs, Count(p) PROVE CountsTyped'
  BY <1>1, TicketsAssumption DEF Count, Begin, messages, References
<1>2. ASSUME NEW p \in Procs, ReadCounter(p) \/ Insert(p) PROVE CountsTyped'
  BY <1>2 DEF ReadCounter, Insert, org, messages
<1>3. ASSUME NEW p \in Procs, FirstMessage(p) PROVE CountsTyped'
  BY <1>3, TicketsAssumption DEF FirstMessage, OpenTicket, messages
<1>4. ASSUME NEW p \in Procs, Commit(p) PROVE CountsTyped'
  <2>1. job[p].ref \in References
    BY <1>4, HasJob DEF Commit, Jobs
  <2>2. took' \in [Ids -> Nat]
    BY <1>4 DEF Commit
  <2> QED
    BY <1>4, <2>1, <2>2 DEF Commit
<1>5. ASSUME NEW p \in Procs, WriteMessage(p) PROVE CountsTyped'
  <2>1. counter' = counter /\ rowLock' \in Procs \cup {None}
    BY <1>5 DEF WriteMessage, Take, TurnAway, OpenTicket, org
  <2>2. took' \in [Ids -> Nat] /\ turned' \in [Ids -> Nat]
    BY <1>5 DEF WriteMessage, Take, TurnAway
  <2> QED
    BY <1>5, <2>1, <2>2 DEF WriteMessage
<1>6. ASSUME NEW cond, NEW f, FaultIf(cond, f) PROVE happened' \in SUBSET Faults
  BY <1>6 DEF FaultIf
<1>7. ASSUME Edit PROVE requests' = requests /\ edits' \in 0 .. MaxEdits
  BY <1>7, TicketsAssumption DEF Edit
<1>8. ASSUME NEW p \in Procs, BulkSave(p) PROVE CountsTyped'
  <2>1. happened' \in SUBSET Faults
    BY <1>6, <1>8 DEF BulkSave
  <2>2. UNCHANGED <<counter, rowLock, requests, edits, took, turned>>
    BY <1>8 DEF BulkSave, SaveRow, org, messages
  <2> QED
    BY <2>1, <2>2
<1>9. ASSUME NEW p \in Procs, NEW t \in Ids, NEW by \in {"page", "mail"}, Find(p, t, by)
      PROVE CountsTyped'
  BY <1>9, TicketsAssumption DEF Find, Begin, org, messages
<1>10. ASSUME NEW p \in Procs, NEW t \in Ids, NEW status \in Statuses,
              BulkUpdate(p, t, status) PROVE CountsTyped'
  BY <1>7, <1>10 DEF BulkUpdate, org, messages
<1>11. ASSUME NEW t \in Ids, Assign(t) \/ Resolve(t) \/ Close(t) \/ Reopen(t)
       PROVE CountsTyped'
  BY <1>7, <1>11 DEF Assign, Resolve, Close, Reopen, Act, SaveRow, org, messages
<1>12. ASSUME NEW t \in Ids, NEW status \in Statuses, Patch(t, status) PROVE CountsTyped'
  <2>1. happened' \in SUBSET Faults
    BY <1>6, <1>12 DEF Patch
  <2> QED
    BY <1>7, <1>12, <2>1 DEF Patch, Act, SaveRow, org, messages
<1>13. ASSUME NEW t \in Ids, Destroy(t) PROVE CountsTyped'
  BY <1>7, <1>13 DEF Destroy, org, messages
<1>14. CASE Age
  BY <1>7, <1>14 DEF Age, org, messages
<1>15. CASE UNCHANGED vars
  BY <1>15 DEF vars
<1> QED
  BY <1>1, <1>2, <1>3, <1>4, <1>5, <1>8, <1>9, <1>10, <1>11, <1>12, <1>13, <1>14, <1>15
  DEF Next

-----------------------------------------------------------------------------

(* Whoever has incremented the counter is alone to have: the lock of its   *)
(* row is one's, and a number taken outside a transaction waits for it.    *)
LEMMA LockNext == IInv /\ CounterMove => LockNumbers'
<1> SUFFICES ASSUME IInv, CounterMove PROVE LockNumbers'
  OBVIOUS
<1> USE DEF IInv, LockNumbers
<1>1. CASE Bystander
  BY <1>1 DEF Bystander
<1>2. ASSUME NEW p \in Procs, Count(p) PROVE LockNumbers'
  BY <1>2, TicketsAssumption DEF Count, RowFree, Begin, Goto, Typed, ProcsTyped
<1>3. ASSUME NEW p \in Procs, Commit(p) PROVE LockNumbers'
  BY <1>3 DEF Commit, Return, Goto, Typed, ProcsTyped
<1>4. ASSUME NEW p \in Procs, NEW j \in Jobs, OpenTicket(p, j) PROVE LockNumbers'
  <2>1. [j EXCEPT !.ref = counter + 1].ref = counter + 1
    BY NextNumber, OpeningIsJob
  <2> QED
    BY <1>4, <2>1, TicketsAssumption DEF OpenTicket, RowFree, Goto, Typed, ProcsTyped
<1> QED
  BY <1>1, <1>2, <1>3, <1>4 DEF CounterMove

(* No reference passes the counter, that only grows.                       *)
LEMMA CountedNext == IInv /\ RowsMove /\ CounterMove /\ CountsTyped' => Counted'
<1> SUFFICES ASSUME IInv, RowsMove, CounterMove, CountsTyped' PROVE Counted'
  OBVIOUS
<1>1. counter \in Nat /\ counter' \in Nat
  BY DEF IInv, Typed, CountsTyped, References
<1>2. counter <= counter'
  <2>1. ASSUME NEW p \in Procs, Commit(p) PROVE counter <= counter'
    BY <1>1, <2>1 DEF Commit, IInv, LockNumbers
  <2>2. ASSUME NEW p \in Procs, Count(p) PROVE counter <= counter'
    BY <1>1, <2>2 DEF Count
  <2>3. ASSUME NEW p \in Procs, NEW j \in Jobs, OpenTicket(p, j) PROVE counter <= counter'
    BY <1>1, <2>3 DEF OpenTicket
  <2>4. CASE Bystander
    BY <1>1, <2>4 DEF Bystander
  <2> QED
    BY <2>1, <2>2, <2>3, <2>4 DEF CounterMove
<1>3. \A t \in Exists : ticket[t].ref \in Nat
  BY ExistIsRow DEF IInv, Typed, Rows, References
<1>4. \A p \in Procs : pc[p] # "idle" => job[p].ref \in Nat
  BY HasJob DEF IInv, Jobs, References
<1>5. \A t \in Exists' : ticket'[t].ref <= counter'
  <2>1. CASE RowsKept
    BY <1>1, <1>2, <1>3, <2>1 DEF RowsKept, IInv, Counted
  <2>2. ASSUME NEW p \in Procs, RowAdded(job[p].ref),
               \/ pc[p] = "insert" /\ counter' = counter
               \/ pc[p] = "commit" /\ counter' = job[p].ref
        PROVE \A t \in Exists' : ticket'[t].ref <= counter'
    <3>1. job[p].ref <= counter'
      BY <1>1, <1>4, <2>2 DEF IInv, Counted
    <3> QED
      BY <1>1, <1>2, <1>3, <2>2, <3>1 DEF RowAdded, IInv, Counted
  <2> QED
    BY <2>1, <2>2 DEF RowsMove
<1>6. ASSUME NEW q \in Procs, pc'[q] = "insert" PROVE job'[q].ref <= counter'
  <2>1. CASE Bystander
    BY <1>1, <1>6, <2>1 DEF Bystander, IInv, Counted
  <2>2. CASE ~Bystander
    <3>1. pc[q] = "insert" /\ job'[q] = job[q]
      BY <1>6, <2>2
      DEF CounterMove, Count, Begin, Commit, Return, OpenTicket, Goto, IInv, Typed, ProcsTyped
    <3> QED
      BY <1>1, <1>2, <1>4, <3>1 DEF IInv, Counted
  <2> QED
    BY <2>1, <2>2
<1> QED
  BY <1>5, <1>6 DEF Counted

-----------------------------------------------------------------------------

(* Rows that did not end, and those of before with more faults since.      *)
LEMMA NotEndedIsDated ==
  ASSUME NEW row \in Rows, row.status \notin Ends, NEW F
  PROVE  DatedRow(row, None, F)
BY TicketsAssumption DEF DatedRow

(* A row dated with some faults excused is with more of them.              *)
LEMMA StaysDated ==
  ASSUME NEW row \in Rows, NEW when, NEW F, NEW G, F \subseteq G, DatedRow(row, when, F)
  PROVE  DatedRow(row, when, G)
BY DEF DatedRow

(* Faults that happened stay so.                                           *)
LEMMA FaultsAdd ==
  ASSUME NEW cond, NEW f, FaultIf(cond, f)
  PROVE  happened \subseteq happened' /\ (cond => f \in happened')
BY DEF FaultIf

(* A ticket others touch stays dated, whatever fault happens.              *)
LEMMA OthersDated ==
  ASSUME Typed, Dated, happened \subseteq happened', NEW t \in Ids,
         ticket'[t] = ticket[t], ended'[t] = ended[t]
  PROVE  IF t \in Exists' THEN DatedRow(ticket'[t], ended'[t], happened')
         ELSE ended'[t] = None
<1>1. t \in Exists' <=> t \in Exists
  BY DEF Exists, Born
<1>2. CASE t \in Exists
  BY <1>1, <1>2, ExistIsRow, StaysDated DEF Typed, Dated
<1> QED
  BY <1>1, <1>2 DEF Dated

(* So does every ticket, of a step that touches none.                      *)
LEMMA SameKeepsDated ==
  ASSUME Typed, Dated, ticket' = ticket, ended' = ended, happened \subseteq happened'
  PROVE  Dated'
BY OthersDated DEF Dated

(* A ticket that an agent saves stays dated if, ended, it has a date, and  *)
(* a recent one unless it is as it was: or else a fault happens.           *)
LEMMA SavedIsDated ==
  ASSUME Typed, Dated, happened \subseteq happened',
         NEW t \in Ids, NEW row \in Rows, SaveRow(t, row),
         row.status \in Ends /\ "undated" \notin happened' =>
           {row.resolved, row.closed} # {None},
         row.status \in Ends /\ "kept" \notin happened' =>
           \/ "recent" \in {row.resolved, row.closed}
           \/ {row.resolved, row.closed} = {None}
           \/ /\ row.status = ticket[t].status
              /\ row.resolved = ticket[t].resolved /\ row.closed = ticket[t].closed
  PROVE  Dated'
<1> DEFINE new == [row EXCEPT !.updated = "recent"]
           old == ticket[t]
<1>1. /\ t \in Exists /\ old \in Rows
      /\ ticket' = [ticket EXCEPT ![t] = new]
      /\ \A u \in Ids \ {t} : ended'[u] = ended[u]
      /\ ended'[t] = IF row.status \notin Ends THEN None
                     ELSE IF EndsNow(t, row) THEN "recent" ELSE ended[t]
  BY ExistIsRow DEF SaveRow, Typed, RowsTyped
<1>2. /\ new \in Rows /\ new.status = row.status /\ new.updated = "recent"
      /\ new.resolved = row.resolved /\ new.closed = row.closed
  BY TicketsAssumption DEF Rows, Dates
<1>3. DatedRow(old, ended[t], happened)
  BY <1>1 DEF Dated
<1>4. /\ row.resolved \in Dates /\ row.closed \in Dates
      /\ old.resolved \in Dates /\ old.closed \in Dates
  BY <1>1 DEF Rows
<1> HIDE DEF new, old
<1>5. ASSUME row.status \in Ends PROVE DatedRow(new, ended'[t], happened')
  <2>1. CASE EndsNow(t, row)
    <3>1. ended'[t] = "recent"
      BY <1>1, <1>5, <2>1
    <3>2. "kept" \notin happened' => EndDate(new) # "old"
      BY <1>2, <1>4, <1>5, <2>1, TicketsAssumption DEF EndDate, EndsNow, Dates, old
    <3> QED
      BY <1>2, <1>5, <3>1, <3>2, TicketsAssumption DEF DatedRow
  <2>2. CASE ~EndsNow(t, row)
    <3>1. ended'[t] = ended[t] /\ row.status = old.status
      BY <1>1, <1>5, <2>2 DEF EndsNow, old
    <3>2. "recent" \in {row.resolved, row.closed} => "recent" \in {old.resolved, old.closed}
      BY <2>2 DEF EndsNow, old
    <3>3. "undated" \notin happened' /\ EndDate(new) = "recent" => ended[t] = "recent"
      <4> SUFFICES ASSUME "undated" \notin happened', EndDate(new) = "recent"
                   PROVE ended[t] = "recent"
        OBVIOUS
      <4>1. "recent" \in {row.resolved, row.closed}
        BY <1>2, <1>4, <1>5, TicketsAssumption DEF EndDate, Dates
      <4>2. EndDate(old) = "recent"
        BY <3>2, <4>1 DEF EndDate
      <4> QED
        BY <1>3, <1>5, <3>1, <4>2 DEF DatedRow
    <3>4. "kept" \notin happened' /\ EndDate(new) = "old" => ended[t] = "old"
      <4> SUFFICES ASSUME "kept" \notin happened', EndDate(new) = "old"
                   PROVE ended[t] = "old"
        OBVIOUS
      <4>1. "recent" \notin {row.resolved, row.closed} /\ "old" \in {row.resolved, row.closed}
        BY <1>2, <1>4, TicketsAssumption DEF EndDate, Dates
      <4>2. row.resolved = old.resolved /\ row.closed = old.closed
        BY <1>5, <4>1, TicketsAssumption DEF old
      <4>3. EndDate(old) = "old"
        BY <4>1, <4>2 DEF EndDate
      <4> QED
        BY <1>3, <1>5, <3>1, <4>3 DEF DatedRow
    <3>5. ended[t] # None
      BY <1>3, <1>5, <3>1 DEF DatedRow
    <3> QED
      BY <1>2, <1>5, <3>1, <3>3, <3>4, <3>5 DEF DatedRow
  <2> QED
    BY <2>1, <2>2
<1>6. ASSUME row.status \notin Ends PROVE DatedRow(new, ended'[t], happened')
  BY <1>1, <1>2, <1>6, NotEndedIsDated
<1>7. DatedRow(new, ended'[t], happened')
  BY <1>5, <1>6
<1>8. \A u \in Ids \ {t} : ticket'[u] = ticket[u]
  BY <1>1 DEF Typed, RowsTyped
<1>9. ticket'[t] = new /\ (t \in Exists' \/ ended'[t] = None)
  <2>1. ticket'[t] = new
    BY <1>1 DEF Typed, RowsTyped
  <2>2. CASE row.status = "deleted"
    BY <1>1, <2>1, <2>2 DEF Ends
  <2>3. CASE row.status # "deleted"
    BY <1>2, <2>1, <2>3, NoneAssumption DEF Exists, Born
  <2> QED
    BY <2>1, <2>2, <2>3
<1> QED
  BY <1>1, <1>7, <1>8, <1>9, OthersDated DEF Dated

(* Every step keeps the tickets dated.                                     *)
LEMMA DatedNext == Typed /\ Dated /\ [Next]_vars => Dated'
<1> SUFFICES ASSUME Typed, Dated, [Next]_vars PROVE Dated'
  OBVIOUS
<1>1. ASSUME NEW p \in Procs, Count(p) \/ ReadCounter(p) \/ FirstMessage(p) PROVE Dated'
  BY <1>1, SameKeepsDated DEF Count, ReadCounter, FirstMessage
<1>2. ASSUME NEW ref \in References, NEW t \in NextTickets, happened' = happened,
             ended' = ended, ticket' = [ticket EXCEPT ![t] = NewTicket(ref)]
      PROVE Dated'
  <2>1. t \in Ids /\ ended'[t] = None /\ ticket'[t] = NewTicket(ref)
    BY <1>2 DEF NextTickets, Unborn, Dated, Exists, Typed, RowsTyped
  <2>2. DatedRow(ticket'[t], ended'[t], happened')
    BY <2>1, NewTicketIsRow, NotEndedIsDated DEF NewTicket, Ends
  <2>3. \A u \in Ids \ {t} : ticket'[u] = ticket[u]
    BY <1>2 DEF Typed, RowsTyped
  <2> QED
    BY <1>2, <2>1, <2>2, <2>3, OthersDated DEF Dated
<1>3. ASSUME NEW p \in Procs, Insert(p) \/ Commit(p) PROVE Dated'
  <2>1. job[p].ref \in References
    BY <1>3, HasJob DEF Insert, Commit, Jobs
  <2>2. /\ happened' = happened /\ ended' = ended
        /\ \/ ticket' = ticket
           \/ \E t \in NextTickets : ticket' = [ticket EXCEPT ![t] = NewTicket(job[p].ref)]
    BY <1>3 DEF Insert, Commit
  <2> QED
    BY <1>2, <2>1, <2>2, SameKeepsDated
<1>4. ASSUME NEW p \in Procs, WriteMessage(p) PROVE Dated'
  <2> DEFINE t == job[p].ticket
  <2>1. happened' = happened
    BY <1>4 DEF WriteMessage
  <2>2. CASE ended' = ended /\ ticket' = ticket
    BY <2>1, <2>2, SameKeepsDated
  <2>3. CASE /\ t \in Exists /\ ticket' = [ticket EXCEPT ![t] = Reopened(ticket[t])]
             /\ ended' = [ended EXCEPT ![t] = None]
    <3>1. t \in Ids /\ ticket[t] \in Rows
      BY <2>3, ExistIsRow DEF Typed
    <3>2. ticket'[t] = Reopened(ticket[t]) /\ ended'[t] = None
      BY <2>3, <3>1 DEF Typed, RowsTyped
    <3>3. Reopened(ticket[t]) \in Rows /\ Reopened(ticket[t]).status \notin Ends
      BY <3>1, ReopenedIsRow DEF Reopened, Rows, Ends
    <3>4. DatedRow(ticket'[t], ended'[t], happened')
      BY <3>2, <3>3, NotEndedIsDated
    <3>5. \A u \in Ids \ {t} : ticket'[u] = ticket[u] /\ ended'[u] = ended[u]
      BY <2>3 DEF Typed, RowsTyped
    <3> QED
      BY <2>1, <3>1, <3>2, <3>4, <3>5, OthersDated DEF Dated
  <2>4. CASE TurnAway(p, t)
    BY <2>2, <2>4 DEF TurnAway
  <2>5. CASE t \in Exists /\ Take(p, t)
    <3>1. CASE Current(p).status \in Ends
      BY <2>3, <2>5, <3>1 DEF Take, Current
    <3>2. CASE Current(p).status \notin Ends
      <4>1. ticket' = ticket /\ ended' = ended
        BY <2>5, <3>2 DEF Take, Typed, RowsTyped
      <4> QED
        BY <2>2, <4>1
    <3> QED
      BY <3>1, <3>2
  <2> QED
    BY <1>4, <2>4, <2>5 DEF WriteMessage
<1>5. ASSUME NEW p \in Procs, BulkSave(p) PROVE Dated'
  <2> DEFINE t == job[p].ticket
             read == job[p].row
             status == job[p].status
             row == BulkRow(t, read, status)
  <2>1. t \in Ids /\ read \in Rows /\ status \in Statuses
    BY <1>5 DEF BulkSave, Typed, ProcsTyped, InHandIsReal
  <2>2. CASE t \notin Exists
    BY <1>5, <2>2, SameKeepsDated DEF BulkSave
  <2>3. CASE t \in Exists
    <3>1. /\ SaveRow(t, row)
          /\ FaultIf(<<status, "old">> \in {<<"resolved", read.resolved>>,
                                            <<"closed", read.closed>>}, "kept")
      BY <1>5, <2>3 DEF BulkSave
    <3>2. ticket[t] \in Rows
      BY <2>3, ExistIsRow DEF Typed
    <3>3. row \in Rows
      BY <2>1, <3>2, BulkIsRow
    <3>4. /\ happened \subseteq happened'
          /\ "kept" \notin happened' /\ status = "resolved" => read.resolved # "old"
          /\ "kept" \notin happened' /\ status = "closed" => read.closed # "old"
      BY <3>1, FaultsAdd
    <3>5. row.status \in Ends =>
            \/ status = "resolved" /\ row.resolved = OrNow(read.resolved)
            \/ status = "closed" /\ row.closed = OrNow(read.closed)
      <4>1. CASE status = "open"
        <5>1. row.status = "open"
          BY <3>2, <4>1 DEF BulkRow, Reopened, Rows
        <5> QED
          BY <5>1 DEF Ends
      <4>2. CASE status # "open"
        BY <2>1, <3>2, <4>2 DEF BulkRow, Rows, Statuses, Ends
      <4> QED
        BY <4>1, <4>2
    <3>6. read.resolved \in Dates /\ read.closed \in Dates
      BY <2>1 DEF Rows
    <3> HIDE DEF row, read, status, t
    <3>7. row.status \in Ends => {row.resolved, row.closed} # {None}
      BY <3>5, TicketsAssumption DEF OrNow
    <3>8. row.status \in Ends /\ "kept" \notin happened' =>
            "recent" \in {row.resolved, row.closed}
      BY <3>4, <3>5, <3>6 DEF OrNow, Dates
    <3> QED
      BY <2>1, <3>1, <3>3, <3>4, <3>7, <3>8, SavedIsDated
  <2> QED
    BY <2>2, <2>3
<1>6. ASSUME NEW p \in Procs, NEW t \in Ids, NEW by \in {"page", "mail"}, Find(p, t, by)
      PROVE Dated'
  BY <1>6, SameKeepsDated DEF Find
<1>7. ASSUME NEW p \in Procs, NEW t \in Ids, NEW status \in Statuses,
             BulkUpdate(p, t, status) PROVE Dated'
  BY <1>7, SameKeepsDated DEF BulkUpdate
<1>8. ASSUME NEW t \in Ids, Assign(t) \/ Resolve(t) \/ Close(t) \/ Reopen(t) PROVE Dated'
  <2>1. t \in Exists /\ happened' = happened
    BY <1>8 DEF Assign, Resolve, Close, Reopen, Act
  <2>2. ticket[t] \in Rows
    BY <2>1, ExistIsRow DEF Typed
  <2>3. PICK row \in Rows :
          /\ SaveRow(t, row)
          /\ row.status \in Ends => "recent" \in {row.resolved, row.closed}
    <3>1. CASE Assign(t)
      <4> DEFINE row == [ticket[t] EXCEPT !.status = "in_progress"]
      <4>1. row \in Rows /\ row.status \notin Ends
        BY <2>2 DEF Rows, Statuses, Ends
      <4>2. SaveRow(t, row)
        BY <3>1 DEF Assign, Act
      <4> QED
        BY <4>1, <4>2
    <3>2. CASE Resolve(t)
      <4> DEFINE row == [ticket[t] EXCEPT !.status = "resolved", !.resolved = "recent"]
      <4>1. row \in Rows /\ row.resolved = "recent"
        BY <2>2 DEF Rows, Statuses, Dates
      <4>2. SaveRow(t, row)
        BY <3>2 DEF Resolve, Act
      <4> QED
        BY <4>1, <4>2
    <3>3. CASE Close(t)
      <4> DEFINE row == [ticket[t] EXCEPT !.status = "closed", !.closed = "recent"]
      <4>1. row \in Rows /\ row.closed = "recent"
        BY <2>2 DEF Rows, Statuses, Dates
      <4>2. SaveRow(t, row)
        BY <3>3 DEF Close, Act
      <4> QED
        BY <4>1, <4>2
    <3>4. CASE Reopen(t)
      <4>1. Reopened(ticket[t]) \in Rows /\ Reopened(ticket[t]).status \notin Ends
        BY <2>2, ReopenedIsRow DEF Reopened, Rows, Ends
      <4>2. SaveRow(t, Reopened(ticket[t]))
        BY <3>4 DEF Reopen, Act
      <4> QED
        BY <4>1, <4>2
    <3> QED
      BY <1>8, <3>1, <3>2, <3>3, <3>4
  <2>4. row.status \in Ends => {row.resolved, row.closed} # {None}
    BY <2>3, TicketsAssumption
  <2> QED
    BY <2>1, <2>3, <2>4, SavedIsDated
<1>9. ASSUME NEW t \in Ids, NEW status \in Statuses, Patch(t, status) PROVE Dated'
  <2> DEFINE row == [ticket[t] EXCEPT !.status = status]
             dates == {ticket[t].resolved, ticket[t].closed}
             ends == status \in Ends /\ status # ticket[t].status
  <2>1. /\ t \in Exists /\ SaveRow(t, row)
        /\ IF dates = {None} THEN FaultIf(ends, "undated")
           ELSE FaultIf(ends /\ "recent" \notin dates, "kept")
    BY <1>9 DEF Patch, Act
  <2>2. /\ row \in Rows /\ row.status = status
        /\ row.resolved = ticket[t].resolved /\ row.closed = ticket[t].closed
    BY <2>1, ExistIsRow DEF Typed, Rows
  <2>3. happened \subseteq happened'
    BY <2>1, FaultsAdd
  <2>4. DatedRow(ticket[t], ended[t], happened)
    BY <2>1 DEF Dated
  <2>5. ASSUME row.status \in Ends, "undated" \notin happened'
        PROVE  {row.resolved, row.closed} # {None}
    <3>1. CASE ends
      BY <2>1, <2>2, <2>5, <3>1, FaultsAdd
    <3>2. CASE ~ends
      BY <2>2, <2>3, <2>4, <2>5, <3>2 DEF DatedRow
    <3> QED
      BY <3>1, <3>2
  <2>6. ASSUME row.status \in Ends, "kept" \notin happened', dates # {None}, ends
        PROVE  "recent" \in {row.resolved, row.closed}
    BY <2>1, <2>2, <2>6, FaultsAdd
  <2> HIDE DEF row
  <2> QED
    BY <2>1, <2>2, <2>3, <2>5, <2>6, SavedIsDated
<1>10. ASSUME NEW t \in Ids, Destroy(t) PROVE Dated'
  <2>1. t \in Exists /\ ticket[t] \in Rows /\ happened' = happened
    BY <1>10, ExistIsRow DEF Destroy, Typed
  <2>2. ticket'[t].status = "deleted" /\ ended'[t] = None
    BY <1>10, <2>1 DEF Destroy, Typed, RowsTyped, Rows
  <2>3. \A u \in Ids \ {t} : ticket'[u] = ticket[u] /\ ended'[u] = ended[u]
    BY <1>10 DEF Destroy, Typed, RowsTyped
  <2> QED
    BY <2>1, <2>2, <2>3, OthersDated DEF Dated, Exists
<1>11. CASE Age
  <2> DEFINE Older(date) == IF date = "recent" THEN "old" ELSE date
             Aged(t) == [ticket[t] EXCEPT !.resolved = Older(@), !.closed = Older(@),
                                          !.updated = Older(@)]
  <2>1. /\ ticket' = [t \in Ids |-> IF t \notin Born THEN ticket[t] ELSE Aged(t)]
        /\ ended' = [t \in Ids |-> Older(ended[t])] /\ happened' = happened
    BY <1>11 DEF Age
  <2>2. ASSUME NEW t \in Born, ticket[t] \in Rows
        PROVE /\ Aged(t) \in Rows /\ Aged(t).status = ticket[t].status
              /\ Aged(t).resolved = Older(ticket[t].resolved)
              /\ Aged(t).closed = Older(ticket[t].closed)
              /\ Aged(t).updated = Older(ticket[t].updated)
    BY <2>2, TicketsAssumption DEF Rows, Dates
  <2> HIDE DEF Aged
  <2>3. ASSUME NEW t \in Exists PROVE DatedRow(Aged(t), Older(ended[t]), happened)
    <3>1. ticket[t] \in Rows /\ t \in Ids /\ t \in Born
      BY <2>3, ExistIsRow DEF Typed, Exists
    <3>2. DatedRow(ticket[t], ended[t], happened)
      BY <2>3, <3>1 DEF Dated
    <3>3. ended[t] \in Dates
      BY <3>1 DEF Typed, RowsTyped
    <3>4. EndDate(Aged(t)) = Older(EndDate(ticket[t]))
      BY <2>2, <3>1, TicketsAssumption DEF EndDate, Rows, Dates
    <3>5. EndDate(ticket[t]) \in {"recent", "old"}
      BY <3>1 DEF EndDate, Rows, Dates
    <3>6. {Aged(t).resolved, Aged(t).closed} = {None}
            => {ticket[t].resolved, ticket[t].closed} = {None}
      BY <2>2, <3>1, TicketsAssumption
    <3> QED
      BY <2>2, <3>1, <3>2, <3>3, <3>4, <3>5, <3>6, TicketsAssumption DEF DatedRow, Dates
  <2>4. ASSUME NEW t \in Ids
        PROVE IF t \in Exists' THEN DatedRow(ticket'[t], ended'[t], happened') ELSE ended'[t] = None
    <3>1. CASE t \in Exists
      <4>1. ticket'[t] = Aged(t) /\ ended'[t] = Older(ended[t]) /\ t \in Exists'
        BY <2>1, <2>2, <3>1, ExistIsRow, NoneAssumption DEF Typed, Exists, Born
      <4> QED
        BY <2>1, <2>3, <3>1, <4>1
    <3>2. CASE t \notin Exists
      <4>1. ended'[t] = None
        BY <2>1, <3>2, TicketsAssumption DEF Dated
      <4>2. t \notin Exists'
        BY <2>1, <2>2, <3>2 DEF Exists, Born, Typed, RowsTyped
      <4> QED
        BY <4>1, <4>2
    <3> QED
      BY <3>1, <3>2
  <2> QED
    BY <2>4 DEF Dated
<1>12. CASE UNCHANGED vars
  BY <1>12, SameKeepsDated DEF vars
<1> QED
  BY <1>1, <1>3, <1>4, <1>5, <1>6, <1>7, <1>8, <1>9, <1>10, <1>11, <1>12 DEF Next

(* The inductive invariant holds in every reachable state.                 *)
THEOREM InvCorrect == Spec => []IInv
<1>1. IInv /\ [Next]_vars => IInv'
  <2> SUFFICES ASSUME IInv, [Next]_vars PROVE IInv'
    OBVIOUS
  <2>1. Typed
    BY DEF IInv
  <2>2. RowsMove /\ CounterMove
    BY <2>1, RowsNext, CounterNext
  <2>3. OwnReference' /\ ProcsTyped' /\ CountsTyped' /\ RowsTyped'
    BY <2>1, <2>2, OwnReferenceNext, ProcsNext, CountsNext DEF RowsMove, RowsKept, RowAdded
  <2>4. LockNumbers' /\ Counted' /\ Dated'
    BY <2>1, <2>2, <2>3, LockNext, CountedNext, DatedNext DEF IInv
  <2> QED
    BY <2>3, <2>4 DEF IInv, Typed
<1> QED
  BY <1>1, InitIInv, PTL DEF Spec

(* What one step does of a message: it reopens a ticket that ended lately, *)
(* and is turned away from one that ended long ago.                        *)
InTime ==
  \A t \in Born :
    /\ took'[t] > took[t] => /\ ticket'[t].status \notin Ends
                             /\ Without({"undated"}) => ended[t] # "old"
    /\ turned'[t] > turned[t] => /\ ticket[t].status \in Ends
                                 /\ Without({"kept"}) => ended[t] = "old"

(* A step in which no message counts holds to this.                        *)
LEMMA NoMessageInTime ==
  ASSUME Typed, took' = took, turned' = turned
  PROVE  InTime
BY DEF Typed, CountsTyped, InTime, Born

LEMMA StepInTime == Typed /\ Dated /\ [Next]_vars => InTime
<1> SUFFICES ASSUME Typed, Dated, [Next]_vars PROVE InTime
  OBVIOUS
<1>1. took \in [Ids -> Nat] /\ turned \in [Ids -> Nat]
  BY DEF Typed, CountsTyped
<1>2. ASSUME NEW p \in Procs, Commit(p) PROVE InTime
  <2>1. turned' = turned /\ \A t \in Born : took'[t] = took[t]
    <3>1. turned' = turned
      BY <1>2 DEF Commit
    <3>2. took' = took \/ \E t \in NextTickets : took' = [took EXCEPT ![t] = 1]
      BY <1>2 DEF Commit
    <3>3. \A t \in NextTickets : t \notin Born
      BY DEF NextTickets, Unborn
    <3>4. ASSUME NEW u \in Born PROVE took'[u] = took[u]
      BY <1>1, <3>2, <3>3 DEF Born
    <3> QED
      BY <3>1, <3>4
  <2> QED
    BY <1>1, <2>1 DEF InTime, Born
<1>3. ASSUME NEW p \in Procs, WriteMessage(p) PROVE InTime
  <2> DEFINE t == job[p].ticket
  <2>1. t \in Ids
    BY <1>3 DEF WriteMessage, Typed, ProcsTyped, InHandIsReal
  <2>2. \A u \in Ids \ {t} : took'[u] = took[u] /\ turned'[u] = turned[u]
    BY <1>1, <1>3 DEF WriteMessage, Take, TurnAway
  <2>3. ASSUME t \in Exists, DatedRow(ticket[t], ended[t], happened), ticket[t] \in Rows
        PROVE  /\ EndDate(ticket[t]) \in {"recent", "old"}
               /\ ticket[t].status \notin Ends => ended[t] # "old"
    BY <2>3, TicketsAssumption DEF EndDate, Rows, Dates, DatedRow
  <2>4. t \in Exists => DatedRow(ticket[t], ended[t], happened) /\ ticket[t] \in Rows
    BY <2>1, ExistIsRow DEF Dated, Typed
  <2>5. CASE t \in Exists /\ ~ReopenExpired(ticket[t]) /\ Take(p, t)
    <3>1. turned' = turned
      BY <2>5 DEF Take
    <3>2. ticket'[t].status \notin Ends
      BY <2>1, <2>4, <2>5 DEF Take, Current, Reopened, Rows, Ends, Typed, RowsTyped
    <3>3. Without({"undated"}) => ended[t] # "old"
      BY <2>3, <2>4, <2>5 DEF ReopenExpired, DatedRow, Without
    <3> QED
      BY <1>1, <2>2, <3>1, <3>2, <3>3 DEF InTime, Born
  <2>6. CASE (t \in Exists => ReopenExpired(ticket[t])) /\ TurnAway(p, t)
    <3>1. took' = took /\ (t \notin Exists => turned'[t] = turned[t])
      BY <1>1, <2>1, <2>6 DEF TurnAway
    <3>2. t \in Exists => /\ ticket[t].status \in Ends
                          /\ Without({"kept"}) => ended[t] = "old"
      BY <2>4, <2>6 DEF ReopenExpired, DatedRow, Without
    <3> QED
      BY <1>1, <2>2, <3>1, <3>2 DEF InTime, Born
  <2> QED
    BY <1>3, <2>5, <2>6 DEF WriteMessage, Current
<1>4. ASSUME NEW p \in Procs,
             Count(p) \/ ReadCounter(p) \/ Insert(p) \/ FirstMessage(p) \/ BulkSave(p)
      PROVE InTime
  BY <1>4, NoMessageInTime
  DEF Count, ReadCounter, Insert, FirstMessage, BulkSave, SaveRow, messages
<1>5. ASSUME NEW p \in Procs, NEW t \in Ids,
             \/ \E by \in {"page", "mail"} : Find(p, t, by)
             \/ \E status \in Statuses : BulkUpdate(p, t, status)
      PROVE InTime
  BY <1>5, NoMessageInTime DEF Find, BulkUpdate, messages
<1>6. ASSUME NEW t \in Ids, Assign(t) \/ Resolve(t) \/ Close(t) \/ Reopen(t) \/ Destroy(t)
             \/ \E status \in Statuses : Patch(t, status)
      PROVE InTime
  BY <1>6, NoMessageInTime
  DEF Assign, Resolve, Close, Reopen, Destroy, Patch, Act, SaveRow, messages
<1>7. CASE Age
  BY <1>7, NoMessageInTime DEF Age, messages
<1>8. CASE UNCHANGED vars
  BY <1>8, NoMessageInTime DEF vars
<1> QED
  BY <1>2, <1>3, <1>4, <1>5, <1>6, <1>7, <1>8 DEF Next

(* Every variable keeps its type, and two tickets never share a reference. *)
THEOREM TypeCorrect == Spec => []TypeOK
<1>1. IInv => TypeOK
  BY TypedIsTypeOK DEF IInv
<1> QED
  BY <1>1, InvCorrect, PTL

(* The number a transaction takes for its ticket is no other ticket's      *)
(* until it commits (next_ticket_reference), so that only creations made   *)
(* outside a transaction may fail on it.                                   *)
THEOREM NumberIsFree == Spec => []NeverClashes
<1>1. IInv => NeverClashes
  <2> SUFFICES ASSUME IInv, NEW p \in Procs, pc[p] = "commit", NEW t \in Exists,
                      ticket[t].ref = job[p].ref
               PROVE FALSE
    BY DEF NeverClashes, Refs
  <2>1. job[p].ref = counter + 1 /\ ticket[t].ref <= counter
    BY DEF IInv, LockNumbers, Counted
  <2>2. counter \in Nat
    BY DEF IInv, Typed, CountsTyped, References
  <2> QED
    BY <2>1, <2>2
<1> QED
  BY <1>1, InvCorrect, PTL

(* A requester's message reopens a ticket that ended recently, and no      *)
(* other; a message is turned away from those that ended long ago, and no  *)
(* other: but for the two ways of ending a ticket that keep no true date.  *)
THEOREM ReopensRight == Spec => ReopensInTime
<1>1. IInv /\ [Next]_vars => InTime
  BY StepInTime DEF IInv
<1> QED
  BY <1>1, InvCorrect, PTL DEF Spec, ReopensInTime, InTime
=============================================================================
