------------------------------ MODULE Tickets ------------------------------
(***************************************************************************)
(* The life of the tickets of one organization: their references, what     *)
(* agents do with their status, and what becomes of a message written to   *)
(* one that was resolved or closed (backend/apps/tickets/views.py;         *)
(* email_channel/thread_matching.py, pipeline.py; organizations/models.py).*)
(*                                                                         *)
(* A date is "recent" or "old": within INBOUND_EMAIL_REOPEN_DAYS or not.   *)
(* What no step here reads is left out: assignment, priority, tags, and    *)
(* the first response. A ticket waiting is one in progress.                *)
(***************************************************************************)
EXTENDS Integers, FiniteSets

CONSTANTS
  MaxTickets,   \* bound on the tickets created
  MaxRequests,  \* bound on the requests and mails of requesters, and creations
  MaxEdits,     \* bound on what agents do, and on the passing of the days
  Procs,        \* requests and tasks under way
  Faults,       \* what may happen, besides, once: a subset of FaultKinds
  MaxFaults,    \* how many of them, in all
  None

FaultKinds ==
  {"kept",      \* an update ends a ticket again, with the old date it had
   "undated"}   \* an update ends a ticket that has no date

ASSUME TicketsAssumption ==
  /\ MaxTickets \in Nat /\ MaxRequests \in Nat /\ MaxEdits \in Nat
  /\ MaxFaults \in Nat /\ Faults \subseteq FaultKinds
  /\ None \notin Procs \cup {"recent", "old"}

VARIABLES
  ticket,    \* Ticket: its reference, status, resolved_at, closed_at, updated_at
  counter,   \* Organization.ticket_counter, as committed
  rowLock,   \* the transaction that has incremented it, not committed yet
  pc, job,   \* what each request or task does, and what it read
  requests,  \* how many there were, and
  edits,     \* how many actions of agents
  ended,     \* history: when each ticket was last resolved or closed
  took,      \* history: how many messages of requesters each ticket took, and
  turned,    \* how many written to it went elsewhere, or were refused
  happened   \* the faults that happened

org == <<counter, rowLock>>
procs == <<pc, job>>
messages == <<took, turned>>
vars == <<ticket, counter, rowLock, pc, job, requests, edits, ended, took,
          turned, happened>>

Ids == 1 .. MaxTickets
References == Nat
Statuses == {"open", "in_progress", "resolved", "closed"}
Ends == {"resolved", "closed"}
Dates == {"recent", "old", None}

Rows == [ref : References, status : Statuses \cup {"deleted"},
         resolved : Dates, closed : Dates, updated : Dates \ {None}]

ASSUME NoneAssumption == None \notin Rows

Born == {t \in Ids : ticket[t] # None}
Exists == {t \in Born : ticket[t].status # "deleted"}
Refs == {ticket[t].ref : t \in Exists}

Jobs == [ticket : Ids \cup {None}, ref : References, by : {"page", "mail", None},
         row : Rows \cup {None}, status : Statuses \cup {None}]

TypeOK ==
  /\ ticket \in [Ids -> Rows \cup {None}]
  /\ counter \in References /\ rowLock \in Procs \cup {None}
  /\ pc \in [Procs -> {"idle", "read", "insert", "write", "commit", "bulk"}]
  /\ job \in [Procs -> Jobs \cup {None}]
  /\ requests \in 0 .. MaxRequests /\ edits \in 0 .. MaxEdits
  /\ ended \in [Ids -> Dates]
  /\ took \in [Ids -> Nat] /\ turned \in [Ids -> Nat]
  /\ happened \in SUBSET Faults
  /\ \A t, u \in Exists : t # u => ticket[t].ref # ticket[u].ref

Init ==
  /\ ticket = [t \in Ids |-> None]
  /\ counter = 0 /\ rowLock = None
  /\ pc = [p \in Procs |-> "idle"] /\ job = [p \in Procs |-> None]
  /\ requests = 0 /\ edits = 0
  /\ ended = [t \in Ids |-> None]
  /\ took = [t \in Ids |-> 0] /\ turned = [t \in Ids |-> 0]
  /\ happened = {}

-----------------------------------------------------------------------------

FaultIf(cond, f) ==
  IF ~cond THEN UNCHANGED happened
  ELSE /\ f \in Faults \ happened /\ Cardinality(happened) < MaxFaults
       /\ happened' = happened \cup {f}

Without(kinds) == happened \cap kinds = {}

NewJob(t) == [ticket |-> t, ref |-> 0, by |-> None, row |-> None, status |-> None]

Goto(p, step, j) ==
  pc' = [pc EXCEPT ![p] = step] /\ job' = [job EXCEPT ![p] = j]

Return(p) == Goto(p, "idle", None)

Begin(p, step, j) ==
  /\ pc[p] = "idle" /\ requests < MaxRequests
  /\ requests' = requests + 1 /\ UNCHANGED edits
  /\ Goto(p, step, j)

Edit ==
  /\ edits < MaxEdits
  /\ edits' = edits + 1 /\ UNCHANGED requests

Unborn == Ids \ Born
NextTickets == {t \in Unborn : \A u \in Unborn : t <= u}

NewTicket(ref) == [ref |-> ref, status |-> "open", resolved |-> None,
                   closed |-> None, updated |-> "recent"]

(***************************************************************************)
(* Creation outside a transaction: an agent's, or the public form's. Each  *)
(* statement commits on its own.                                           *)
(***************************************************************************)

(* Mutant of RowFree: the increment doesn't keep the row.                  *)
RowAlwaysFree == TRUE

RowFree == rowLock = None

Count(p) ==
  /\ Begin(p, "read", NewJob(None))
  /\ RowFree
  /\ counter' = counter + 1
  /\ UNCHANGED <<ticket, rowLock, ended, messages, happened>>

ReadCounter(p) ==
  /\ pc[p] = "read"
  /\ Goto(p, "insert", [job[p] EXCEPT !.ref = counter])
  /\ UNCHANGED <<ticket, org, requests, edits, ended, messages, happened>>

(* Mutant of Unique: references may be shared.                             *)
UniqueOrNot(ref) == TRUE

(* unique_together: organization and reference.                            *)
Unique(ref) == ref \notin Refs

(* Another request may have read the same number: the insertion fails.     *)
Insert(p) ==
  /\ pc[p] = "insert"
  /\ Return(p)
  /\ IF Unborn # {} /\ Unique(job[p].ref)
     THEN \E t \in NextTickets : ticket' = [ticket EXCEPT ![t] = NewTicket(job[p].ref)]
     ELSE UNCHANGED ticket
  /\ UNCHANGED <<org, requests, edits, ended, messages, happened>>

(***************************************************************************)
(* Creation in a transaction: a mail's, or the first of a conversation.    *)
(* The row it increments is its own until it commits.                      *)
(***************************************************************************)

OpenTicket(p, j) ==
  /\ Unborn # {} /\ RowFree
  /\ rowLock' = p
  /\ Goto(p, "commit", [j EXCEPT !.ref = counter + 1])
  /\ UNCHANGED counter

FirstMessage(p) ==
  /\ pc[p] = "idle" /\ requests < MaxRequests
  /\ requests' = requests + 1
  /\ OpenTicket(p, [NewJob(None) EXCEPT !.by = "page"])
  /\ UNCHANGED <<ticket, edits, ended, messages, happened>>

(* Or the transaction fails, and the counter is as it was.                 *)
Commit(p) ==
  /\ pc[p] = "commit"
  /\ Return(p)
  /\ rowLock' = IF rowLock = p THEN None ELSE rowLock
  /\ \/ /\ Unique(job[p].ref)
        /\ counter' = job[p].ref
        /\ \E t \in NextTickets :
             /\ ticket' = [ticket EXCEPT ![t] = NewTicket(job[p].ref)]
             /\ took' = [took EXCEPT ![t] = 1]
     \/ UNCHANGED <<ticket, counter, took>>
  /\ UNCHANGED <<requests, edits, ended, turned, happened>>

(***************************************************************************)
(* A requester's message on a ticket                                       *)
(***************************************************************************)

(* Mutant of EndDate: the resolution's, or else the closing's.             *)
FirstEndDate(row) ==
  IF row.resolved # None THEN row.resolved
  ELSE IF row.closed # None THEN row.closed ELSE row.updated

(* The later date, or the last change if it has none.                      *)
EndDate(row) ==
  IF "recent" \in {row.resolved, row.closed} THEN "recent"
  ELSE IF "old" \in {row.resolved, row.closed} THEN "old" ELSE row.updated

ReopenExpired(row) == row.status \in Ends /\ EndDate(row) = "old"

Reopened(row) ==
  [row EXCEPT !.status = "open", !.resolved = None, !.closed = None,
              !.updated = "recent"]

(* The ticket is found, by the widget, the page of a link, or the match of *)
(* a mail.                                                                 *)
Find(p, t, by) ==
  /\ t \in Exists
  /\ Begin(p, "write", [NewJob(t) EXCEPT !.by = by, !.row = ticket[t]])
  /\ UNCHANGED <<ticket, org, ended, messages, happened>>

(* Mutant of Current: as it was found.                                     *)
AsFound(p) == job[p].row

(* The ticket, locked.                                                     *)
Current(p) == ticket[job[p].ticket]

(* On the ticket, in one transaction: it reopens if it ended recently.     *)
Take(p, t) ==
  /\ Return(p)
  /\ ticket' = [ticket EXCEPT ![t] = IF Current(p).status \in Ends
                                     THEN Reopened(@) ELSE @]
  /\ ended' = [ended EXCEPT ![t] = IF Current(p).status \in Ends THEN None ELSE @]
  /\ took' = [took EXCEPT ![t] = @ + 1]
  /\ UNCHANGED <<org, turned>>

(* Too late, or the ticket is gone: a mail opens another ticket, and stays *)
(* found if that is not committed; what a page sends is refused. The       *)
(* ticket's own lock, kept meanwhile, is left out: nothing more is read.   *)
TurnAway(p, t) ==
  /\ IF job[p].by = "mail" THEN OpenTicket(p, job[p])
     ELSE Return(p) /\ UNCHANGED org
  /\ turned' = [turned EXCEPT ![t] = IF t \in Exists THEN @ + 1 ELSE @]
  /\ UNCHANGED <<ticket, ended, took>>

WriteMessage(p) ==
  LET t == job[p].ticket IN
  /\ pc[p] = "write"
  /\ IF t \in Exists /\ ~ReopenExpired(Current(p)) THEN Take(p, t) ELSE TurnAway(p, t)
  /\ UNCHANGED <<requests, edits, happened>>

(***************************************************************************)
(* Agents                                                                  *)
(***************************************************************************)

(* A ticket ends as its status does, or as it is dated anew.               *)
EndsNow(t, row) ==
  \/ row.status # ticket[t].status
  \/ "recent" \in {row.resolved, row.closed} \ {ticket[t].resolved, ticket[t].closed}

(* What is saved of a ticket.                                              *)
SaveRow(t, row) ==
  /\ t \in Exists
  /\ ticket' = [ticket EXCEPT ![t] = [row EXCEPT !.updated = "recent"]]
  /\ ended' = [ended EXCEPT ![t] = IF row.status \notin Ends THEN None
                                   ELSE IF EndsNow(t, row) THEN "recent" ELSE @]
  /\ UNCHANGED <<org, messages>>

Act(t, row) == t \in Exists /\ Edit /\ SaveRow(t, row) /\ UNCHANGED procs

(* To an agent or a team.                                                  *)
Assign(t) == Act(t, [ticket[t] EXCEPT !.status = "in_progress"]) /\ UNCHANGED happened

Resolve(t) ==
  /\ Act(t, [ticket[t] EXCEPT !.status = "resolved", !.resolved = "recent"])
  /\ UNCHANGED happened

Close(t) ==
  /\ Act(t, [ticket[t] EXCEPT !.status = "closed", !.closed = "recent"])
  /\ UNCHANGED happened

Reopen(t) == Act(t, Reopened(ticket[t])) /\ UNCHANGED happened

(* What the request sends: the status, or none, and never its dates.       *)
Patch(t, status) ==
  /\ t \in Exists
  /\ Act(t, [ticket[t] EXCEPT !.status = status])
  /\ LET ends == status \in Ends /\ status # ticket[t].status
         dates == {ticket[t].resolved, ticket[t].closed}
     IN IF dates = {None} THEN FaultIf(ends, "undated")
        ELSE FaultIf(ends /\ "recent" \notin dates, "kept")

(* bulk_update reads the tickets ...                                       *)
BulkUpdate(p, t, status) ==
  /\ pc[p] = "idle" /\ t \in Exists /\ Edit
  /\ Goto(p, "bulk", [NewJob(t) EXCEPT !.row = ticket[t], !.status = status])
  /\ UNCHANGED <<ticket, org, ended, messages, happened>>

OrNow(date) == IF date # None THEN date ELSE "recent"

(* ... and saves those of their fields that it changed.                    *)
BulkRow(t, read, status) ==
  IF status = "open" THEN Reopened(ticket[t])
  ELSE [ticket[t] EXCEPT !.status = status,
          !.resolved = IF status = "resolved" THEN OrNow(read.resolved) ELSE @,
          !.closed = IF status = "closed" THEN OrNow(read.closed) ELSE @]

BulkSave(p) ==
  LET t == job[p].ticket
      read == job[p].row
      status == job[p].status
  IN
  /\ pc[p] = "bulk"
  /\ Return(p)
  /\ IF t \in Exists
     THEN /\ SaveRow(t, BulkRow(t, read, status))
          /\ FaultIf(<<status, "old">> \in {<<"resolved", read.resolved>>,
                                          <<"closed", read.closed>>}, "kept")
     ELSE UNCHANGED <<ticket, org, ended, messages, happened>>
  /\ UNCHANGED <<requests, edits>>

Destroy(t) ==
  /\ t \in Exists /\ Edit
  /\ ticket' = [ticket EXCEPT ![t].status = "deleted"]
  /\ ended' = [ended EXCEPT ![t] = None]
  /\ UNCHANGED <<org, procs, messages, happened>>

(* Days pass: nothing that is under way takes that long.                   *)
Age ==
  LET Older(date) == IF date = "recent" THEN "old" ELSE date IN
  /\ Edit /\ \A p \in Procs : pc[p] = "idle"
  /\ ticket' = [t \in Ids |-> IF t \notin Born THEN ticket[t]
                  ELSE [ticket[t] EXCEPT !.resolved = Older(@), !.closed = Older(@),
                                         !.updated = Older(@)]]
  /\ ended' = [t \in Ids |-> Older(ended[t])]
  /\ UNCHANGED <<org, procs, messages, happened>>

Next ==
  \/ \E p \in Procs :
       \/ Count(p) \/ ReadCounter(p) \/ Insert(p)
       \/ FirstMessage(p) \/ Commit(p) \/ WriteMessage(p) \/ BulkSave(p)
       \/ \E t \in Ids : \E by \in {"page", "mail"} : Find(p, t, by)
       \/ \E t \in Ids, status \in Statuses : BulkUpdate(p, t, status)
  \/ \E t \in Ids :
       \/ Assign(t) \/ Resolve(t) \/ Close(t) \/ Reopen(t) \/ Destroy(t)
       \/ \E status \in Statuses : Patch(t, status)
  \/ Age

Spec == Init /\ [][Next]_vars

-----------------------------------------------------------------------------

(* A requester's message on a ticket that was resolved or closed recently  *)
(* reopens it, one that comes later goes elsewhere, and none is left on a  *)
(* ticket that stays closed; however agents ended, assigned and reopened   *)
(* it meanwhile, but for the two ways of ending it that keep no true date. *)
ReopensInTime ==
  [][\A t \in Born :
       /\ took'[t] > took[t] => /\ ticket'[t].status \notin Ends
                                /\ Without({"undated"}) => ended[t] # "old"
       /\ turned'[t] > turned[t] => /\ ticket[t].status \in Ends
                                    /\ Without({"kept"}) => ended[t] = "old"]_vars

(* The number a mail or a conversation takes for its ticket is no other's  *)
(* until it commits, whatever those do who number theirs outside a         *)
(* transaction: only these may fail on a reference already taken.          *)
NeverClashes == \A p \in Procs : pc[p] = "commit" => job[p].ref \notin Refs

=============================================================================
