------------------------- MODULE InboundMail_proofs -------------------------
(***************************************************************************)
(* Proofs about InboundMail, for every number of rows, mails, mailboxes,   *)
(* requests and workers, and any faults.                                   *)
(*                                                                         *)
(* Each lemma ...Next shows that a step preserves one part of IInv, from   *)
(* the parts it rests on: the types, then the row's lock (LockProtects),   *)
(* then the rest. Each has a step for each action that touches its         *)
(* variables. Together they make IInv inductive; the properties follow.    *)
(***************************************************************************)
EXTENDS InboundMail, TLAPS

(* What SettledStays asks of a step.                                       *)
Settled == \A r \in Rows : status[r] \in Final => status'[r] \in {status[r], "gone"}

Typed == TypeOK /\ InHandIsReal

(* Everything has its type at first.                                       *)
LEMMA InitTyped == Init => Typed
BY InboundAssumption DEF Init, Typed, TypeOK, InHandIsReal, Status, Live,
   Processable, Final, Boxes, Steps, Tasks

(* A step keeps the types, and what requests and runs have in hand real.   *)
LEMMA TypedNext == Typed /\ [Next]_vars => Typed'
<1> SUFFICES ASSUME Typed, [Next]_vars PROVE Typed'
  OBVIOUS
<1> USE InboundAssumption
    DEF Typed, TypeOK, InHandIsReal, Status, Live, Processable, Final, Boxes, Steps,
        Tasks, Deliveries, Holding, File, HeldByAnother, rowVars, rawVars, messageVars,
        fileVars, reqVars, workVars
<1>1. ASSUME NEW q \in Requests, Receive(q) PROVE Typed'
  BY <1>1 DEF Receive, reqVars
<1>2. ASSUME NEW q \in Requests, InsertConflict(q) PROVE Typed'
  BY <1>2 DEF InsertConflict, EndRequest
<1>3. ASSUME NEW q \in Requests, Insert(q) PROVE Typed'
  BY <1>3 DEF Insert, EndRequest
<1>4. ASSUME NEW q \in Requests, QueueAfterCommit(q) PROVE Typed'
  BY <1>4 DEF QueueAfterCommit, EndRequest, Enqueue
<1>5. ASSUME NEW q \in Requests, InsertFails(q) PROVE Typed'
  BY <1>5 DEF InsertFails, EndRequest, Fault
<1>6. ASSUME NEW q \in Requests, RequestFails(q) PROVE Typed'
  BY <1>6 DEF RequestFails, EndRequest, Fault
<1>7. ASSUME NEW w \in Workers, NEW t \in Tasks, Take(w, t) PROVE Typed'
  BY <1>7 DEF Take
<1>8. ASSUME NEW w \in Workers, BeginTriage(w) PROVE Typed'
  BY <1>8 DEF BeginTriage, Goto, EndRun
<1>9. ASSUME NEW w \in Workers, Settle(w) PROVE Typed'
  BY <1>9 DEF Settle, SetStatus, EndRun
<1>10. ASSUME NEW w \in Workers, Pass(w) PROVE Typed'
  BY <1>10 DEF Pass, Goto
<1>11. ASSUME NEW w \in Workers, Unreadable(w) PROVE Typed'
  BY <1>11 DEF Unreadable, Goto
<1>12. ASSUME NEW w \in Workers, MarkUnprocessable(w) PROVE Typed'
  BY <1>12 DEF MarkUnprocessable, FailRow, SetStatus, EndRun
<1>13. ASSUME NEW w \in Workers, StoreFiles(w) PROVE Typed'
  BY <1>13 DEF StoreFiles, Goto
<1>14. ASSUME NEW w \in Workers, BeginWrite(w) PROVE Typed'
  BY <1>14 DEF BeginWrite, Goto
<1>15. ASSUME NEW w \in Workers, Write(w) PROVE Typed'
  BY <1>15 DEF Write, Land, SetStatus, Goto
<1>16. ASSUME NEW w \in Workers, DeleteFiles(w) PROVE Typed'
  BY <1>16 DEF DeleteFiles, AfterDeletion, EndRun, Goto
<1>17. ASSUME NEW w \in Workers, Raise(w) PROVE Typed'
  BY <1>17 DEF Raise, Goto
<1>18. ASSUME NEW w \in Workers, Announce(w) PROVE Typed'
  BY <1>18 DEF Announce, EndRun
<1>19. ASSUME NEW w \in Workers, MarkFailed(w) PROVE Typed'
  BY <1>19 DEF MarkFailed, FailRow, SetStatus, Goto
<1>20. ASSUME NEW w \in Workers, Retry(w) PROVE Typed'
  BY <1>20 DEF Retry, EndRun
<1>21. ASSUME NEW w \in Workers, StoreFails(w) PROVE Typed'
  BY <1>21 DEF StoreFails, Fault, Goto
<1>22. ASSUME NEW w \in Workers, CommitFails(w) PROVE Typed'
  BY <1>22 DEF CommitFails, Fault, Goto
<1>23. ASSUME NEW w \in Workers, CommitUnanswered(w) PROVE Typed'
  BY <1>23 DEF CommitUnanswered, Fault, Land, SetStatus, Goto
<1>24. ASSUME NEW w \in Workers, DeletionFails(w) PROVE Typed'
  BY <1>24 DEF DeletionFails, Fault, AfterDeletion, EndRun, Goto
<1>25. ASSUME NEW w \in Workers, Crash(w) PROVE Typed'
  BY <1>25 DEF Crash, Fault, EndRun
<1>26. ASSUME NEW r \in Rows, Redeliver(r) PROVE Typed'
  BY <1>26 DEF Redeliver, Fault, Enqueue
<1>27. ASSUME NEW r \in Rows, RequeueStale(r) PROVE Typed'
  BY <1>27 DEF RequeueStale, Touch, Enqueue
<1>28. ASSUME NEW r \in Rows, RequeueFails(r) PROVE Typed'
  BY <1>28 DEF RequeueFails, Touch, Fault
<1>29. ASSUME NEW r \in Rows, Replay(r) PROVE Typed'
  BY <1>29 DEF Replay, SetStatus, Enqueue
<1>30. ASSUME NEW r \in Rows, ReplayUnqueued(r) PROVE Typed'
  BY <1>30 DEF ReplayUnqueued, SetStatus, Fault
<1>31. ASSUME NEW r \in Rows, PurgeRaw(r) PROVE Typed'
  BY <1>31 DEF PurgeRaw, DropRaw, Fault
<1>32. ASSUME NEW r \in Rows, Delete(r) PROVE Typed'
  BY <1>32 DEF Delete, SetStatus, DropRaw, Fault
<1>33. ASSUME NEW r \in Rows, Age(r) PROVE Typed'
  BY <1>33 DEF Age
<1>34. CASE UNCHANGED vars
  BY <1>34 DEF vars
<1> QED
  BY <1>1, <1>2, <1>3, <1>4, <1>5, <1>6, <1>7, <1>8, <1>9, <1>10, <1>11, <1>12,
     <1>13, <1>14, <1>15, <1>16, <1>17, <1>18, <1>19, <1>20, <1>21, <1>22, <1>23,
     <1>24, <1>25, <1>26, <1>27, <1>28, <1>29, <1>30, <1>31, <1>32, <1>33, <1>34
     DEF Next, Others, RequestStep, RunStep, RunFault, RowStep

(* The requests' and sweeps' steps that only queue, or start or end a      *)
(* request.                                                                *)
Bystander ==
  \/ \E q \in Requests :
       Receive(q) \/ InsertConflict(q) \/ QueueAfterCommit(q) \/ RequestFails(q)
  \/ \E r \in Rows : Redeliver(r) \/ RequeueStale(r) \/ RequeueFails(r) \/ Age(r)

(* They leave rows, content, messages, files and runs as they are.         *)
LEMMA Bystanders ==
  Bystander => UNCHANGED <<status, mail, box, rawVars, messageVars, fileVars, workVars>>
BY DEF Bystander, Receive, InsertConflict, QueueAfterCommit, RequestFails, Redeliver,
   RequeueStale, RequeueFails, Touch, Age, rowVars, rawVars, messageVars, fileVars,
   workVars

(* The row's lock: a transaction's row is to be processed, and no other    *)
(* run is in one on it.                                                    *)
LEMMA LockNext == Typed /\ LockProtects /\ [Next]_vars => LockProtects'
<1> SUFFICES ASSUME Typed /\ LockProtects, [Next]_vars PROVE LockProtects'
  OBVIOUS
<1> USE DEF Typed, TypeOK, InHandIsReal, rowVars, rawVars, messageVars, fileVars,
   reqVars, workVars, LockProtects, Holding, HeldByAnother, Processable
<1>1. ASSUME NEW q \in Requests, Insert(q) PROVE LockProtects'
  BY <1>1 DEF Insert, EndRequest
<1>2. ASSUME NEW q \in Requests, InsertFails(q) PROVE LockProtects'
  BY <1>2 DEF InsertFails, EndRequest, Fault
<1>3. ASSUME NEW w \in Workers, NEW t \in Tasks, Take(w, t) PROVE LockProtects'
  BY <1>3 DEF Take
<1>4. ASSUME NEW w \in Workers, BeginTriage(w) PROVE LockProtects'
  BY <1>4 DEF BeginTriage, Lockable, Goto, EndRun
<1>5. ASSUME NEW w \in Workers, Settle(w) PROVE LockProtects'
  BY <1>5 DEF Settle, SetStatus, EndRun
<1>6. ASSUME NEW w \in Workers, Pass(w) PROVE LockProtects'
  BY <1>6 DEF Pass, Goto
<1>7. ASSUME NEW w \in Workers, Unreadable(w) PROVE LockProtects'
  BY <1>7 DEF Unreadable, Goto
<1>8. ASSUME NEW w \in Workers, MarkUnprocessable(w) PROVE LockProtects'
  BY <1>8 DEF MarkUnprocessable, FailRow, SetStatus, EndRun
<1>9. ASSUME NEW w \in Workers, StoreFiles(w) PROVE LockProtects'
  BY <1>9 DEF StoreFiles, Goto
<1>10. ASSUME NEW w \in Workers, BeginWrite(w) PROVE LockProtects'
  BY <1>10 DEF BeginWrite, Lockable, Goto
<1>11. ASSUME NEW w \in Workers, Write(w) PROVE LockProtects'
  BY <1>11 DEF Write, Land, SetStatus, Goto
<1>12. ASSUME NEW w \in Workers, DeleteFiles(w) PROVE LockProtects'
  BY <1>12 DEF DeleteFiles, AfterDeletion, EndRun, Goto
<1>13. ASSUME NEW w \in Workers, Raise(w) PROVE LockProtects'
  BY <1>13 DEF Raise, Goto
<1>14. ASSUME NEW w \in Workers, Announce(w) PROVE LockProtects'
  BY <1>14 DEF Announce, EndRun
<1>15. ASSUME NEW w \in Workers, MarkFailed(w) PROVE LockProtects'
  BY <1>15 DEF MarkFailed, FailRow, SetStatus, Goto
<1>16. ASSUME NEW w \in Workers, Retry(w) PROVE LockProtects'
  BY <1>16 DEF Retry, EndRun
<1>17. ASSUME NEW w \in Workers, StoreFails(w) PROVE LockProtects'
  BY <1>17 DEF StoreFails, Fault, Goto
<1>18. ASSUME NEW w \in Workers, CommitFails(w) PROVE LockProtects'
  BY <1>18 DEF CommitFails, Fault, Goto
<1>19. ASSUME NEW w \in Workers, CommitUnanswered(w) PROVE LockProtects'
  BY <1>19 DEF CommitUnanswered, Fault, Land, SetStatus, Goto
<1>20. ASSUME NEW w \in Workers, DeletionFails(w) PROVE LockProtects'
  BY <1>20 DEF DeletionFails, Fault, AfterDeletion, EndRun, Goto
<1>21. ASSUME NEW w \in Workers, Crash(w) PROVE LockProtects'
  BY <1>21 DEF Crash, Fault, EndRun
<1>22. ASSUME NEW r \in Rows, Replay(r) PROVE LockProtects'
  BY <1>22 DEF Replay, SetStatus, Enqueue, Unheld
<1>23. ASSUME NEW r \in Rows, ReplayUnqueued(r) PROVE LockProtects'
  BY <1>23 DEF ReplayUnqueued, SetStatus, Fault, Unheld
<1>24. ASSUME NEW r \in Rows, Delete(r) PROVE LockProtects'
  BY <1>24 DEF Delete, SetStatus, DropRaw, Fault, Unheld
<1>25. CASE UNCHANGED <<status, pc, job>>
  BY <1>25
<1>26. CASE Bystander
  BY <1>26, <1>25, Bystanders
<1>27. ASSUME NEW r \in Rows, PurgeRaw(r) PROVE UNCHANGED <<status, pc, job>>
  BY <1>27 DEF PurgeRaw, DropRaw, Fault, rowVars, rawVars, messageVars, fileVars,
     reqVars, workVars
<1>28. CASE UNCHANGED vars
  BY <1>28, <1>25 DEF vars
<1> QED
  BY <1>1, <1>2, <1>3, <1>4, <1>5, <1>6, <1>7, <1>8, <1>9, <1>10, <1>11, <1>12, <1>13,
     <1>14, <1>15, <1>16, <1>17, <1>18, <1>19, <1>20, <1>21, <1>22, <1>23, <1>24,
     <1>25, <1>26, <1>27, <1>28 DEF Next, Others, RequestStep, RunStep, RunFault,
     RowStep, Bystander

(* A row still to process has no message: landing it gives it one.         *)
LEMMA LandLands ==
  ASSUME TypeOK, LandsOnce, NEW w \in Workers, job[w] \in Rows,
         status[job[w]] \in Processable, Land(w)
  PROVE  LandsOnce'
<1>1. messages[job[w]] = 0
  BY DEF TypeOK, LandsOnce, Processable, Live
<1>2. messages' = [messages EXCEPT ![job[w]] = 1]
  BY <1>1 DEF Land
<1>3. status' = [status EXCEPT ![job[w]] = "processed"]
  BY DEF Land, SetStatus
<1> QED
  BY <1>1, <1>2, <1>3 DEF TypeOK, LandsOnce, Processable, Final, Live

(* A row lands only under its lock, as a row still to process, so with no  *)
(* message yet.                                                            *)
LEMMA LandsNext == Typed /\ LockProtects /\ LandsOnce /\ [Next]_vars => LandsOnce'
<1> SUFFICES ASSUME Typed /\ LockProtects /\ LandsOnce, [Next]_vars PROVE LandsOnce'
  OBVIOUS
<1> USE DEF Typed, TypeOK, InHandIsReal, rowVars, rawVars, messageVars, fileVars,
   reqVars, workVars, LockProtects, LandsOnce, Holding, Processable, Final, Live,
   Status
<1>1. ASSUME NEW q \in Requests, Insert(q) PROVE LandsOnce'
  BY <1>1 DEF Insert, EndRequest
<1>2. ASSUME NEW q \in Requests, InsertFails(q) PROVE LandsOnce'
  BY <1>2 DEF InsertFails, EndRequest, Fault
<1>3. ASSUME NEW w \in Workers, Settle(w) PROVE LandsOnce'
  BY <1>3 DEF Settle, SetStatus, EndRun
<1>4. ASSUME NEW w \in Workers, MarkUnprocessable(w) PROVE LandsOnce'
  BY <1>4 DEF MarkUnprocessable, FailRow, SetStatus, EndRun
<1>5. ASSUME NEW w \in Workers, Write(w) PROVE LandsOnce'
  BY <1>5, LandLands DEF Write
<1>6. ASSUME NEW w \in Workers, MarkFailed(w) PROVE LandsOnce'
  BY <1>6 DEF MarkFailed, FailRow, SetStatus, Goto
<1>7. ASSUME NEW w \in Workers, CommitUnanswered(w) PROVE LandsOnce'
  BY <1>7, LandLands DEF CommitUnanswered
<1>8. ASSUME NEW r \in Rows, Replay(r) PROVE LandsOnce'
  BY <1>8 DEF Replay, SetStatus, Enqueue, Unheld
<1>9. ASSUME NEW r \in Rows, ReplayUnqueued(r) PROVE LandsOnce'
  BY <1>9 DEF ReplayUnqueued, SetStatus, Fault, Unheld
<1>10. ASSUME NEW r \in Rows, Delete(r) PROVE LandsOnce'
  BY <1>10 DEF Delete, SetStatus, DropRaw, Fault, Unheld
<1>11. CASE UNCHANGED <<status, messages>>
  BY <1>11
<1>12. CASE Bystander
  BY <1>12, <1>11, Bystanders
<1>13. ASSUME NEW w \in Workers, BeginTriage(w) \/ Pass(w) \/ Unreadable(w) \/
   StoreFiles(w) \/ BeginWrite(w) \/ DeleteFiles(w) \/ Raise(w) \/ Announce(w) \/
   Retry(w) \/ StoreFails(w) \/ CommitFails(w) \/ DeletionFails(w) \/ Crash(w) PROVE
   UNCHANGED <<status, messages>>
  BY <1>13 DEF BeginTriage, Lockable, Goto, EndRun, Pass, Unreadable, StoreFiles,
     BeginWrite, DeleteFiles, AfterDeletion, Raise, Announce, Retry, StoreFails,
     Fault, CommitFails, DeletionFails, Crash, rowVars, rawVars, messageVars,
     fileVars, reqVars, workVars
<1>14. ASSUME NEW r \in Rows, PurgeRaw(r) PROVE UNCHANGED <<status, messages>>
  BY <1>14 DEF PurgeRaw, DropRaw, Fault, rowVars, rawVars, messageVars, fileVars,
     reqVars, workVars
<1>15. ASSUME NEW w \in Workers, NEW t \in Tasks, Take(w, t) PROVE UNCHANGED <<status,
   messages>>
  BY <1>15 DEF Take, rowVars, rawVars, messageVars, fileVars, reqVars, workVars
<1>16. CASE UNCHANGED vars
  BY <1>16, <1>11 DEF vars
<1> QED
  BY <1>1, <1>2, <1>3, <1>4, <1>5, <1>6, <1>7, <1>8, <1>9, <1>10, <1>11, <1>12, <1>13,
     <1>14, <1>15, <1>16 DEF Next, Others, RequestStep, RunStep, RunFault, RowStep,
     Bystander

(* A row's raw mail goes only with the row, or once it is settled.         *)
LEMMA KeptNext == Typed /\ WaitingIsKept /\ [Next]_vars => WaitingIsKept'
<1> SUFFICES ASSUME Typed /\ WaitingIsKept, [Next]_vars PROVE WaitingIsKept'
  OBVIOUS
<1> USE DEF Typed, TypeOK, InHandIsReal, rowVars, rawVars, messageVars, fileVars,
   reqVars, workVars, WaitingIsKept, Readable, Processable, Final, Live, Status
<1>1. ASSUME NEW q \in Requests, Insert(q) PROVE WaitingIsKept'
  BY <1>1 DEF Insert, EndRequest
<1>2. ASSUME NEW q \in Requests, InsertFails(q) PROVE WaitingIsKept'
  BY <1>2 DEF InsertFails, EndRequest, Fault
<1>3. ASSUME NEW w \in Workers, Settle(w) PROVE WaitingIsKept'
  BY <1>3 DEF Settle, SetStatus, EndRun
<1>4. ASSUME NEW w \in Workers, MarkUnprocessable(w) PROVE WaitingIsKept'
  BY <1>4 DEF MarkUnprocessable, FailRow, SetStatus, EndRun
<1>5. ASSUME NEW w \in Workers, Write(w) PROVE WaitingIsKept'
  BY <1>5 DEF Write, Land, SetStatus, Goto
<1>6. ASSUME NEW w \in Workers, MarkFailed(w) PROVE WaitingIsKept'
  BY <1>6 DEF MarkFailed, FailRow, SetStatus, Goto
<1>7. ASSUME NEW w \in Workers, CommitUnanswered(w) PROVE WaitingIsKept'
  BY <1>7 DEF CommitUnanswered, Fault, Land, SetStatus, Goto
<1>8. ASSUME NEW r \in Rows, Replay(r) PROVE WaitingIsKept'
  BY <1>8 DEF Replay, SetStatus, Enqueue, Unheld
<1>9. ASSUME NEW r \in Rows, ReplayUnqueued(r) PROVE WaitingIsKept'
  BY <1>9 DEF ReplayUnqueued, SetStatus, Fault, Unheld
<1>10. ASSUME NEW r \in Rows, PurgeRaw(r) PROVE WaitingIsKept'
  BY <1>10 DEF PurgeRaw, DropRaw, Fault
<1>11. ASSUME NEW r \in Rows, Delete(r) PROVE WaitingIsKept'
  BY <1>11 DEF Delete, SetStatus, DropRaw, Fault, Unheld
<1>12. CASE UNCHANGED <<status, raw, rawFiles>>
  BY <1>12
<1>13. CASE Bystander
  BY <1>13, <1>12, Bystanders
<1>14. ASSUME NEW w \in Workers, BeginTriage(w) \/ Pass(w) \/ Unreadable(w) \/
   StoreFiles(w) \/ BeginWrite(w) \/ DeleteFiles(w) \/ Raise(w) \/ Announce(w) \/
   Retry(w) \/ StoreFails(w) \/ CommitFails(w) \/ DeletionFails(w) \/ Crash(w) PROVE
   UNCHANGED <<status, raw, rawFiles>>
  BY <1>14 DEF BeginTriage, Lockable, Goto, EndRun, Pass, Unreadable, StoreFiles,
     BeginWrite, DeleteFiles, AfterDeletion, Raise, Announce, Retry, StoreFails,
     Fault, CommitFails, DeletionFails, Crash, rowVars, rawVars, messageVars,
     fileVars, reqVars, workVars
<1>15. ASSUME NEW w \in Workers, NEW t \in Tasks, Take(w, t) PROVE UNCHANGED <<status,
   raw, rawFiles>>
  BY <1>15 DEF Take, rowVars, rawVars, messageVars, fileVars, reqVars, workVars
<1>16. CASE UNCHANGED vars
  BY <1>16, <1>12 DEF vars
<1> QED
  BY <1>1, <1>2, <1>3, <1>4, <1>5, <1>6, <1>7, <1>8, <1>9, <1>10, <1>11, <1>12, <1>13,
     <1>14, <1>15, <1>16 DEF Next, Others, RequestStep, RunStep, RunFault, RowStep,
     Bystander

(* A row not yet created names no raw file.                                *)
LEMMA EmptyNext == Typed /\ LockProtects /\ FreeIsEmpty /\ [Next]_vars => FreeIsEmpty'
<1> SUFFICES ASSUME Typed /\ LockProtects /\ FreeIsEmpty, [Next]_vars PROVE FreeIsEmpty'
  OBVIOUS
<1> USE DEF Typed, TypeOK, InHandIsReal, rowVars, rawVars, messageVars, fileVars,
   reqVars, workVars, LockProtects, Holding, FreeIsEmpty, Processable, Final, Live,
   Status
<1>1. ASSUME NEW q \in Requests, Insert(q) PROVE FreeIsEmpty'
  BY <1>1 DEF Insert, EndRequest
<1>2. ASSUME NEW q \in Requests, InsertFails(q) PROVE FreeIsEmpty'
  BY <1>2 DEF InsertFails, EndRequest, Fault
<1>3. ASSUME NEW w \in Workers, Settle(w) PROVE FreeIsEmpty'
  BY <1>3 DEF Settle, SetStatus, EndRun
<1>4. ASSUME NEW w \in Workers, MarkUnprocessable(w) PROVE FreeIsEmpty'
  BY <1>4 DEF MarkUnprocessable, FailRow, SetStatus, EndRun
<1>5. ASSUME NEW w \in Workers, Write(w) PROVE FreeIsEmpty'
  BY <1>5 DEF Write, Land, SetStatus, Goto
<1>6. ASSUME NEW w \in Workers, MarkFailed(w) PROVE FreeIsEmpty'
  BY <1>6 DEF MarkFailed, FailRow, SetStatus, Goto
<1>7. ASSUME NEW w \in Workers, CommitUnanswered(w) PROVE FreeIsEmpty'
  BY <1>7 DEF CommitUnanswered, Fault, Land, SetStatus, Goto
<1>8. ASSUME NEW r \in Rows, Replay(r) PROVE FreeIsEmpty'
  BY <1>8 DEF Replay, SetStatus, Enqueue, Unheld
<1>9. ASSUME NEW r \in Rows, ReplayUnqueued(r) PROVE FreeIsEmpty'
  BY <1>9 DEF ReplayUnqueued, SetStatus, Fault, Unheld
<1>10. ASSUME NEW r \in Rows, PurgeRaw(r) PROVE FreeIsEmpty'
  BY <1>10 DEF PurgeRaw, DropRaw, Fault
<1>11. ASSUME NEW r \in Rows, Delete(r) PROVE FreeIsEmpty'
  BY <1>11 DEF Delete, SetStatus, DropRaw, Fault, Unheld
<1>12. CASE UNCHANGED <<status, raw>>
  BY <1>12
<1>13. CASE Bystander
  BY <1>13, <1>12, Bystanders
<1>14. ASSUME NEW w \in Workers, BeginTriage(w) \/ Pass(w) \/ Unreadable(w) \/
   StoreFiles(w) \/ BeginWrite(w) \/ DeleteFiles(w) \/ Raise(w) \/ Announce(w) \/
   Retry(w) \/ StoreFails(w) \/ CommitFails(w) \/ DeletionFails(w) \/ Crash(w) PROVE
   UNCHANGED <<status, raw>>
  BY <1>14 DEF BeginTriage, Lockable, Goto, EndRun, Pass, Unreadable, StoreFiles,
     BeginWrite, DeleteFiles, AfterDeletion, Raise, Announce, Retry, StoreFails,
     Fault, CommitFails, DeletionFails, Crash, rowVars, rawVars, messageVars,
     fileVars, reqVars, workVars
<1>15. ASSUME NEW w \in Workers, NEW t \in Tasks, Take(w, t) PROVE UNCHANGED <<status,
   raw>>
  BY <1>15 DEF Take, rowVars, rawVars, messageVars, fileVars, reqVars, workVars
<1>16. CASE UNCHANGED vars
  BY <1>16, <1>12 DEF vars
<1> QED
  BY <1>1, <1>2, <1>3, <1>4, <1>5, <1>6, <1>7, <1>8, <1>9, <1>10, <1>11, <1>12, <1>13,
     <1>14, <1>15, <1>16 DEF Next, Others, RequestStep, RunStep, RunFault, RowStep,
     Bystander

(* A row is inserted only when the constraints allow it, and no later      *)
(* change of its status makes it conflict.                                 *)
LEMMA OneRowNext == Typed /\ LockProtects /\ OneRowPerMailbox /\ [Next]_vars => OneRowPerMailbox'
<1> SUFFICES ASSUME Typed /\ LockProtects /\ OneRowPerMailbox, [Next]_vars PROVE OneRowPerMailbox'
  OBVIOUS
<1> USE DEF Typed, TypeOK, InHandIsReal, rowVars, rawVars, messageVars, fileVars,
   reqVars, workVars, LockProtects, Holding, OneRowPerMailbox, Taken, Processable,
   Final, Live, Status, Deliveries, Boxes
<1>1. ASSUME NEW q \in Requests, Insert(q) PROVE OneRowPerMailbox'
  BY <1>1 DEF Insert, EndRequest
<1>2. ASSUME NEW q \in Requests, InsertFails(q) PROVE OneRowPerMailbox'
  BY <1>2 DEF InsertFails, EndRequest, Fault
<1>3. ASSUME NEW w \in Workers, Settle(w) PROVE OneRowPerMailbox'
  BY <1>3 DEF Settle, SetStatus, EndRun
<1>4. ASSUME NEW w \in Workers, MarkUnprocessable(w) PROVE OneRowPerMailbox'
  BY <1>4 DEF MarkUnprocessable, FailRow, SetStatus, EndRun
<1>5. ASSUME NEW w \in Workers, Write(w) PROVE OneRowPerMailbox'
  BY <1>5 DEF Write, Land, SetStatus, Goto
<1>6. ASSUME NEW w \in Workers, MarkFailed(w) PROVE OneRowPerMailbox'
  BY <1>6 DEF MarkFailed, FailRow, SetStatus, Goto
<1>7. ASSUME NEW w \in Workers, CommitUnanswered(w) PROVE OneRowPerMailbox'
  BY <1>7 DEF CommitUnanswered, Fault, Land, SetStatus, Goto
<1>8. ASSUME NEW r \in Rows, Replay(r) PROVE OneRowPerMailbox'
  BY <1>8 DEF Replay, SetStatus, Enqueue, Unheld
<1>9. ASSUME NEW r \in Rows, ReplayUnqueued(r) PROVE OneRowPerMailbox'
  BY <1>9 DEF ReplayUnqueued, SetStatus, Fault, Unheld
<1>10. ASSUME NEW r \in Rows, Delete(r) PROVE OneRowPerMailbox'
  BY <1>10 DEF Delete, SetStatus, DropRaw, Fault, Unheld
<1>11. CASE UNCHANGED <<status, mail, box>>
  BY <1>11
<1>12. CASE Bystander
  BY <1>12, <1>11, Bystanders
<1>13. ASSUME NEW w \in Workers, BeginTriage(w) \/ Pass(w) \/ Unreadable(w) \/
   StoreFiles(w) \/ BeginWrite(w) \/ DeleteFiles(w) \/ Raise(w) \/ Announce(w) \/
   Retry(w) \/ StoreFails(w) \/ CommitFails(w) \/ DeletionFails(w) \/ Crash(w) PROVE
   UNCHANGED <<status, mail, box>>
  BY <1>13 DEF BeginTriage, Lockable, Goto, EndRun, Pass, Unreadable, StoreFiles,
     BeginWrite, DeleteFiles, AfterDeletion, Raise, Announce, Retry, StoreFails,
     Fault, CommitFails, DeletionFails, Crash, rowVars, rawVars, messageVars,
     fileVars, reqVars, workVars
<1>14. ASSUME NEW r \in Rows, PurgeRaw(r) PROVE UNCHANGED <<status, mail, box>>
  BY <1>14 DEF PurgeRaw, DropRaw, Fault, rowVars, rawVars, messageVars, fileVars,
     reqVars, workVars
<1>15. ASSUME NEW w \in Workers, NEW t \in Tasks, Take(w, t) PROVE UNCHANGED <<status,
   mail, box>>
  BY <1>15 DEF Take, rowVars, rawVars, messageVars, fileVars, reqVars, workVars
<1>16. CASE UNCHANGED vars
  BY <1>16, <1>11 DEF vars
<1> QED
  BY <1>1, <1>2, <1>3, <1>4, <1>5, <1>6, <1>7, <1>8, <1>9, <1>10, <1>11, <1>12, <1>13,
     <1>14, <1>15, <1>16 DEF Next, Others, RequestStep, RunStep, RunFault, RowStep,
     Bystander

(* A run's files are attached only by itself, when the row lands, so never *)
(* while the run may still take them back.                                 *)
LEMMA OwnNext == Typed /\ LockProtects /\ OwnFiles /\ [Next]_vars => OwnFiles'
<1> SUFFICES ASSUME Typed /\ LockProtects /\ OwnFiles, [Next]_vars PROVE OwnFiles'
  OBVIOUS
<1> USE DEF Typed, TypeOK, InHandIsReal, rowVars, rawVars, messageVars, fileVars,
   reqVars, workVars, OwnFiles, LockProtects, File, Holding, Processable, Final, Live,
   Status
<1>1. ASSUME NEW q \in Requests, Insert(q) PROVE OwnFiles'
  BY <1>1 DEF Insert, EndRequest
<1>2. ASSUME NEW q \in Requests, InsertFails(q) PROVE OwnFiles'
  BY <1>2 DEF InsertFails, EndRequest, Fault
<1>3. ASSUME NEW w \in Workers, NEW t \in Tasks, Take(w, t) PROVE OwnFiles'
  BY <1>3 DEF Take
<1>4. ASSUME NEW w \in Workers, BeginTriage(w) PROVE OwnFiles'
  BY <1>4 DEF BeginTriage, Lockable, Goto, EndRun
<1>5. ASSUME NEW w \in Workers, Settle(w) PROVE OwnFiles'
  BY <1>5 DEF Settle, SetStatus, EndRun
<1>6. ASSUME NEW w \in Workers, Pass(w) PROVE OwnFiles'
  BY <1>6 DEF Pass, Goto
<1>7. ASSUME NEW w \in Workers, Unreadable(w) PROVE OwnFiles'
  BY <1>7 DEF Unreadable, Goto
<1>8. ASSUME NEW w \in Workers, MarkUnprocessable(w) PROVE OwnFiles'
  BY <1>8 DEF MarkUnprocessable, FailRow, SetStatus, EndRun
<1>9. ASSUME NEW w \in Workers, StoreFiles(w) PROVE OwnFiles'
  BY <1>9 DEF StoreFiles, Goto
<1>10. ASSUME NEW w \in Workers, BeginWrite(w) PROVE OwnFiles'
  BY <1>10 DEF BeginWrite, Lockable, Goto
<1>11. ASSUME NEW w \in Workers, Write(w) PROVE OwnFiles'
  BY <1>11 DEF Write, Land, SetStatus, Goto
<1>12. ASSUME NEW w \in Workers, DeleteFiles(w) PROVE OwnFiles'
  BY <1>12 DEF DeleteFiles, AfterDeletion, EndRun, Goto
<1>13. ASSUME NEW w \in Workers, Raise(w) PROVE OwnFiles'
  BY <1>13 DEF Raise, Goto
<1>14. ASSUME NEW w \in Workers, Announce(w) PROVE OwnFiles'
  BY <1>14 DEF Announce, EndRun
<1>15. ASSUME NEW w \in Workers, MarkFailed(w) PROVE OwnFiles'
  BY <1>15 DEF MarkFailed, FailRow, SetStatus, Goto
<1>16. ASSUME NEW w \in Workers, Retry(w) PROVE OwnFiles'
  BY <1>16 DEF Retry, EndRun
<1>17. ASSUME NEW w \in Workers, StoreFails(w) PROVE OwnFiles'
  BY <1>17 DEF StoreFails, Fault, Goto
<1>18. ASSUME NEW w \in Workers, CommitFails(w) PROVE OwnFiles'
  BY <1>18 DEF CommitFails, Fault, Goto
<1>19. ASSUME NEW w \in Workers, CommitUnanswered(w) PROVE OwnFiles'
  BY <1>19 DEF CommitUnanswered, Fault, Land, SetStatus, Goto
<1>20. ASSUME NEW w \in Workers, DeletionFails(w) PROVE OwnFiles'
  BY <1>20 DEF DeletionFails, Fault, AfterDeletion, EndRun, Goto
<1>21. ASSUME NEW w \in Workers, Crash(w) PROVE OwnFiles'
  BY <1>21 DEF Crash, Fault, EndRun
<1>22. ASSUME NEW r \in Rows, Replay(r) PROVE OwnFiles'
  BY <1>22 DEF Replay, SetStatus, Enqueue, Unheld
<1>23. ASSUME NEW r \in Rows, ReplayUnqueued(r) PROVE OwnFiles'
  BY <1>23 DEF ReplayUnqueued, SetStatus, Fault, Unheld
<1>24. ASSUME NEW r \in Rows, Delete(r) PROVE OwnFiles'
  BY <1>24 DEF Delete, SetStatus, DropRaw, Fault, Unheld
<1>25. CASE UNCHANGED <<status, attached, files, pc, job>>
  BY <1>25
<1>26. CASE Bystander
  BY <1>26, <1>25, Bystanders
<1>27. ASSUME NEW r \in Rows, PurgeRaw(r) PROVE UNCHANGED <<status, attached, files,
   pc, job>>
  BY <1>27 DEF PurgeRaw, DropRaw, Fault, rowVars, rawVars, messageVars, fileVars,
     reqVars, workVars
<1>28. CASE UNCHANGED vars
  BY <1>28, <1>25 DEF vars
<1> QED
  BY <1>1, <1>2, <1>3, <1>4, <1>5, <1>6, <1>7, <1>8, <1>9, <1>10, <1>11, <1>12, <1>13,
     <1>14, <1>15, <1>16, <1>17, <1>18, <1>19, <1>20, <1>21, <1>22, <1>23, <1>24,
     <1>25, <1>26, <1>27, <1>28 DEF Next, Others, RequestStep, RunStep, RunFault,
     RowStep, Bystander

(* What is attached is in storage, and not deleted.                        *)
LEMMA AttachNext == Typed /\ OwnFiles /\ AttachmentsExist /\ [Next]_vars => AttachmentsExist'
<1> SUFFICES ASSUME Typed /\ OwnFiles /\ AttachmentsExist, [Next]_vars PROVE AttachmentsExist'
  OBVIOUS
<1> USE DEF Typed, TypeOK, InHandIsReal, rowVars, rawVars, messageVars, fileVars,
   reqVars, workVars, AttachmentsExist, OwnFiles, File
<1>1. ASSUME NEW w \in Workers, StoreFiles(w) PROVE AttachmentsExist'
  BY <1>1 DEF StoreFiles, Goto
<1>2. ASSUME NEW w \in Workers, Write(w) PROVE AttachmentsExist'
  BY <1>2 DEF Write, Land, SetStatus, Goto
<1>3. ASSUME NEW w \in Workers, DeleteFiles(w) PROVE AttachmentsExist'
  BY <1>3 DEF DeleteFiles, AfterDeletion, EndRun, Goto
<1>4. ASSUME NEW w \in Workers, StoreFails(w) PROVE AttachmentsExist'
  BY <1>4 DEF StoreFails, Fault, Goto
<1>5. ASSUME NEW w \in Workers, CommitUnanswered(w) PROVE AttachmentsExist'
  BY <1>5 DEF CommitUnanswered, Fault, Land, SetStatus, Goto
<1>6. CASE UNCHANGED <<attached, files>>
  BY <1>6
<1>7. CASE Bystander
  BY <1>7, <1>6, Bystanders
<1>8. ASSUME NEW q \in Requests, Insert(q) \/ InsertFails(q) PROVE UNCHANGED
   <<attached, files>>
  BY <1>8 DEF Insert, EndRequest, InsertFails, Fault, rowVars, rawVars, messageVars,
     fileVars, reqVars, workVars
<1>9. ASSUME NEW w \in Workers, BeginTriage(w) \/ Settle(w) \/ Pass(w) \/
   Unreadable(w) \/ MarkUnprocessable(w) \/ BeginWrite(w) \/ Raise(w) \/ Announce(w)
   \/ MarkFailed(w) \/ Retry(w) \/ CommitFails(w) \/ DeletionFails(w) \/ Crash(w)
   PROVE UNCHANGED <<attached, files>>
  BY <1>9 DEF BeginTriage, Lockable, Goto, EndRun, Settle, SetStatus, Pass,
     Unreadable, MarkUnprocessable, FailRow, BeginWrite, Raise, Announce, MarkFailed,
     Retry, CommitFails, Fault, DeletionFails, AfterDeletion, Crash, rowVars, rawVars,
     messageVars, fileVars, reqVars, workVars
<1>10. ASSUME NEW r \in Rows, Replay(r) \/ ReplayUnqueued(r) \/ PurgeRaw(r) \/
   Delete(r) PROVE UNCHANGED <<attached, files>>
  BY <1>10 DEF Replay, SetStatus, Enqueue, Unheld, ReplayUnqueued, Fault, PurgeRaw,
     DropRaw, Delete, rowVars, rawVars, messageVars, fileVars, reqVars, workVars
<1>11. ASSUME NEW w \in Workers, NEW t \in Tasks, Take(w, t) PROVE UNCHANGED
   <<attached, files>>
  BY <1>11 DEF Take, rowVars, rawVars, messageVars, fileVars, reqVars, workVars
<1>12. CASE UNCHANGED vars
  BY <1>12, <1>6 DEF vars
<1> QED
  BY <1>1, <1>2, <1>3, <1>4, <1>5, <1>6, <1>7, <1>8, <1>9, <1>10, <1>11, <1>12 DEF
     Next, Others, RequestStep, RunStep, RunFault, RowStep, Bystander

(* A run hands over, deletes or leaks its files before it ends.            *)
LEMMA AccountNext == Typed /\ OwnFiles /\ FilesAccounted /\ [Next]_vars => FilesAccounted'
<1> SUFFICES ASSUME Typed /\ OwnFiles /\ FilesAccounted, [Next]_vars PROVE FilesAccounted'
  OBVIOUS
<1> USE DEF Typed, TypeOK, InHandIsReal, rowVars, rawVars, messageVars, fileVars,
   reqVars, workVars, FilesAccounted, InHand, OwnFiles, File
<1>1. ASSUME NEW w \in Workers, NEW t \in Tasks, Take(w, t) PROVE FilesAccounted'
  BY <1>1 DEF Take
<1>2. ASSUME NEW w \in Workers, BeginTriage(w) PROVE FilesAccounted'
  BY <1>2 DEF BeginTriage, Lockable, Goto, EndRun
<1>3. ASSUME NEW w \in Workers, Settle(w) PROVE FilesAccounted'
  BY <1>3 DEF Settle, SetStatus, EndRun
<1>4. ASSUME NEW w \in Workers, Pass(w) PROVE FilesAccounted'
  BY <1>4 DEF Pass, Goto
<1>5. ASSUME NEW w \in Workers, Unreadable(w) PROVE FilesAccounted'
  BY <1>5 DEF Unreadable, Goto
<1>6. ASSUME NEW w \in Workers, MarkUnprocessable(w) PROVE FilesAccounted'
  BY <1>6 DEF MarkUnprocessable, FailRow, SetStatus, EndRun
<1>7. ASSUME NEW w \in Workers, StoreFiles(w) PROVE FilesAccounted'
  BY <1>7 DEF StoreFiles, Goto
<1>8. ASSUME NEW w \in Workers, BeginWrite(w) PROVE FilesAccounted'
  BY <1>8 DEF BeginWrite, Lockable, Goto
<1>9. ASSUME NEW w \in Workers, Write(w) PROVE FilesAccounted'
  BY <1>9 DEF Write, Land, SetStatus, Goto
<1>10. ASSUME NEW w \in Workers, DeleteFiles(w) PROVE FilesAccounted'
  BY <1>10 DEF DeleteFiles, AfterDeletion, EndRun, Goto
<1>11. ASSUME NEW w \in Workers, Raise(w) PROVE FilesAccounted'
  BY <1>11 DEF Raise, Goto
<1>12. ASSUME NEW w \in Workers, Announce(w) PROVE FilesAccounted'
  BY <1>12 DEF Announce, EndRun
<1>13. ASSUME NEW w \in Workers, MarkFailed(w) PROVE FilesAccounted'
  BY <1>13 DEF MarkFailed, FailRow, SetStatus, Goto
<1>14. ASSUME NEW w \in Workers, Retry(w) PROVE FilesAccounted'
  BY <1>14 DEF Retry, EndRun
<1>15. ASSUME NEW w \in Workers, StoreFails(w) PROVE FilesAccounted'
  BY <1>15 DEF StoreFails, Fault, Goto
<1>16. ASSUME NEW w \in Workers, CommitFails(w) PROVE FilesAccounted'
  BY <1>16 DEF CommitFails, Fault, Goto
<1>17. ASSUME NEW w \in Workers, CommitUnanswered(w) PROVE FilesAccounted'
  BY <1>17 DEF CommitUnanswered, Fault, Land, SetStatus, Goto
<1>18. ASSUME NEW w \in Workers, DeletionFails(w) PROVE FilesAccounted'
  BY <1>18 DEF DeletionFails, Fault, AfterDeletion, EndRun, Goto
<1>19. ASSUME NEW w \in Workers, Crash(w) PROVE FilesAccounted'
  BY <1>19 DEF Crash, Fault, EndRun
<1>20. CASE UNCHANGED <<files, attached, leaked, pc, job>>
  BY <1>20
<1>21. CASE Bystander
  BY <1>21, <1>20, Bystanders
<1>22. ASSUME NEW q \in Requests, Insert(q) \/ InsertFails(q) PROVE UNCHANGED <<files,
   attached, leaked, pc, job>>
  BY <1>22 DEF Insert, EndRequest, InsertFails, Fault, rowVars, rawVars, messageVars,
     fileVars, reqVars, workVars
<1>23. ASSUME NEW r \in Rows, Replay(r) \/ ReplayUnqueued(r) \/ PurgeRaw(r) \/
   Delete(r) PROVE UNCHANGED <<files, attached, leaked, pc, job>>
  BY <1>23 DEF Replay, SetStatus, Enqueue, Unheld, ReplayUnqueued, Fault, PurgeRaw,
     DropRaw, Delete, rowVars, rawVars, messageVars, fileVars, reqVars, workVars
<1>24. CASE UNCHANGED vars
  BY <1>24, <1>20 DEF vars
<1> QED
  BY <1>1, <1>2, <1>3, <1>4, <1>5, <1>6, <1>7, <1>8, <1>9, <1>10, <1>11, <1>12, <1>13,
     <1>14, <1>15, <1>16, <1>17, <1>18, <1>19, <1>20, <1>21, <1>22, <1>23, <1>24 DEF
     Next, Others, RequestStep, RunStep, RunFault, RowStep, Bystander

(* A run announces the message it has just committed, once; no other run   *)
(* has landed the row.                                                     *)
LEMMA AnnounceNext ==
  Typed /\ LockProtects /\ LandsOnce /\ Announcing /\ AnnouncedOnce /\ [Next]_vars
    => (Announcing /\ AnnouncedOnce)'
<1> SUFFICES ASSUME Typed /\ LockProtects /\ LandsOnce /\ Announcing /\ AnnouncedOnce,
                    [Next]_vars
             PROVE  (Announcing /\ AnnouncedOnce)'
  OBVIOUS
<1> USE DEF Typed, TypeOK, InHandIsReal, rowVars, rawVars, messageVars, fileVars,
   reqVars, workVars, LockProtects, LandsOnce, Announcing, AnnouncedOnce, Holding,
   Processable, Final, Live
<1>1. ASSUME NEW w \in Workers, NEW t \in Tasks, Take(w, t) PROVE (Announcing /\ AnnouncedOnce)'
  BY <1>1 DEF Take
<1>2. ASSUME NEW w \in Workers, BeginTriage(w) PROVE (Announcing /\ AnnouncedOnce)'
  BY <1>2 DEF BeginTriage, Lockable, Goto, EndRun
<1>3. ASSUME NEW w \in Workers, Settle(w) PROVE (Announcing /\ AnnouncedOnce)'
  BY <1>3 DEF Settle, SetStatus, EndRun
<1>4. ASSUME NEW w \in Workers, Pass(w) PROVE (Announcing /\ AnnouncedOnce)'
  BY <1>4 DEF Pass, Goto
<1>5. ASSUME NEW w \in Workers, Unreadable(w) PROVE (Announcing /\ AnnouncedOnce)'
  BY <1>5 DEF Unreadable, Goto
<1>6. ASSUME NEW w \in Workers, MarkUnprocessable(w) PROVE (Announcing /\ AnnouncedOnce)'
  BY <1>6 DEF MarkUnprocessable, FailRow, SetStatus, EndRun
<1>7. ASSUME NEW w \in Workers, StoreFiles(w) PROVE (Announcing /\ AnnouncedOnce)'
  BY <1>7 DEF StoreFiles, Goto
<1>8. ASSUME NEW w \in Workers, BeginWrite(w) PROVE (Announcing /\ AnnouncedOnce)'
  BY <1>8 DEF BeginWrite, Lockable, Goto
<1>9. ASSUME NEW w \in Workers, Write(w) PROVE (Announcing /\ AnnouncedOnce)'
  BY <1>9 DEF Write, Land, SetStatus, Goto
<1>10. ASSUME NEW w \in Workers, DeleteFiles(w) PROVE (Announcing /\ AnnouncedOnce)'
  BY <1>10 DEF DeleteFiles, AfterDeletion, EndRun, Goto
<1>11. ASSUME NEW w \in Workers, Raise(w) PROVE (Announcing /\ AnnouncedOnce)'
  BY <1>11 DEF Raise, Goto
<1>12. ASSUME NEW w \in Workers, Announce(w) PROVE (Announcing /\ AnnouncedOnce)'
  BY <1>12 DEF Announce, EndRun
<1>13. ASSUME NEW w \in Workers, MarkFailed(w) PROVE (Announcing /\ AnnouncedOnce)'
  BY <1>13 DEF MarkFailed, FailRow, SetStatus, Goto
<1>14. ASSUME NEW w \in Workers, Retry(w) PROVE (Announcing /\ AnnouncedOnce)'
  BY <1>14 DEF Retry, EndRun
<1>15. ASSUME NEW w \in Workers, StoreFails(w) PROVE (Announcing /\ AnnouncedOnce)'
  BY <1>15 DEF StoreFails, Fault, Goto
<1>16. ASSUME NEW w \in Workers, CommitFails(w) PROVE (Announcing /\ AnnouncedOnce)'
  BY <1>16 DEF CommitFails, Fault, Goto
<1>17. ASSUME NEW w \in Workers, CommitUnanswered(w) PROVE (Announcing /\ AnnouncedOnce)'
  BY <1>17 DEF CommitUnanswered, Fault, Land, SetStatus, Goto
<1>18. ASSUME NEW w \in Workers, DeletionFails(w) PROVE (Announcing /\ AnnouncedOnce)'
  BY <1>18 DEF DeletionFails, Fault, AfterDeletion, EndRun, Goto
<1>19. ASSUME NEW w \in Workers, Crash(w) PROVE (Announcing /\ AnnouncedOnce)'
  BY <1>19 DEF Crash, Fault, EndRun
<1>20. CASE UNCHANGED <<messages, announced, pc, job>>
  BY <1>20
<1>21. CASE Bystander
  BY <1>21, <1>20, Bystanders
<1>22. ASSUME NEW q \in Requests, Insert(q) \/ InsertFails(q) PROVE UNCHANGED
   <<messages, announced, pc, job>>
  BY <1>22 DEF Insert, EndRequest, InsertFails, Fault, rowVars, rawVars, messageVars,
     fileVars, reqVars, workVars
<1>23. ASSUME NEW r \in Rows, Replay(r) \/ ReplayUnqueued(r) \/ PurgeRaw(r) \/
   Delete(r) PROVE UNCHANGED <<messages, announced, pc, job>>
  BY <1>23 DEF Replay, SetStatus, Enqueue, Unheld, ReplayUnqueued, Fault, PurgeRaw,
     DropRaw, Delete, rowVars, rawVars, messageVars, fileVars, reqVars, workVars
<1>24. CASE UNCHANGED vars
  BY <1>24, <1>20 DEF vars
<1> QED
  BY <1>1, <1>2, <1>3, <1>4, <1>5, <1>6, <1>7, <1>8, <1>9, <1>10, <1>11, <1>12, <1>13,
     <1>14, <1>15, <1>16, <1>17, <1>18, <1>19, <1>20, <1>21, <1>22, <1>23, <1>24 DEF
     Next, Others, RequestStep, RunStep, RunFault, RowStep, Bystander

(* The inductive invariant holds at first,                                 *)
LEMMA InitIInv == Init => IInv
<1> SUFFICES ASSUME Init PROVE IInv
  OBVIOUS
<1>1. Typed
  BY InitTyped
<1>2. LockProtects /\ Announcing /\ OwnFiles
  BY <1>1 DEF Init, LockProtects, Holding, Announcing, OwnFiles
<1>3. LandsOnce /\ WaitingIsKept /\ FreeIsEmpty /\ OneRowPerMailbox
  BY <1>1 DEF Init, LandsOnce, WaitingIsKept, FreeIsEmpty, OneRowPerMailbox,
     Processable, Final, Live
<1>4. AttachmentsExist /\ FilesAccounted /\ AnnouncedOnce
  BY <1>1 DEF Init, AttachmentsExist, FilesAccounted, AnnouncedOnce
<1> QED
  BY <1>1, <1>2, <1>3, <1>4 DEF Typed, IInv

(* and every step preserves it,                                            *)
LEMMA IInvNext == IInv /\ [Next]_vars => IInv'
<1> SUFFICES ASSUME IInv, [Next]_vars PROVE IInv'
  OBVIOUS
<1>1. Typed /\ LockProtects /\ OwnFiles /\ LandsOnce
  BY DEF IInv, Typed
<1>2. Typed' /\ LockProtects' /\ LandsOnce'
  BY <1>1, TypedNext, LockNext, LandsNext
<1>3. WaitingIsKept' /\ FreeIsEmpty' /\ OneRowPerMailbox'
  BY <1>1, KeptNext, EmptyNext, OneRowNext DEF IInv
<1>4. OwnFiles' /\ AttachmentsExist' /\ FilesAccounted'
  BY <1>1, OwnNext, AttachNext, AccountNext DEF IInv
<1>5. Announcing' /\ AnnouncedOnce'
  BY <1>1, AnnounceNext DEF IInv
<1> QED
  BY <1>2, <1>3, <1>4, <1>5 DEF IInv, Typed

(* so it always holds.                                                     *)
THEOREM InvCorrect == Spec => []IInv
BY InitIInv, IInvNext, PTL DEF Spec

(* Every variable keeps its type: no retry beyond MaxRetries, no lock on a *)
(* row that is not there.                                                  *)
THEOREM TypeCorrect == Spec => []TypeOK
<1>1. IInv => TypeOK
  BY DEF IInv
<1> QED
  BY <1>1, InvCorrect, PTL

(* A row becomes one message at most, and has it exactly while processed,  *)
(* whatever runs overlap (process: "Safe to run again").                   *)
THEOREM OneLanding == Spec => []LandsOnce
<1>1. IInv => LandsOnce
  BY DEF IInv
<1> QED
  BY <1>1, InvCorrect, PTL

(* The files of a message that landed are never deleted by a run that      *)
(* cleans up after itself (process, _delete_files).                        *)
THEOREM NoFileTakenBack == Spec => []AttachmentsExist
<1>1. IInv => AttachmentsExist
  BY DEF IInv
<1> QED
  BY <1>1, InvCorrect, PTL

(* A mail still to process keeps its raw file (purge_inbound_raw,          *)
(* delete_raw_mail).                                                       *)
THEOREM ContentKept == Spec => []WaitingIsKept
<1>1. IInv => WaitingIsKept
  BY DEF IInv
<1> QED
  BY <1>1, InvCorrect, PTL

(* Concurrent deliveries of a mail make one row for each mailbox (store    *)
(* and the constraints of InboundEmail).                                   *)
THEOREM OneRow == Spec => []OneRowPerMailbox
<1>1. IInv => OneRowPerMailbox
  BY DEF IInv
<1> QED
  BY <1>1, InvCorrect, PTL

(* Each attachment file is a message's, a run's, or left by a fault.       *)
THEOREM FilesKnown == Spec => []FilesAccounted
<1>1. IInv => FilesAccounted
  BY DEF IInv
<1> QED
  BY <1>1, InvCorrect, PTL

(* Both: the storage holds the files messages have, and no others          *)
(* (_store_files, _delete_files).                                          *)
THEOREM FilesCorrect == Spec => []FilesRight
<1> QED
  BY NoFileTakenBack, FilesKnown, PTL DEF FilesRight

(* A message is announced once at most, and only once committed            *)
(* (_announce).                                                            *)
THEOREM HeardOnce == Spec => []AnnouncedOnce
<1>1. IInv => AnnouncedOnce
  BY DEF IInv
<1> QED
  BY <1>1, InvCorrect, PTL

(* A settled row keeps its status until it is deleted: no late failure,    *)
(* sweep or replay reopens it (_finish, _mark_failed, replay).             *)
(* No step changes a settled row, but to delete it.                        *)
LEMMA SettledStep == IInv /\ [Next]_vars => Settled
<1> SUFFICES ASSUME IInv, [Next]_vars PROVE Settled
  OBVIOUS
<1> USE DEF Typed, TypeOK, InHandIsReal, rowVars, rawVars, messageVars, fileVars,
   reqVars, workVars, IInv, LockProtects, Holding, Settled, Processable, Final, Live,
   Status
<1>1. ASSUME NEW q \in Requests, Insert(q) PROVE Settled
  BY <1>1 DEF Insert, EndRequest
<1>2. ASSUME NEW q \in Requests, InsertFails(q) PROVE Settled
  BY <1>2 DEF InsertFails, EndRequest, Fault
<1>3. ASSUME NEW w \in Workers, Settle(w) PROVE Settled
  BY <1>3 DEF Settle, SetStatus, EndRun
<1>4. ASSUME NEW w \in Workers, MarkUnprocessable(w) PROVE Settled
  BY <1>4 DEF MarkUnprocessable, FailRow, SetStatus, EndRun
<1>5. ASSUME NEW w \in Workers, Write(w) PROVE Settled
  BY <1>5 DEF Write, Land, SetStatus, Goto
<1>6. ASSUME NEW w \in Workers, MarkFailed(w) PROVE Settled
  BY <1>6 DEF MarkFailed, FailRow, SetStatus, Goto
<1>7. ASSUME NEW w \in Workers, CommitUnanswered(w) PROVE Settled
  BY <1>7 DEF CommitUnanswered, Fault, Land, SetStatus, Goto
<1>8. ASSUME NEW r \in Rows, Replay(r) PROVE Settled
  BY <1>8 DEF Replay, SetStatus, Enqueue, Unheld
<1>9. ASSUME NEW r \in Rows, ReplayUnqueued(r) PROVE Settled
  BY <1>9 DEF ReplayUnqueued, SetStatus, Fault, Unheld
<1>10. ASSUME NEW r \in Rows, Delete(r) PROVE Settled
  BY <1>10 DEF Delete, SetStatus, DropRaw, Fault, Unheld
<1>11. CASE UNCHANGED <<status>>
  BY <1>11
<1>12. CASE Bystander
  BY <1>12, <1>11, Bystanders
<1>13. ASSUME NEW w \in Workers, BeginTriage(w) \/ Pass(w) \/ Unreadable(w) \/
   StoreFiles(w) \/ BeginWrite(w) \/ DeleteFiles(w) \/ Raise(w) \/ Announce(w) \/
   Retry(w) \/ StoreFails(w) \/ CommitFails(w) \/ DeletionFails(w) \/ Crash(w) PROVE
   UNCHANGED <<status>>
  BY <1>13 DEF BeginTriage, Lockable, Goto, EndRun, Pass, Unreadable, StoreFiles,
     BeginWrite, DeleteFiles, AfterDeletion, Raise, Announce, Retry, StoreFails,
     Fault, CommitFails, DeletionFails, Crash, rowVars, rawVars, messageVars,
     fileVars, reqVars, workVars
<1>14. ASSUME NEW r \in Rows, PurgeRaw(r) PROVE UNCHANGED <<status>>
  BY <1>14 DEF PurgeRaw, DropRaw, Fault, rowVars, rawVars, messageVars, fileVars,
     reqVars, workVars
<1>15. ASSUME NEW w \in Workers, NEW t \in Tasks, Take(w, t) PROVE UNCHANGED
   <<status>>
  BY <1>15 DEF Take, rowVars, rawVars, messageVars, fileVars, reqVars, workVars
<1>16. CASE UNCHANGED vars
  BY <1>16, <1>11 DEF vars
<1> QED
  BY <1>1, <1>2, <1>3, <1>4, <1>5, <1>6, <1>7, <1>8, <1>9, <1>10, <1>11, <1>12, <1>13,
     <1>14, <1>15, <1>16 DEF Next, Others, RequestStep, RunStep, RunFault, RowStep,
     Bystander

THEOREM SettledForGood == Spec => SettledStays
<1>1. IInv /\ [Next]_vars => Settled \/ UNCHANGED vars
  BY SettledStep
<1> QED
  BY <1>1, InvCorrect, PTL DEF Spec, SettledStays, Settled

(* The stage each status stands for.                                       *)
LEMMA Stages ==
  /\ StageOf("free") = "none"
  /\ StageOf("pending") = "waiting" /\ StageOf("failed") = "waiting"
  /\ StageOf("processed") = "landed"
  /\ StageOf("ignored") = "refused" /\ StageOf("rejected") = "refused"
  /\ StageOf("gone") = "gone"
BY DEF StageOf, Processable

(* A row's move to another status is its move to that status's stage.      *)
LEMMA StageMoves ==
  ASSUME NEW r \in Rows, status \in [Rows -> Status]
  PROVE  /\ status' = [status EXCEPT ![r] = "pending"] => Ledger!Move(r, "waiting")
         /\ status' = [status EXCEPT ![r] = "processed"] => Ledger!Move(r, "landed")
         /\ status' = [status EXCEPT ![r] = "ignored"] => Ledger!Move(r, "refused")
         /\ status' = [status EXCEPT ![r] = "rejected"] => Ledger!Move(r, "refused")
         /\ status' = [status EXCEPT ![r] = "gone"] => Ledger!Move(r, "gone")
BY Stages DEF Ledger!Move

(* The log starts as an empty ledger.                                      *)
LEMMA LedgerStart == Init => Ledger!LedgerInit
BY Stages DEF Init, Ledger!LedgerInit

(* What the refinement asks of a step.                                     *)
LedgerMoves == Ledger!LedgerNext \/ UNCHANGED Ledger!ledger

(* Pending or failed, a row waits: the ledger does not tell them apart.    *)
LEMMA Waits ==
  ASSUME NEW r \in Rows, NEW s \in Processable, status \in [Rows -> Status],
         status[r] \in Processable, status' = [status EXCEPT ![r] = s],
         UNCHANGED <<raw, rawFiles, messages>>
  PROVE  LedgerMoves
<1>1. \A x \in Rows : StageOf(status'[x]) = StageOf(status[x])
  BY Stages DEF Processable
<1> QED
  BY <1>1 DEF LedgerMoves, Ledger!ledger

(* Every step of the log is a step of the ledger, or leaves it as it is.   *)
LEMMA LedgerStep == IInv /\ [Next]_vars => LedgerMoves
<1> SUFFICES ASSUME IInv, [Next]_vars PROVE LedgerMoves
  OBVIOUS
<1> USE DEF Typed, TypeOK, InHandIsReal, rowVars, rawVars, messageVars, fileVars,
   reqVars, workVars, IInv, LockProtects, Holding, Processable, Final, Live, Status,
   Readable, WaitingIsKept, FreeIsEmpty, Ledger!ledger
<1>1. ASSUME NEW q \in Requests, Insert(q) PROVE LedgerMoves
  <2>1. PICK r \in Rows :
          /\ status[r] = "free"
          /\ status' = [status EXCEPT ![r] = IF delivery[q].refused THEN "rejected" ELSE "pending"]
          /\ \/ delivery[q].refused /\ UNCHANGED rawVars
             \/ ~delivery[q].refused /\ raw' = raw \cup {r} /\ rawFiles' = rawFiles \cup {r}
    BY <1>1 DEF Insert
  <2>2. UNCHANGED messages
    BY <1>1 DEF Insert
  <2>3. CASE delivery[q].refused
    <3>1. Ledger!Move(r, "refused")
      BY <2>1, <2>3, StageMoves, Stages
    <3>2. Ledger!TurnAway(r)
      BY <2>1, <2>2, <2>3, <3>1, Stages DEF Ledger!TurnAway
    <3> QED
      BY <3>2 DEF Ledger!LedgerNext, LedgerMoves
  <2>4. CASE ~delivery[q].refused
    <3>1. Ledger!Move(r, "waiting")
      BY <2>1, <2>4, StageMoves, Stages
    <3>2. Ledger!Arrive(r)
      BY <2>1, <2>2, <2>4, <3>1, Stages DEF Ledger!Arrive
    <3> QED
      BY <3>2 DEF Ledger!LedgerNext, LedgerMoves
  <2> QED
    BY <2>3, <2>4
<1>2. ASSUME NEW q \in Requests, InsertFails(q) PROVE LedgerMoves
  <2>1. PICK r \in Rows :
          /\ status[r] = "free"
          /\ status' = [status EXCEPT ![r] = "gone"]
          /\ rawFiles' = rawFiles \cup {r}
    BY <1>2 DEF InsertFails
  <2>2. UNCHANGED <<raw, messages>>
    BY <1>2 DEF InsertFails
  <2>3. Ledger!Move(r, "gone")
    BY <2>1, StageMoves, Stages
  <2>4. Ledger!Erase(r)
    BY <2>1, <2>2, <2>3, Stages DEF Ledger!Erase
  <2> QED
    BY <2>4 DEF Ledger!LedgerNext, LedgerMoves
<1>3. ASSUME NEW w \in Workers, Settle(w) PROVE LedgerMoves
  <2>1. PICK s \in {"rejected", "ignored"} : status' = [status EXCEPT ![job[w]] = s]
    BY <1>3 DEF Settle, SetStatus
  <2>2. /\ job[w] \in Rows /\ status[job[w]] \in Processable
        /\ job[w] \in raw \cap rawFiles
        /\ UNCHANGED <<raw, rawFiles, messages>>
    BY <1>3 DEF Settle
  <2>3. Ledger!Move(job[w], "refused")
    BY <2>1, <2>2, StageMoves, Stages
  <2>4. Ledger!Refuse(job[w])
    BY <2>2, <2>3, Stages DEF Ledger!Refuse
  <2> QED
    BY <2>2, <2>4 DEF Ledger!LedgerNext, LedgerMoves
<1>4. ASSUME NEW w \in Workers, MarkUnprocessable(w) PROVE LedgerMoves
  <2>1. \/ UNCHANGED status
        \/ /\ status[job[w]] \in Processable
           /\ status' = [status EXCEPT ![job[w]] = "failed"]
    BY <1>4 DEF MarkUnprocessable, FailRow, SetStatus
  <2>2. job[w] \in Rows /\ UNCHANGED <<raw, rawFiles, messages>>
    BY <1>4 DEF MarkUnprocessable
  <2>3. CASE UNCHANGED status
    BY <2>2, <2>3 DEF LedgerMoves
  <2>4. CASE status[job[w]] \in Processable /\ status' = [status EXCEPT ![job[w]] = "failed"]
    BY <2>2, <2>4, Waits
  <2> QED
    BY <2>1, <2>3, <2>4
<1>5. ASSUME NEW w \in Workers, Write(w) PROVE LedgerMoves
  <2>1. /\ job[w] \in Rows /\ status[job[w]] \in Processable
        /\ job[w] \in raw \cap rawFiles
        /\ UNCHANGED <<raw, rawFiles>>
    BY <1>5 DEF Write
  <2>2. /\ status' = [status EXCEPT ![job[w]] = "processed"]
        /\ messages' = [messages EXCEPT ![job[w]] = @ + 1]
    BY <1>5 DEF Write, Land, SetStatus
  <2>3. Ledger!Move(job[w], "landed")
    BY <2>1, <2>2, StageMoves, Stages
  <2>4. Ledger!Land(job[w])
    BY <2>1, <2>2, <2>3, Stages DEF Ledger!Land
  <2> QED
    BY <2>1, <2>4 DEF Ledger!LedgerNext, LedgerMoves
<1>6. ASSUME NEW w \in Workers, MarkFailed(w) PROVE LedgerMoves
  <2>1. \/ UNCHANGED status
        \/ /\ status[job[w]] \in Processable
           /\ status' = [status EXCEPT ![job[w]] = "failed"]
    BY <1>6 DEF MarkFailed, FailRow, SetStatus
  <2>2. job[w] \in Rows /\ UNCHANGED <<raw, rawFiles, messages>>
    BY <1>6 DEF MarkFailed
  <2>3. CASE UNCHANGED status
    BY <2>2, <2>3 DEF LedgerMoves
  <2>4. CASE status[job[w]] \in Processable /\ status' = [status EXCEPT ![job[w]] = "failed"]
    BY <2>2, <2>4, Waits
  <2> QED
    BY <2>1, <2>3, <2>4
<1>7. ASSUME NEW w \in Workers, CommitUnanswered(w) PROVE LedgerMoves
  <2>1. /\ job[w] \in Rows /\ status[job[w]] \in Processable
        /\ job[w] \in raw \cap rawFiles
        /\ UNCHANGED <<raw, rawFiles>>
    BY <1>7 DEF CommitUnanswered
  <2>2. /\ status' = [status EXCEPT ![job[w]] = "processed"]
        /\ messages' = [messages EXCEPT ![job[w]] = @ + 1]
    BY <1>7 DEF CommitUnanswered, Land, SetStatus
  <2>3. Ledger!Move(job[w], "landed")
    BY <2>1, <2>2, StageMoves, Stages
  <2>4. Ledger!Land(job[w])
    BY <2>1, <2>2, <2>3, Stages DEF Ledger!Land
  <2> QED
    BY <2>1, <2>4 DEF Ledger!LedgerNext, LedgerMoves
<1>8. ASSUME NEW r \in Rows, Replay(r) PROVE LedgerMoves
  <2>1. /\ status[r] \in Processable
        /\ status' = [status EXCEPT ![r] = "pending"]
        /\ UNCHANGED <<raw, rawFiles, messages>>
    BY <1>8 DEF Replay, SetStatus
  <2> QED
    BY <2>1, Waits
<1>9. ASSUME NEW r \in Rows, ReplayUnqueued(r) PROVE LedgerMoves
  <2>1. /\ status[r] \in Processable
        /\ status' = [status EXCEPT ![r] = "pending"]
        /\ UNCHANGED <<raw, rawFiles, messages>>
    BY <1>9 DEF ReplayUnqueued, SetStatus
  <2> QED
    BY <2>1, Waits
<1>10. ASSUME NEW r \in Rows, PurgeRaw(r) PROVE LedgerMoves
  <2>1. /\ status[r] \in Final /\ UNCHANGED <<status, messages>>
        /\ \/ raw' \cap rawFiles' = raw \cap rawFiles
           \/ r \in raw \cap rawFiles /\ raw' \cap rawFiles' = (raw \cap rawFiles) \ {r}
    BY <1>10 DEF PurgeRaw, DropRaw, Fault
  <2>2. StageOf(status[r]) \in {"landed", "refused"}
    BY <2>1, Stages
  <2> QED
    BY <2>1, <2>2 DEF Ledger!LedgerNext, Ledger!Empty, LedgerMoves
<1>11. ASSUME NEW r \in Rows, Delete(r) PROVE LedgerMoves
  <2>1. /\ status[r] \in Live /\ status' = [status EXCEPT ![r] = "gone"]
        /\ raw' \cap rawFiles' = (raw \cap rawFiles) \ {r}
        /\ UNCHANGED messages
    BY <1>11 DEF Delete, SetStatus, DropRaw, Fault
  <2>2. Ledger!Move(r, "gone")
    BY <2>1, StageMoves, Stages
  <2>3. StageOf(status[r]) # "gone"
    BY <2>1, Stages
  <2>4. Ledger!Erase(r)
    BY <2>1, <2>2, <2>3 DEF Ledger!Erase
  <2> QED
    BY <2>4 DEF Ledger!LedgerNext, LedgerMoves
<1>12. CASE UNCHANGED <<status, raw, rawFiles, messages>>
  BY <1>12 DEF LedgerMoves
<1>13. CASE Bystander
  BY <1>13, <1>12, Bystanders
<1>14. ASSUME NEW w \in Workers, BeginTriage(w) \/ Pass(w) \/ Unreadable(w) \/
   StoreFiles(w) \/ BeginWrite(w) \/ DeleteFiles(w) \/ Raise(w) \/ Announce(w) \/
   Retry(w) \/ StoreFails(w) \/ CommitFails(w) \/ DeletionFails(w) \/ Crash(w) PROVE
   UNCHANGED <<status, raw, rawFiles, messages>>
  BY <1>14 DEF BeginTriage, Lockable, Goto, EndRun, Pass, Unreadable, StoreFiles,
     BeginWrite, DeleteFiles, AfterDeletion, Raise, Announce, Retry, StoreFails,
     Fault, CommitFails, DeletionFails, Crash, rowVars, rawVars, messageVars,
     fileVars, reqVars, workVars
<1>15. ASSUME NEW w \in Workers, NEW t \in Tasks, Take(w, t) PROVE UNCHANGED <<status,
   raw, rawFiles, messages>>
  BY <1>15 DEF Take, rowVars, rawVars, messageVars, fileVars, reqVars, workVars
<1>16. CASE UNCHANGED vars
  BY <1>16, <1>12 DEF vars
<1> QED
  BY <1>1, <1>2, <1>3, <1>4, <1>5, <1>6, <1>7, <1>8, <1>9, <1>10, <1>11, <1>12, <1>13,
     <1>14, <1>15, <1>16 DEF Next, Others, RequestStep, RunStep, RunFault, RowStep,
     Bystander

(* The log implements the ledger: what it promises of a mail holds of the  *)
(* requests, runs, sweeps and faults together.                             *)
THEOREM LogKeepsLedger == Spec => KeepsLedger
<1>1. IInv /\ [Next]_vars => [Ledger!LedgerNext]_Ledger!ledger
  BY LedgerStep DEF LedgerMoves
<1> QED
  BY <1>1, LedgerStart, InvCorrect, PTL DEF Spec, KeepsLedger, Ledger!LedgerSpec

(* The ledger's promise, of the stages seen through the mapping: a row     *)
(* lands once at most, only from waiting, and what waits can be read       *)
(* (pipeline.process and purge_inbound_raw keep it).                       *)
LEMMA PromiseStep ==
  Ledger!LedgerInv /\ [Ledger!LedgerNext]_Ledger!ledger => Ledger!LedgerInv'
<1> SUFFICES ASSUME Ledger!LedgerInv, [Ledger!LedgerNext]_Ledger!ledger
             PROVE  Ledger!LedgerInv'
  OBVIOUS
<1> USE DEF Ledger!LedgerInv, Ledger!LedgerTypeOK, Ledger!LandsAtMostOnce,
        Ledger!WaitingIsKept, Ledger!Stage, Ledger!Move
<1>1. ASSUME NEW r \in Rows, Ledger!Arrive(r) \/ Ledger!TurnAway(r) PROVE Ledger!LedgerInv'
  BY <1>1 DEF Ledger!Arrive, Ledger!TurnAway
<1>2. ASSUME NEW r \in Rows, Ledger!Land(r) PROVE Ledger!LedgerInv'
  <2> DEFINE at(x) == StageOf(status[x])
  <2>1. at(r) = "waiting" /\ messages[r] = 0
    BY <1>2 DEF Ledger!Land
  <2>2. \A x \in Rows : at(x)' = IF x = r THEN "landed" ELSE at(x)
    <3>1. [x \in Rows |-> StageOf(status'[x])] = [[x \in Rows |-> at(x)] EXCEPT ![r] = "landed"]
      BY <1>2 DEF Ledger!Land
    <3> HIDE DEF at
    <3>2. \A x \in Rows : [y \in Rows |-> StageOf(status'[y])][x] = IF x = r THEN "landed" ELSE at(x)
      BY <3>1
    <3>3. \A x \in Rows : [y \in Rows |-> StageOf(status'[y])][x] = at(x)'
      BY DEF at
    <3> QED
      BY <3>2, <3>3
  <2>3. messages' = [messages EXCEPT ![r] = 1]
    BY <1>2, <2>1 DEF Ledger!Land
  <2>4. UNCHANGED (raw \cap rawFiles)
    BY <1>2 DEF Ledger!Land
  <2>5. /\ Ledger!LedgerTypeOK /\ \A x \in Rows : messages[x] <= 1
        /\ \A x \in Rows : at(x) \in {"none", "waiting", "refused"} => messages[x] = 0
        /\ \A x \in Rows : at(x) = "waiting" => x \in raw \cap rawFiles
    OBVIOUS
  <2> QED
    BY <2>2, <2>3, <2>4, <2>5
<1>3. ASSUME NEW r \in Rows, Ledger!Refuse(r) PROVE Ledger!LedgerInv'
  BY <1>3 DEF Ledger!Refuse
<1>4. ASSUME NEW r \in Rows, Ledger!Empty(r) \/ Ledger!Erase(r) PROVE Ledger!LedgerInv'
  BY <1>4 DEF Ledger!Empty, Ledger!Erase
<1>5. CASE UNCHANGED Ledger!ledger
  BY <1>5 DEF Ledger!ledger
<1> QED
  BY <1>1, <1>2, <1>3, <1>4, <1>5 DEF Ledger!LedgerNext

(* Whatever keeps the ledger keeps its promise.                            *)
THEOREM LedgerCorrect == Ledger!LedgerSpec => []Ledger!LedgerInv
<1>1. Ledger!LedgerInit => Ledger!LedgerInv
  BY DEF Ledger!LedgerInit, Ledger!LedgerInv, Ledger!LedgerTypeOK, Ledger!LandsAtMostOnce,
     Ledger!WaitingIsKept, Ledger!Stage
<1> QED
  BY <1>1, PromiseStep, PTL DEF Ledger!LedgerSpec

(* So the log does.                                                        *)
THEOREM LogKeepsPromise == Spec => []Ledger!LedgerInv
BY LogKeepsLedger, LedgerCorrect, PTL DEF KeepsLedger
=============================================================================
