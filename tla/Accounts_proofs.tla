-------------------------- MODULE Accounts_proofs --------------------------
(***************************************************************************)
(* Proofs about the staff of an organization, for any addresses, requests  *)
(* under way, codes and attempts: the types; that no more than MaxAttempts *)
(* submissions are compared with a code; that a code lets in once, and the *)
(* newest of an address only; that an organization keeps an active admin,  *)
(* and the instance has one; that nobody goes from one organization to     *)
(* another.                                                                *)
(***************************************************************************)
EXTENDS Accounts, FiniteSetTheorems, WellFoundedInduction, TLAPS

(* Some natural number of a set is the least: < is well founded.           *)
LEMMA LeastExists ==
  ASSUME NEW T \in SUBSET Nat, T # {}
  PROVE  \E x \in T : \A y \in T : x <= y
<1>1. PICK R : IsWellFoundedOn(R, Nat) /\ \A x, y \in Nat : <<x, y>> \in R <=> x < y
  <2>1. IsWellFoundedOn(OpToRel(<, Nat), Nat)
    BY NatLessThanWellFounded
  <2>2. \A x, y \in Nat : <<x, y>> \in OpToRel(<, Nat) <=> x < y
    BY DEF OpToRel
  <2> QED
    BY <2>1, <2>2, Zenon
<1>2. PICK x \in T : \A y \in T : <<y, x>> \notin R
  <2>1. T \subseteq Nat
    OBVIOUS
  <2>2. IsWellFoundedOn(R, Nat)
    BY <1>1
  <2> QED
    BY <2>1, <2>2, WFMin
<1>3. \A y \in T : ~(y < x)
  BY <1>1, <1>2
<1> QED
  BY <1>3

(* Max returns the greatest of numbers up to n: n less the least of what   *)
(* they are short of n.                                                    *)
LEMMA MaxIsGreatest ==
  ASSUME NEW n \in Nat, NEW S \in SUBSET (0 .. n), S # {}
  PROVE  Max(S) \in S /\ \A x \in S : x <= Max(S)
<1>1. PICK T : \A y : y \in T <=> \E x \in S : y = n - x
  <2>1. \A y : y \in {n - x : x \in S} <=> \E x \in S : y = n - x
    OBVIOUS
  <2> QED
    BY <2>1, Zenon
<1>2. T \in SUBSET Nat /\ T # {}
  <2>1. ASSUME NEW y \in T PROVE y \in Nat
    BY <1>1
  <2>2. PICK x : x \in S
    OBVIOUS
  <2>3. n - x \in T
    BY <1>1, <2>2
  <2> QED
    BY <2>1, <2>3
<1>3. PICK t \in T : \A y \in T : t <= y
  BY <1>2, LeastExists
<1>4. PICK x \in S : t = n - x
  BY <1>1, <1>3
<1>5. \A y \in S : x >= y
  BY <1>1, <1>3, <1>4
<1> QED
  BY <1>5 DEF Max

-----------------------------------------------------------------------------

(* A row of OTPCode.                                                       *)
Rows == [user : Users \cup {None}, attempts : 0 .. MaxAttempts, used : BOOLEAN]

Steps == {"idle", "generate", "attempt", "compare", "setup", "found", "decide", "change"}

(* A request under way has loaded what it works on: an attempt, a code     *)
(* issued.                                                                 *)
JobHeld ==
  \A p \in Procs :
    /\ pc[p] # "idle" => job[p] \in Jobs
    /\ pc[p] \in {"attempt", "compare"} =>
         job[p].code \in Codes /\ code[job[p].code].user # None

(* Newest returns the last of a set of codes, 0 of none.                   *)
LEMMA NewestIs ==
  ASSUME NEW S \in SUBSET Codes
  PROVE  /\ Newest(S) \in 0 .. MaxCodes /\ \A c \in S : c <= Newest(S)
         /\ S # {} => Newest(S) \in S
<1> DEFINE T == {0} \cup S
<1>1. T \in SUBSET (0 .. MaxCodes) /\ T # {}
  BY AccountsAssumption DEF Codes
<1>2. Max(T) \in T /\ \A x \in T : x <= Max(T)
  <2> HIDE DEF T
  <2> QED
    BY <1>1, AccountsAssumption, MaxIsGreatest
<1>3. Newest(S) = Max(T)
  BY DEF Newest
<1>4. \A c \in S : c \in T /\ c >= 1 /\ c \in Int
  BY DEF Codes
<1>5. S # {} => Newest(S) # 0
  BY <1>2, <1>3, <1>4
<1> QED
  BY <1>1, <1>2, <1>3, <1>4, <1>5

(* A request for u loads u.                                                *)
LEMMA NewJobTyped ==
  ASSUME NEW u \in Users
  PROVE  NewJob(u) \in Jobs /\ NewJob(u).user = u
BY AccountsAssumption DEF NewJob, Jobs

(* What SetupInitialize and Redeem load has its type.                      *)
LEMMA JobsTyped ==
  ASSUME NEW u \in Users, NEW c \in 0 .. MaxCodes
  PROVE  /\ [NewJob(u) EXCEPT !.code = c] \in Jobs /\ [NewJob(u) EXCEPT !.code = c].code = c
         /\ \A gone \in SUBSET Users : [NewJob(u) EXCEPT !.gone = gone, !.code = c] \in Jobs
<1>1. \A j \in Jobs : [j EXCEPT !.code = c] \in Jobs /\ [j EXCEPT !.code = c].code = c
  BY DEF Jobs
<1>2. ASSUME NEW gone \in SUBSET Users PROVE [NewJob(u) EXCEPT !.gone = gone, !.code = c] \in Jobs
  <2>1. \A j \in Jobs : [j EXCEPT !.gone = gone] \in Jobs
    BY DEF Jobs
  <2>2. [NewJob(u) EXCEPT !.gone = gone, !.code = c] =
        [[NewJob(u) EXCEPT !.gone = gone] EXCEPT !.code = c]
    BY DEF NewJob
  <2> QED
    BY <1>1, <2>1, <2>2, NewJobTyped
<1> QED
  BY <1>1, <1>2, NewJobTyped

(* What LockTarget loads has its type.                                     *)
LEMMA SpareTyped ==
  ASSUME NEW u \in Users
  PROVE  [NewJob(u) EXCEPT !.spare = Spare(u)] \in Jobs
<1>1. Spare(u) \in BOOLEAN
  BY Zenon DEF Spare, IsAdmin
<1> HIDE DEF Spare
<1> QED
  BY <1>1, AccountsAssumption DEF NewJob, Jobs

(* Setting an account keeps the types of accounts.                         *)
LEMMA AccountTyped ==
  ASSUME account \in [Users -> Accounts], active \in [Users -> BOOLEAN],
         NEW u \in Users, NEW k \in Accounts, Set(u, k, TRUE) \/ Set(u, k, active[u])
                                              \/ Set(u, k, ~active[u])
  PROVE  account' \in [Users -> Accounts] /\ active' \in [Users -> BOOLEAN]
BY DEF Set

(* Each way of changing a code keeps its type.                             *)
LEMMA CodeTyped ==
  ASSUME code \in [Codes -> Rows], NEW u \in Users
  PROVE  /\ Cancelled(u) \in [Codes -> Rows]
         /\ \A c \in Codes : [code EXCEPT ![c].user = u] \in [Codes -> Rows]
         /\ \A c \in Codes : [code EXCEPT ![c].used = TRUE] \in [Codes -> Rows]
         /\ \A c \in Codes : Countable(c) => [code EXCEPT ![c].attempts = @ + 1] \in [Codes -> Rows]
<1>1. \A r \in Rows : [r EXCEPT !.used = TRUE] \in Rows /\ [r EXCEPT !.user = u] \in Rows
  BY DEF Rows
<1>2. \A r \in Rows : r.attempts < MaxAttempts => [r EXCEPT !.attempts = @ + 1] \in Rows
  BY AccountsAssumption DEF Rows
<1> QED
  BY <1>1, <1>2 DEF Cancelled, Countable

(* The types, with what the requests under way hold.                       *)
Typed ==
  /\ account \in [Users -> Accounts]
  /\ active \in [Users -> BOOLEAN]
  /\ request \in [Users -> Statuses]
  /\ code \in [Codes -> Rows]
  /\ lock \in Procs \cup {None}
  /\ pc \in [Procs -> Steps]
  /\ job \in [Procs -> Jobs \cup {None}]
  /\ compared \in [Codes -> Nat] /\ letIn \in [Codes -> Nat]
  /\ happened \in SUBSET Faults
  /\ JobHeld

(* The types hold at first.                                                *)
LEMMA InitTyped == Init => Typed
<1> SUFFICES ASSUME Init PROVE Typed
  OBVIOUS
<1> USE AccountsAssumption
<1>1. account \in [Users -> Accounts] /\ active \in [Users -> BOOLEAN]
  BY DEF Init, Accounts
<1>2. request \in [Users -> Statuses] /\ compared \in [Codes -> Nat] /\ letIn \in [Codes -> Nat]
  BY DEF Init, Statuses
<1>3. code \in [Codes -> Rows]
  BY DEF Init, Rows
<1>4. pc = [p \in Procs |-> "idle"] /\ job = [p \in Procs |-> None] /\ lock = None /\ happened = {}
  BY DEF Init
<1>5. pc \in [Procs -> Steps] /\ JobHeld
  BY <1>4 DEF Steps, JobHeld
<1> QED
  BY <1>1, <1>2, <1>3, <1>4, <1>5 DEF Typed

(* Codes issued stay issued.                                               *)
CodesKept == \A c \in Codes : code[c].user # None => code'[c].user # None

(* A request that goes on, to a step with what that step needs.            *)
LEMMA StepTyped ==
  ASSUME Typed, NEW p \in Procs, NEW s \in Steps, NEW j \in Jobs, Goto(p, s, j),
         CodesKept,
         s \in {"attempt", "compare"} => j.code \in Codes /\ code[j.code].user # None
  PROVE  pc' \in [Procs -> Steps] /\ job' \in [Procs -> Jobs \cup {None}] /\ JobHeld'
<1>1. pc' \in [Procs -> Steps] /\ job' \in [Procs -> Jobs \cup {None}]
  BY DEF Typed, Goto
<1>2. pc'[p] = s /\ job'[p] = j /\ \A q \in Procs \ {p} : pc'[q] = pc[q] /\ job'[q] = job[q]
  BY DEF Typed, Goto
<1> QED
  BY <1>1, <1>2 DEF Typed, JobHeld, CodesKept

(* A request that ends.                                                    *)
LEMMA ReturnTyped ==
  ASSUME Typed, NEW p \in Procs, Return(p), CodesKept
  PROVE  pc' \in [Procs -> Steps] /\ job' \in [Procs -> Jobs \cup {None}] /\ JobHeld'
<1>1. pc' \in [Procs -> Steps] /\ job' \in [Procs -> Jobs \cup {None}]
  BY DEF Typed, Goto, Return, Steps
<1>2. pc'[p] = "idle" /\ \A q \in Procs \ {p} : pc'[q] = pc[q] /\ job'[q] = job[q]
  BY DEF Typed, Goto, Return
<1> QED
  BY <1>1, <1>2 DEF Typed, JobHeld, CodesKept

(* Cancelled codes stay whose they are.                                    *)
LEMMA CancelKeeps ==
  ASSUME Typed, NEW u \in Users
  PROVE  \A c \in Codes : Cancelled(u)[c].user = code[c].user
BY DEF Typed, Rows, Cancelled

(* Whatever follows a right code, accounts keep their types.               *)
LEMMA CompareTyped ==
  ASSUME Typed, NEW u \in Users, NEW c \in Codes, account[u] \in Accounts,
         \/ SignUp(u, c) \/ LogIn(u, c) \/ LogInToAdmin(u, c) \/ UNCHANGED <<letIn, accounts>>
  PROVE  /\ account' \in [Users -> Accounts] /\ active' \in [Users -> BOOLEAN]
         /\ letIn' \in [Codes -> Nat]
<1>1. \/ UNCHANGED accounts \/ Set(u, "platform", TRUE) \/ Set(u, "lonely", TRUE)
  BY DEF SignUp, LogIn, LogInToAdmin, Verified, accounts
<1>2. account' \in [Users -> Accounts] /\ active' \in [Users -> BOOLEAN]
  BY <1>1, AccountTyped DEF Typed, accounts, Accounts
<1>3. letIn' = letIn \/ LetIn(c)
  BY DEF SignUp, LogIn, LogInToAdmin
<1>4. letIn' \in [Codes -> Nat]
  BY <1>3 DEF LetIn, Typed
<1> QED
  BY <1>2, <1>4

(* Only faults of the instance happen.                                     *)
LEMMA HappenTyped ==
  ASSUME Typed, NEW kinds, Happen(kinds)
  PROVE  happened' \in SUBSET Faults
BY DEF Typed, Happen

(* Every step keeps the types.                                             *)
LEMMA TypedNext == Typed /\ [Next]_vars => Typed'
<1> SUFFICES ASSUME Typed, [Next]_vars PROVE Typed'
  OBVIOUS
<1> USE AccountsAssumption
<1>1. UNCHANGED code => CodesKept
  BY DEF CodesKept
<1>2. ASSUME NEW p \in Procs, NEW u \in Users, RequestOTP(p, u) PROVE Typed'
  <2>1. /\ Goto(p, "generate", NewJob(u)) /\ code' = Cancelled(u) /\ happened' \in SUBSET Faults
        /\ UNCHANGED <<account, active, request, lock, compared, letIn>>
    BY <1>2, HappenTyped DEF RequestOTP, Begin, Goto, FaultIf, accounts
  <2>2. CodesKept
    BY <2>1, CancelKeeps DEF CodesKept
  <2> QED
    BY <2>1, <2>2, StepTyped, NewJobTyped, CodeTyped DEF Typed, Steps
<1>3. ASSUME NEW p \in Procs, Generate(p) PROVE Typed'
  <2>1. job[p].user \in Users
    BY <1>3 DEF Generate, Typed, JobHeld, Jobs
  <2>2. code' \in [Codes -> Rows] /\ CodesKept
    <3>1. CASE Newest(Issued) + 1 \in Codes
      BY <1>3, <2>1, <3>1, CodeTyped DEF Generate, Typed, CodesKept, Rows
    <3>2. CASE Newest(Issued) + 1 \notin Codes
      BY <1>3, <3>2 DEF Generate, Typed, CodesKept
    <3> QED
      BY <3>1, <3>2
  <2> QED
    BY <1>3, <2>2, ReturnTyped DEF Generate, Typed, accounts
<1>4. ASSUME NEW p \in Procs, NEW u \in Users, Redeem(p, u) PROVE Typed'
  <2> DEFINE c == Newest({d \in CodesOf(u) : ~code[d].used})
  <2>1. c \in Codes /\ code[c].user = u /\ u # None
    BY <1>4, NewestIs DEF Redeem, CodesOf
  <2>2. Goto(p, "attempt", [NewJob(u) EXCEPT !.code = c])
    BY <1>4 DEF Redeem, Begin, Goto
  <2>3. [NewJob(u) EXCEPT !.code = c] \in Jobs /\ [NewJob(u) EXCEPT !.code = c].code = c
    <3> HIDE DEF c
    <3>1. c \in 0 .. MaxCodes
      BY <2>1 DEF Codes
    <3> QED
      BY <3>1, JobsTyped
  <2> HIDE DEF c
  <2> QED
    BY <1>1, <1>4, <2>1, <2>2, <2>3, StepTyped DEF Redeem, Typed, Steps, accounts, codes
<1>5. ASSUME NEW p \in Procs, Attempt(p) PROVE Typed'
  <2>1. job[p] \in Jobs /\ job[p].code \in Codes /\ code[job[p].code].user # None
    BY <1>5 DEF Attempt, Typed, JobHeld
  <2>2. code' \in [Codes -> Rows] /\ CodesKept
    <3> DEFINE c == job[p].code
    <3>1. CASE code' = code
      BY <1>1, <3>1 DEF Typed
    <3>2. CASE Countable(c) /\ code' = [code EXCEPT ![c].attempts = @ + 1]
      <4>1. code' \in [Codes -> Rows]
        <5>1. job[p].user \in Users
          BY <2>1 DEF Jobs
        <5> QED
          BY <2>1, <3>2, <5>1, CodeTyped DEF Typed
      <4>2. CodesKept
        BY <2>1, <3>2 DEF Typed, CodesKept, Rows
      <4> QED
        BY <4>1, <4>2
    <3> QED
      BY <1>5, <3>1, <3>2 DEF Attempt
  <2>3. Goto(p, "compare", job[p]) \/ Return(p)
    BY <1>5 DEF Attempt
  <2> QED
    BY <1>5, <2>1, <2>2, <2>3, StepTyped, ReturnTyped DEF Attempt, Typed, Steps, accounts
<1>6. ASSUME NEW p \in Procs, NEW right \in BOOLEAN, Compare(p, right) PROVE Typed'
  <2>1. job[p].user \in Users /\ job[p].code \in Codes
    BY <1>6 DEF Compare, Typed, JobHeld, Jobs
  <2>2. code' \in [Codes -> Rows] /\ CodesKept
    BY <1>6, <2>1, CodeTyped DEF Compare, Typed, CodesKept, Rows
  <2>3. /\ account' \in [Users -> Accounts] /\ active' \in [Users -> BOOLEAN]
        /\ letIn' \in [Codes -> Nat]
    BY <1>6, <2>1, CompareTyped DEF Compare, Typed
  <2>4. compared' \in [Codes -> Nat]
    BY <1>6, <2>1 DEF Compare, Typed
  <2> QED
    BY <1>6, <2>2, <2>3, <2>4, ReturnTyped DEF Compare, Typed
<1>7. ASSUME NEW p \in Procs, NEW u \in Users, SetupInitialize(p, u) PROVE Typed'
  <2>1. Attempts \in SUBSET Users /\ Newest(Issued) \in 0 .. MaxCodes
    BY NewestIs DEF Attempts, Issued
  <2>2. Goto(p, "setup", [NewJob(u) EXCEPT !.gone = Attempts, !.code = Newest(Issued)])
    BY <1>7 DEF SetupInitialize, Begin, Goto
  <2>3. [NewJob(u) EXCEPT !.gone = Attempts, !.code = Newest(Issued)] \in Jobs
    BY <2>1, JobsTyped
  <2> QED
    BY <1>1, <1>7, <2>2, <2>3, StepTyped DEF SetupInitialize, Typed, Steps, accounts, codes
<1>8. ASSUME NEW p \in Procs, Setup(p) PROVE Typed'
  <2>1. job[p].user \in Users
    BY <1>8 DEF Setup, Typed, JobHeld, Jobs
  <2>2. account' \in [Users -> Accounts] /\ active' = active
    BY <1>8 DEF Setup, Typed, accounts, Accounts
  <2>3. code' \in [Codes -> Rows] /\ CodesKept
    <3>1. CASE UNCHANGED code
      BY <1>1, <3>1 DEF Typed
    <3>2. CASE code' = [c \in Codes |->
             IF c <= job[p].code THEN Cancelled(job[p].user)[c]
             ELSE IF c = Newest(Issued) + 1 THEN [code[c] EXCEPT !.user = job[p].user] ELSE code[c]]
      <4>1. Cancelled(job[p].user) \in [Codes -> Rows]
        BY <2>1, CodeTyped DEF Typed
      <4>2. \A r \in Rows : [r EXCEPT !.user = job[p].user] \in Rows
        BY <2>1 DEF Rows
      <4>3. \A r \in Rows : [r EXCEPT !.user = job[p].user].user = job[p].user
        BY DEF Rows
      <4> QED
        BY <2>1, <3>2, <4>1, <4>2, <4>3, CancelKeeps DEF Typed, CodesKept
    <3> QED
      BY <1>8, <3>1, <3>2 DEF Setup
  <2>4. happened' \in SUBSET Faults
    BY <1>8, HappenTyped DEF Setup, Typed
  <2> QED
    BY <1>8, <2>2, <2>3, <2>4, ReturnTyped DEF Setup, Typed
<1>9. ASSUME NEW p \in Procs, NEW u \in Users, CreateOrg(p, u) \/ Decide(p, u) PROVE Typed'
  <2>1. Goto(p, "found", NewJob(u)) \/ Goto(p, "decide", NewJob(u))
    BY <1>9 DEF CreateOrg, Decide, Begin, Goto
  <2>2. UNCHANGED <<account, active, request, code, lock, compared, letIn, happened>>
    BY <1>9 DEF CreateOrg, Decide, accounts, codes
  <2> QED
    BY <1>1, <2>1, <2>2, NewJobTyped, StepTyped DEF Typed, Steps
<1>10. ASSUME NEW p \in Procs, Found(p) PROVE Typed'
  <2>1. job[p].user \in Users
    BY <1>10 DEF Found, Typed, JobHeld, Jobs
  <2>2. account' \in [Users -> Accounts] /\ active' \in [Users -> BOOLEAN]
    BY <1>10, <2>1, AccountTyped DEF Found, Typed, accounts, Accounts
  <2>3. happened' \in SUBSET Faults
    BY <1>10, HappenTyped DEF Found, FaultIf, Typed
  <2> QED
    BY <1>1, <1>10, <2>2, <2>3, ReturnTyped DEF Found, Typed, codes
<1>11. ASSUME NEW u \in Users, RequestJoin(u) PROVE Typed'
  BY <1>11 DEF RequestJoin, Typed, Statuses, JobHeld, accounts, codes
<1>12. ASSUME NEW p \in Procs, Approve(p) PROVE Typed'
  <2> DEFINE u == job[p].user
  <2>1. u \in Users
    BY <1>12 DEF Approve, Typed, JobHeld, Jobs
  <2>2. account' \in [Users -> Accounts] /\ active' \in [Users -> BOOLEAN]
    BY <1>12, <2>1, AccountTyped DEF Approve, Typed, accounts, Accounts
  <2>3. request' \in [Users -> Statuses] /\ happened' \in SUBSET Faults
    BY <1>12, <2>1, HappenTyped DEF Approve, FaultIf, Typed, Statuses
  <2>4. code' \in [Codes -> Rows] /\ CodesKept
    <3>1. code' = code \/ code' = Cancelled(u)
      BY <1>12 DEF Approve
    <3> HIDE DEF u
    <3> QED
      BY <1>1, <2>1, <3>1, CodeTyped, CancelKeeps DEF Typed, CodesKept
  <2>5. Return(p) \/ Goto(p, "generate", NewJob(u))
    BY <1>12 DEF Approve
  <2> HIDE DEF u
  <2> QED
    BY <1>12, <2>1, <2>2, <2>3, <2>4, <2>5, NewJobTyped, StepTyped, ReturnTyped
    DEF Approve, Typed, Steps
<1>13. ASSUME NEW p \in Procs, Reject(p) PROVE Typed'
  <2>1. job[p].user \in Users
    BY <1>13 DEF Reject, Typed, JobHeld, Jobs
  <2>2. request' \in [Users -> Statuses] /\ happened' \in SUBSET Faults
    BY <1>13, <2>1, HappenTyped DEF Reject, FaultIf, Typed, Statuses
  <2> QED
    BY <1>1, <1>13, <2>2, ReturnTyped DEF Reject, Typed, accounts, codes
<1>14. ASSUME NEW u \in Users, NEW role \in {"end", "agent", "admin"},
              Invite(u, role) \/ Promote(u, role)
       PROVE  Typed'
  <2>1. account' \in [Users -> Accounts] /\ active' \in [Users -> BOOLEAN]
    BY <1>14, AccountTyped DEF Invite, Promote, Typed, Accounts
  <2> QED
    BY <1>14, <2>1 DEF Invite, Promote, Typed, JobHeld, codes
<1>15. ASSUME NEW p \in Procs, NEW u \in Users, LockTarget(p, u) PROVE Typed'
  <2>1. Goto(p, "change", [NewJob(u) EXCEPT !.spare = Spare(u)]) /\ lock' = p
    BY <1>15 DEF LockTarget, Begin, Goto
  <2>2. UNCHANGED <<account, active, request, code, compared, letIn, happened>>
    BY <1>15 DEF LockTarget, accounts, codes
  <2> QED
    BY <1>1, <2>1, <2>2, SpareTyped, StepTyped DEF Typed, Steps
<1>16. ASSUME NEW p \in Procs, NEW change \in Changes, Change(p, change) PROVE Typed'
  <2>1. job[p].user \in Users
    BY <1>16 DEF Change, Typed, JobHeld, Jobs
  <2>2. account' \in [Users -> Accounts] /\ active' \in [Users -> BOOLEAN]
    <3>1. CASE UNCHANGED accounts
      BY <3>1 DEF Typed, accounts
    <3>2. CASE Changed(job[p].user, change)
      <4>1. \E k \in Accounts : \/ Set(job[p].user, k, TRUE)
                                \/ Set(job[p].user, k, active[job[p].user])
                                \/ Set(job[p].user, k, ~active[job[p].user])
        BY <2>1, <3>2 DEF Changed, Changes, Accounts, Typed
      <4> QED
        BY <2>1, <4>1, AccountTyped DEF Typed
    <3> QED
      BY <1>16, <3>1, <3>2 DEF Change
  <2>3. lock' \in Procs \cup {None}
    BY <1>16 DEF Change, Typed
  <2> QED
    BY <1>1, <1>16, <2>2, <2>3, ReturnTyped DEF Change, Typed, codes
<1>17. CASE UNCHANGED vars
  BY <1>17 DEF vars, Typed, JobHeld, accounts, codes
<1> QED
  BY <1>2, <1>3, <1>4, <1>5, <1>6, <1>7, <1>8, <1>9, <1>10, <1>11, <1>12, <1>13, <1>14,
     <1>15, <1>16, <1>17
  DEF Next

(* Every variable keeps its type: no request under way works on what it    *)
(* has not loaded, and no attempt is counted beyond the limit.             *)
THEOREM TypeCorrect == Spec => []TypeOK
<1>1. Typed => TypeOK
  BY DEF Typed, TypeOK, Rows, Steps
<1> QED
  BY <1>1, InitTyped, TypedNext, PTL DEF Spec

-----------------------------------------------------------------------------

(* The submissions under way that were counted, but not compared yet.      *)
Guessing(c) == {p \in Procs : pc[p] = "compare" /\ job[p].code = c}

(* Every attempt counted was compared, or is about to be.                  *)
Counted ==
  \A c \in Codes : /\ IsFiniteSet(Guessing(c))
                   /\ compared[c] + Cardinality(Guessing(c)) = code[c].attempts

(* At first nothing is counted.                                            *)
LEMMA InitCounted == Init => Counted
<1> SUFFICES ASSUME Init, NEW c \in Codes
             PROVE  /\ IsFiniteSet(Guessing(c))
                    /\ compared[c] + Cardinality(Guessing(c)) = code[c].attempts
  BY DEF Counted
<1>1. pc = [p \in Procs |-> "idle"] /\ compared[c] = 0 /\ code[c].attempts = 0
  BY DEF Init
<1>2. Guessing(c) = {}
  BY <1>1 DEF Guessing
<1> QED
  BY <1>1, <1>2, FS_EmptySet

(* A step of which no submission is counted or compared.                   *)
LEMMA CountKept ==
  ASSUME Counted, compared' = compared,
         \A c \in Codes : code'[c].attempts = code[c].attempts,
         \A p \in Procs : /\ pc'[p] = "compare" <=> pc[p] = "compare"
                          /\ pc[p] = "compare" => job'[p] = job[p]
  PROVE  Counted'
<1>1. \A c : Guessing(c)' = Guessing(c)
  BY DEF Guessing
<1> QED
  BY <1>1 DEF Counted

(* A step of a request that does not count, nor has counted, an attempt.   *)
LEMMA CountOther ==
  ASSUME Typed, Counted, NEW p \in Procs, pc[p] # "compare", pc'[p] # "compare",
         \A q \in Procs \ {p} : pc'[q] = pc[q] /\ job'[q] = job[q],
         compared' = compared, \A c \in Codes : code'[c].attempts = code[c].attempts
  PROVE  Counted'
BY CountKept

(* Where a request goes, the others stay.                                  *)
LEMMA Moves ==
  ASSUME Typed, NEW p \in Procs, NEW s \in Steps, NEW j, Goto(p, s, j)
  PROVE  /\ pc'[p] = s /\ job'[p] = j
         /\ \A q \in Procs \ {p} : pc'[q] = pc[q] /\ job'[q] = job[q]
BY DEF Typed, Goto

(* Cancelling codes leaves their attempts.                                 *)
LEMMA AttemptsKept ==
  ASSUME Typed, NEW u, code' = Cancelled(u)
  PROVE  \A c \in Codes : code'[c].attempts = code[c].attempts
BY DEF Typed, Rows, Cancelled

(* Every step keeps the count: an attempt is counted before its submission *)
(* is compared, and leaves when it was.                                    *)
LEMMA CountedNext == Typed /\ Counted /\ [Next]_vars => Counted'
<1> SUFFICES ASSUME Typed, Counted, [Next]_vars PROVE Counted'
  OBVIOUS
<1> USE AccountsAssumption
<1>1. ASSUME NEW p \in Procs, NEW u \in Users,
             \/ RequestOTP(p, u) \/ SetupInitialize(p, u) \/ CreateOrg(p, u)
             \/ Redeem(p, u) \/ Decide(p, u) \/ LockTarget(p, u)
      PROVE  Counted'
  <2>1. /\ pc[p] = "idle" /\ compared' = compared
        /\ \E s \in Steps \ {"compare"} : \E j : Goto(p, s, j)
    BY <1>1 DEF RequestOTP, SetupInitialize, CreateOrg, Redeem, Decide, LockTarget, Begin, Goto,
                codes, Steps
  <2>2. code' = code \/ code' = Cancelled(u)
    BY <1>1 DEF RequestOTP, SetupInitialize, CreateOrg, Redeem, Decide, LockTarget, codes
  <2> QED
    BY <2>1, <2>2, Moves, AttemptsKept, CountOther
<1>2. ASSUME NEW p \in Procs, Generate(p) PROVE Counted'
  <2>1. \A c \in Codes : code'[c].attempts = code[c].attempts
    BY <1>2 DEF Generate, Typed, Rows
  <2> QED
    BY <1>2, <2>1, Moves, CountOther DEF Generate, Return, Steps
<1>3. ASSUME NEW p \in Procs, Setup(p) PROVE Counted'
  <2>1. \A c \in Codes : code'[c].attempts = code[c].attempts
    BY <1>3 DEF Setup, Cancelled, Typed, Rows
  <2> QED
    BY <1>3, <2>1, Moves, CountOther DEF Setup, Return, Steps
<1>4. ASSUME NEW p \in Procs, Found(p) \/ Reject(p) \/ \E change \in Changes : Change(p, change)
      PROVE  Counted'
  BY <1>4, Moves, CountOther DEF Found, Reject, Change, Return, Steps, codes
<1>5. ASSUME NEW p \in Procs, Approve(p) PROVE Counted'
  <2>1. code' = code \/ code' = Cancelled(job[p].user)
    BY <1>5 DEF Approve
  <2>2. pc[p] = "decide" /\ compared' = compared
        /\ \E s \in Steps \ {"compare"} : \E j : Goto(p, s, j)
    BY <1>5 DEF Approve, Return, Steps
  <2> QED
    BY <2>1, <2>2, Moves, AttemptsKept, CountOther
<1>6. ASSUME NEW u \in Users,
             \/ RequestJoin(u)
             \/ \E role \in {"end", "agent", "admin"} : Invite(u, role) \/ Promote(u, role)
      PROVE  Counted'
  BY <1>6, CountKept DEF RequestJoin, Invite, Promote, codes
<1>7. CASE UNCHANGED vars
  BY <1>7, CountKept DEF vars, codes
<1>8. ASSUME NEW p \in Procs, Attempt(p) PROVE Counted'
  <2>1. PICK d \in Codes : d = job[p].code
    BY <1>8 DEF Attempt, Typed, JobHeld
  <2>2. pc[p] = "attempt" /\ compared' = compared
    BY <1>8 DEF Attempt
  <2>3. CASE Return(p) /\ UNCHANGED code
    BY <2>2, <2>3, Moves, CountOther DEF Return, Steps
  <2>4. CASE code' = [code EXCEPT ![d].attempts = @ + 1] /\ Goto(p, "compare", job[p])
    <3>1. /\ pc'[p] = "compare" /\ job' = job
          /\ \A q \in Procs \ {p} : pc'[q] = pc[q]
      BY <2>4 DEF Goto, Typed
    <3>2. /\ Guessing(d)' = Guessing(d) \cup {p} /\ p \notin Guessing(d)
          /\ \A c \in Codes \ {d} : Guessing(c)' = Guessing(c)
      BY <2>1, <2>2, <3>1 DEF Guessing
    <3>3. /\ code'[d].attempts = code[d].attempts + 1
          /\ \A c \in Codes \ {d} : code'[c] = code[c]
      BY <2>2, <2>4 DEF Typed, Rows
    <3>4. IsFiniteSet(Guessing(d)')
          /\ Cardinality(Guessing(d)') = Cardinality(Guessing(d)) + 1
      BY <2>2, <3>2, FS_AddElement DEF Counted
    <3>5. Cardinality(Guessing(d)) \in Nat /\ compared[d] \in Nat
      BY <2>2, FS_CardinalityType DEF Counted, Typed
    <3> QED
      BY <2>2, <3>2, <3>3, <3>4, <3>5 DEF Counted
  <2> QED
    BY <1>8, <2>1, <2>3, <2>4 DEF Attempt
<1>9. ASSUME NEW p \in Procs, NEW right \in BOOLEAN, Compare(p, right) PROVE Counted'
  <2>1. PICK d \in Codes : d = job[p].code
    BY <1>9 DEF Compare, Typed, JobHeld
  <2>2. pc[p] = "compare" /\ compared' = [compared EXCEPT ![d] = @ + 1]
    BY <1>9, <2>1 DEF Compare
  <2>3. pc'[p] = "idle" /\ \A q \in Procs \ {p} : pc'[q] = pc[q] /\ job'[q] = job[q]
    BY <1>9, Moves DEF Compare, Return, Steps
  <2>4. /\ Guessing(d)' = Guessing(d) \ {p} /\ p \in Guessing(d)
        /\ \A c \in Codes \ {d} : Guessing(c)' = Guessing(c)
    BY <2>1, <2>2, <2>3 DEF Guessing
  <2>5. \A c \in Codes : code'[c].attempts = code[c].attempts
    BY <1>9 DEF Compare, Typed, Rows
  <2>6. IsFiniteSet(Guessing(d)')
        /\ Cardinality(Guessing(d)') = Cardinality(Guessing(d)) - 1
    BY <2>2, <2>4, FS_RemoveElement DEF Counted
  <2>7. Cardinality(Guessing(d)) \in Nat /\ compared[d] \in Nat
    BY <2>2, FS_CardinalityType DEF Counted, Typed
  <2>8. compared'[d] = compared[d] + 1 /\ \A c \in Codes \ {d} : compared'[c] = compared[c]
    BY <2>2 DEF Typed
  <2>9. compared'[d] + Cardinality(Guessing(d)') = code'[d].attempts
    BY <2>5, <2>6, <2>7, <2>8 DEF Counted
  <2>10. ASSUME NEW c \in Codes \ {d}
        PROVE  /\ IsFiniteSet(Guessing(c)')
               /\ compared'[c] + Cardinality(Guessing(c)') = code'[c].attempts
    BY <2>4, <2>5, <2>8 DEF Counted
  <2> QED
    BY <2>6, <2>9, <2>10 DEF Counted
<1> QED
  BY <1>1, <1>2, <1>3, <1>4, <1>5, <1>6, <1>7, <1>8, <1>9 DEF Next

(* However many submissions run in parallel, no more than MaxAttempts are  *)
(* compared with one code (OTPCode.redeem counts the attempt in one        *)
(* update).                                                                *)
THEOREM GuessesBoundedCorrect == Spec => []GuessesBounded
<1>1. Typed /\ Counted => GuessesBounded
  <2> SUFFICES ASSUME Typed, Counted, NEW c \in Codes PROVE compared[c] <= MaxAttempts
    BY DEF GuessesBounded
  <2>1. /\ Cardinality(Guessing(c)) \in Nat /\ compared[c] \in Nat
        /\ code[c].attempts \in 0 .. MaxAttempts
    BY FS_CardinalityType DEF Counted, Typed, Rows
  <2> QED
    BY <2>1, AccountsAssumption DEF Counted
<1>2. Typed /\ Counted /\ [Next]_vars => (Typed /\ Counted)'
  BY TypedNext, CountedNext
<1> QED
  BY <1>1, <1>2, InitTyped, InitCounted, PTL DEF Spec

-----------------------------------------------------------------------------

(* A code that is not used has let nobody in.                              *)
Consumed == \A c \in Codes : ~code[c].used => letIn[c] = 0

Making(p, u) == pc[p] = "generate" /\ job[p].user = u

(* No two codes were made at once for an address.                          *)
NoRace == Without({"race"})

(* Of a request that makes a code: it is the only one to make one for its  *)
(* address, whose codes are all cancelled.                                 *)
AloneMaking ==
  /\ \A p, q \in Procs : \A u \in Users : Making(p, u) /\ Making(q, u) => p = q
  /\ \A p \in Procs : \A u \in Users : Making(p, u) => \A c \in CodesOf(u) : code[c].used

(* A code that is older than another of its address is cancelled.          *)
OldCancelled ==
  \A c, d \in Codes : c < d /\ code[c].user = code[d].user /\ code[c].user # None
                        => code[c].used

(* Without such a race, an address has one code at most that is not        *)
(* cancelled, its newest.                                                  *)
OneCode == NoRace => AloneMaking /\ OldCancelled

(* A submission under way is that of a code of its address.                *)
OwnCode ==
  \A p \in Procs : pc[p] \in {"attempt", "compare"} => code[job[p].code].user = job[p].user

(* Codes stay whose they are, and cancelled.                               *)
CodesStay ==
  \A c \in Codes : /\ code[c].user # None => code'[c].user = code[c].user
                   /\ code[c].used => code'[c].used

(* What Cancelled returns.                                                 *)
LEMMA CancelledIs ==
  ASSUME Typed, NEW u \in Users
  PROVE  \A c \in Codes :
           /\ Cancelled(u)[c].user = code[c].user
           /\ Cancelled(u)[c].used <=> code[c].used \/ code[c].user = u
BY DEF Typed, Rows, Cancelled

(* What follows the last code issued is not issued.                        *)
LEMMA NextCodeIs ==
  ASSUME Typed
  PROVE  \A c \in Codes : c > Newest(Issued) => code[c].user = None
<1>1. Issued \in SUBSET Codes
  BY DEF Issued
<1> QED
  BY <1>1, NewestIs, AccountsAssumption DEF Issued, Codes

(* Generate issues at most the code after the last.                        *)
LEMMA GeneratedIs ==
  ASSUME Typed, NEW p \in Procs, Generate(p)
  PROVE  \A c \in Codes :
           /\ code'[c].used <=> code[c].used
           /\ \/ code'[c].user = code[c].user
              \/ c = Newest(Issued) + 1 /\ code'[c].user = job[p].user
<1> DEFINE n == Newest(Issued) + 1
<1>1. code' = code \/ code' = [code EXCEPT ![n].user = job[p].user]
  BY DEF Generate
<1> HIDE DEF n
<1>2. ASSUME NEW c \in Codes, code' = [code EXCEPT ![n].user = job[p].user]
      PROVE  /\ code'[c].used = code[c].used
             /\ code'[c].user = IF c = n THEN job[p].user ELSE code[c].user
  BY <1>2 DEF Typed, Rows
<1> QED
  BY <1>1, <1>2 DEF n

(* The step of Setup that makes a code.                                    *)
SetUp(p) ==
  code' = [c \in Codes |->
    IF c <= job[p].code THEN Cancelled(job[p].user)[c]
    ELSE IF c = Newest(Issued) + 1 THEN [code[c] EXCEPT !.user = job[p].user] ELSE code[c]]

(* What the step of Setup does to each code.                               *)
LEMMA SetUpIs ==
  ASSUME Typed, NEW p \in Procs, job[p] \in Jobs, SetUp(p)
  PROVE  \A c \in Codes :
           /\ code'[c].used <=> \/ code[c].used
                                \/ c <= job[p].code /\ code[c].user = job[p].user
           /\ \/ code'[c].user = code[c].user
              \/ c = Newest(Issued) + 1 /\ code'[c].user = job[p].user
<1>1. job[p].user \in Users
  BY DEF Jobs
<1> SUFFICES ASSUME NEW c \in Codes
             PROVE  /\ code'[c].used <=> \/ code[c].used
                                         \/ c <= job[p].code /\ code[c].user = job[p].user
                    /\ \/ code'[c].user = code[c].user
                       \/ c = Newest(Issued) + 1 /\ code'[c].user = job[p].user
  OBVIOUS
<1>2. code[c] \in Rows
  BY DEF Typed
<1>3. CASE c <= job[p].code
  <2>1. code'[c] = Cancelled(job[p].user)[c]
    BY <1>3 DEF SetUp
  <2> QED
    BY <1>1, <1>3, <2>1, CancelledIs
<1>4. CASE ~(c <= job[p].code) /\ c = Newest(Issued) + 1
  <2>1. code'[c] = [code[c] EXCEPT !.user = job[p].user]
    BY <1>4 DEF SetUp
  <2>2. code'[c].used = code[c].used /\ code'[c].user = job[p].user
    BY <1>2, <2>1 DEF Rows
  <2> QED
    BY <1>4, <2>2
<1>5. CASE ~(c <= job[p].code) /\ c # Newest(Issued) + 1
  <2>1. code'[c] = code[c]
    BY <1>5 DEF SetUp
  <2> QED
    BY <1>5, <2>1
<1> QED
  BY <1>3, <1>4, <1>5

(* No step gives a code to another address or brings one back.             *)
LEMMA CodesStayNext == Typed /\ [Next]_vars => CodesStay
<1> SUFFICES ASSUME Typed, [Next]_vars PROVE CodesStay
  OBVIOUS
<1> USE AccountsAssumption
<1>1. \A u \in Users : code' = Cancelled(u) => CodesStay
  BY CancelledIs DEF CodesStay
<1>2. code' = code => CodesStay
  BY DEF CodesStay
<1>3. ASSUME NEW p \in Procs, NEW u \in Users,
             \/ RequestOTP(p, u) \/ SetupInitialize(p, u) \/ CreateOrg(p, u)
             \/ Redeem(p, u) \/ Decide(p, u) \/ LockTarget(p, u)
      PROVE  CodesStay
  BY <1>1, <1>2, <1>3
  DEF RequestOTP, SetupInitialize, CreateOrg, Redeem, Decide, LockTarget, codes
<1>4. ASSUME NEW p \in Procs, Generate(p) PROVE CodesStay
  <2>1. \A c \in Codes : c = Newest(Issued) + 1 => code[c].user = None
    BY NextCodeIs, NewestIs DEF Issued, Codes
  <2> QED
    BY <1>4, <2>1, GeneratedIs DEF CodesStay
<1>5. ASSUME NEW p \in Procs, Setup(p) PROVE CodesStay
  <2>1. \A c \in Codes : c = Newest(Issued) + 1 => code[c].user = None
    BY NextCodeIs, NewestIs DEF Issued, Codes
  <2>2. job[p] \in Jobs
    BY <1>5 DEF Setup, Typed, JobHeld
  <2>3. code' = code \/ SetUp(p)
    BY <1>5 DEF Setup, SetUp
  <2> QED
    BY <1>2, <2>1, <2>2, <2>3, SetUpIs DEF CodesStay
<1>6. ASSUME NEW p \in Procs, Approve(p) PROVE CodesStay
  <2>1. job[p].user \in Users
    BY <1>6 DEF Approve, Typed, JobHeld, Jobs
  <2>2. code' = code \/ code' = Cancelled(job[p].user)
    BY <1>6 DEF Approve
  <2> QED
    BY <1>1, <1>2, <2>1, <2>2
<1>7. ASSUME NEW p \in Procs, Attempt(p) PROVE CodesStay
  BY <1>7 DEF Attempt, CodesStay, Typed, Rows
<1>8. ASSUME NEW p \in Procs, NEW right \in BOOLEAN, Compare(p, right) PROVE CodesStay
  BY <1>8 DEF Compare, CodesStay, Typed, Rows
<1>9. ASSUME code' = code PROVE CodesStay
  BY <1>2, <1>9
<1>10. ASSUME NEW p \in Procs, NEW u \in Users,
              SetupInitialize(p, u) \/ CreateOrg(p, u) \/ Redeem(p, u) \/ Decide(p, u)
                \/ LockTarget(p, u)
       PROVE  code' = code
  BY <1>10, Zenon DEF SetupInitialize, CreateOrg, Redeem, Decide, LockTarget, codes
<1>11. ASSUME NEW p \in Procs, Found(p) \/ Reject(p) PROVE code' = code
  BY <1>11, Zenon DEF Found, Reject, codes
<1>12. ASSUME NEW p \in Procs, NEW change \in Changes, Change(p, change) PROVE code' = code
  BY <1>12 DEF Change, codes
<1>13. ASSUME NEW u \in Users, NEW role, RequestJoin(u) \/ Invite(u, role) \/ Promote(u, role)
       PROVE  code' = code
  BY <1>13, Zenon DEF RequestJoin, Invite, Promote, codes
<1>14. UNCHANGED vars => code' = code
  BY DEF vars, codes
<1> QED
  BY <1>3, <1>4, <1>5, <1>6, <1>7, <1>8, <1>9, <1>10, <1>11, <1>12, <1>13, <1>14, Zenon DEF Next

(* What happened, happened.                                                *)
LEMMA HappenedStays == [Next]_vars => happened \subseteq happened'
<1> DEFINE Stays == UNCHANGED happened \/ \E kinds : Happen(kinds)
<1>1. ASSUME NEW p \in Procs, NEW u \in Users,
             \/ RequestOTP(p, u) \/ SetupInitialize(p, u) \/ CreateOrg(p, u)
             \/ Redeem(p, u) \/ Decide(p, u) \/ LockTarget(p, u)
      PROVE  Stays
  BY <1>1, Zenon
  DEF RequestOTP, SetupInitialize, CreateOrg, Redeem, Decide, LockTarget, FaultIf
<1>2. ASSUME NEW p \in Procs, Generate(p) \/ Attempt(p) \/ Setup(p) \/ Found(p) \/ Reject(p)
      PROVE  Stays
  BY <1>2, Zenon DEF Generate, Attempt, Setup, Found, Reject, FaultIf
<1>3. ASSUME NEW p \in Procs, Approve(p) PROVE Stays
  BY <1>3, Zenon DEF Approve, FaultIf
<1>4. ASSUME NEW p \in Procs, NEW right \in BOOLEAN, Compare(p, right) PROVE Stays
  BY <1>4, Zenon DEF Compare
<1>5. ASSUME NEW p \in Procs, NEW change \in Changes, Change(p, change) PROVE Stays
  BY <1>5, Zenon DEF Change
<1>6. ASSUME NEW u \in Users, NEW role, RequestJoin(u) \/ Invite(u, role) \/ Promote(u, role)
      PROVE  Stays
  BY <1>6, Zenon DEF RequestJoin, Invite, Promote
<1>7. UNCHANGED vars => Stays
  BY DEF vars
<1>8. [Next]_vars => Stays
  <2> HIDE DEF Stays
  <2> QED
    BY <1>1, <1>2, <1>3, <1>4, <1>5, <1>6, <1>7, Zenon DEF Next
<1> QED
  BY <1>8 DEF Happen

(* Every step keeps submissions with codes of their own address.           *)
LEMMA OwnCodeNext == Typed /\ OwnCode /\ [Next]_vars => OwnCode'
<1> SUFFICES ASSUME Typed, OwnCode, [Next]_vars PROVE OwnCode'
  OBVIOUS
<1> USE AccountsAssumption
<1>1. CodesStay
  BY CodesStayNext
<1>2. ASSUME \A p \in Procs : pc'[p] \in {"attempt", "compare"} =>
               \/ pc[p] \in {"attempt", "compare"} /\ job'[p] = job[p]
               \/ job'[p].code \in Codes /\ code[job'[p].code].user = job'[p].user
                  /\ job'[p].user # None
      PROVE  OwnCode'
  BY <1>1, <1>2 DEF CodesStay, OwnCode, Typed, JobHeld
<1>3. ASSUME NEW p \in Procs, NEW u \in Users,
             \/ RequestOTP(p, u) \/ SetupInitialize(p, u) \/ CreateOrg(p, u)
             \/ Decide(p, u) \/ LockTarget(p, u)
      PROVE  OwnCode'
  <2>1. \E s \in Steps \ {"attempt", "compare"} : \E j : Goto(p, s, j)
    BY <1>3 DEF RequestOTP, SetupInitialize, CreateOrg, Decide, LockTarget, Begin, Goto, Steps
  <2> QED
    BY <1>2, <2>1, Moves
<1>4. ASSUME NEW p \in Procs,
             \/ Generate(p) \/ Setup(p) \/ Found(p) \/ Approve(p) \/ Reject(p)
             \/ \E right \in BOOLEAN : Compare(p, right)
             \/ \E change \in Changes : Change(p, change)
      PROVE  OwnCode'
  <2>1. \E s \in Steps \ {"attempt", "compare"} : \E j : Goto(p, s, j)
    BY <1>4 DEF Generate, Setup, Found, Approve, Reject, Compare, Change, Return, Steps
  <2> QED
    BY <1>2, <2>1, Moves
<1>5. ASSUME NEW p \in Procs, NEW u \in Users, Redeem(p, u) PROVE OwnCode'
  <2> DEFINE c == Newest({d \in CodesOf(u) : ~code[d].used})
  <2>1. c \in Codes /\ code[c].user = u /\ u # None
    BY <1>5, NewestIs DEF Redeem, CodesOf
  <2>2. Goto(p, "attempt", [NewJob(u) EXCEPT !.code = c])
    BY <1>5 DEF Redeem, Begin, Goto
  <2>3. [NewJob(u) EXCEPT !.code = c].code = c /\ [NewJob(u) EXCEPT !.code = c].user = u
    BY DEF NewJob
  <2> HIDE DEF c
  <2>4. /\ job'[p].code = c /\ job'[p].user = u
        /\ \A q \in Procs \ {p} : pc'[q] = pc[q] /\ job'[q] = job[q]
    BY <2>2, <2>3, Moves DEF Steps
  <2> QED
    BY <1>2, <2>1, <2>4
<1>6. ASSUME NEW p \in Procs, Attempt(p) PROVE OwnCode'
  <2>1. Return(p) \/ Goto(p, "compare", job[p])
    BY <1>6 DEF Attempt
  <2>2. pc[p] = "attempt"
    BY <1>6 DEF Attempt
  <2> QED
    BY <1>2, <2>1, <2>2, Moves DEF Return, Steps
<1>7. ASSUME UNCHANGED <<pc, job>> PROVE OwnCode'
  BY <1>2, <1>7
<1> QED
  BY <1>3, <1>4, <1>5, <1>6, <1>7 DEF Next, RequestJoin, Invite, Promote, vars

(* What Compare does, if it lets in.                                       *)
LEMMA LettingIn ==
  ASSUME Typed, NEW p \in Procs, NEW right \in BOOLEAN, Compare(p, right)
  PROVE  \/ letIn' = letIn
         \/ /\ job[p].code \in Codes
            /\ ~code[job[p].code].used /\ code'[job[p].code].used
            /\ letIn' = [letIn EXCEPT ![job[p].code] = @ + 1]
<1>1. job[p].code \in Codes
  BY DEF Compare, Typed, JobHeld
<1>2. CASE ~(right /\ Consumable(job[p].code))
  BY <1>2 DEF Compare
<1>3. CASE right /\ Consumable(job[p].code)
  <2>1. code' = [code EXCEPT ![job[p].code].used = TRUE]
    BY <1>3 DEF Compare
  <2>2. code'[job[p].code].used
    BY <1>1, <2>1 DEF Typed, Rows
  <2>3. letIn' = letIn \/ LetIn(job[p].code)
    <3>1. \/ SignUp(job[p].user, job[p].code) \/ LogIn(job[p].user, job[p].code)
          \/ LogInToAdmin(job[p].user, job[p].code)
      BY <1>3, Zenon DEF Compare
    <3> QED
      BY <3>1, Zenon DEF SignUp, LogIn, LogInToAdmin
  <2> QED
    BY <1>1, <1>3, <2>2, <2>3 DEF Consumable, LetIn
<1> QED
  BY <1>2, <1>3

(* Nothing else lets in.                                                   *)
LEMMA OnlyCompareLetsIn ==
  ASSUME [Next]_vars, letIn' # letIn
  PROVE  \E p \in Procs, right \in BOOLEAN : Compare(p, right)
<1>1. ASSUME NEW p \in Procs, NEW u \in Users,
             \/ RequestOTP(p, u) \/ SetupInitialize(p, u) \/ CreateOrg(p, u)
             \/ Redeem(p, u) \/ Decide(p, u) \/ LockTarget(p, u)
      PROVE  FALSE
  BY <1>1, Zenon
  DEF RequestOTP, SetupInitialize, CreateOrg, Redeem, Decide, LockTarget, codes
<1>2. ASSUME NEW p \in Procs,
             \/ Generate(p) \/ Attempt(p) \/ Setup(p) \/ Found(p) \/ Approve(p) \/ Reject(p)
             \/ \E change \in Changes : Change(p, change)
      PROVE  FALSE
  BY <1>2, Zenon DEF Generate, Attempt, Setup, Found, Approve, Reject, Change, codes
<1>3. ASSUME NEW u \in Users, NEW role, RequestJoin(u) \/ Invite(u, role) \/ Promote(u, role)
      PROVE  FALSE
  BY <1>3, Zenon DEF RequestJoin, Invite, Promote, codes
<1>4. ~UNCHANGED vars
  BY DEF vars
<1> QED
  BY <1>1, <1>2, <1>3, <1>4, Zenon DEF Next

(* Every step keeps Consumed: who is let in uses the code up.              *)
LEMMA ConsumedNext == Typed /\ Consumed /\ [Next]_vars => Consumed'
<1> SUFFICES ASSUME Typed, Consumed, [Next]_vars PROVE Consumed'
  OBVIOUS
<1>1. CodesStay
  BY CodesStayNext
<1>2. CASE letIn' = letIn
  BY <1>1, <1>2 DEF CodesStay, Consumed
<1>3. ASSUME NEW p \in Procs, NEW right \in BOOLEAN, Compare(p, right) PROVE Consumed'
  BY <1>1, <1>2, <1>3, LettingIn DEF CodesStay, Consumed, Typed
<1> QED
  BY <1>2, <1>3, OnlyCompareLetsIn


(* A step that neither makes a code nor starts to.                         *)
LEMMA MakingKept ==
  ASSUME AloneMaking, OldCancelled, CodesStay,
         \A c \in Codes : code'[c].user = code[c].user,
         \A p \in Procs : pc'[p] = "generate" => pc[p] = "generate" /\ job'[p] = job[p]
  PROVE  AloneMaking' /\ OldCancelled'
<1>1. \A p \in Procs : \A u \in Users : Making(p, u)' => Making(p, u)
  BY DEF Making
<1>2. \A c \in Codes : code[c].used => code'[c].used
  BY DEF CodesStay
<1>3. AloneMaking'
  BY <1>1, <1>2 DEF AloneMaking, CodesOf
<1>4. OldCancelled'
  BY <1>2 DEF OldCancelled
<1> QED
  BY <1>3, <1>4

(* A request that cancels the codes of u and goes on to make one.          *)
LEMMA MakingStarts ==
  ASSUME Typed, AloneMaking, OldCancelled, NEW p \in Procs, NEW u \in Users, ~BeingMade(u),
         code' = Cancelled(u), Goto(p, "generate", NewJob(u))
  PROVE  AloneMaking' /\ OldCancelled'
<1>1. \A c \in Codes : /\ code'[c].user = code[c].user
                       /\ code'[c].used <=> code[c].used \/ code[c].user = u
  BY CancelledIs
<1>2. job'[p].user = u /\ \A q \in Procs \ {p} : pc'[q] = pc[q] /\ job'[q] = job[q]
  BY Moves DEF NewJob, Steps
<1>3. \A q \in Procs : \A v \in Users : Making(q, v)' => Making(q, v) \/ (q = p /\ v = u)
  BY <1>2 DEF Making
<1>4. \A q \in Procs : ~Making(q, u)
  BY DEF BeingMade, Making
<1>5. \A q \in Procs \ {p} : \A v \in Users : Making(q, v)' => Making(q, v) /\ v # u
  BY <1>3, <1>4
<1>6. \A v \in Users : Making(p, v)' => v = u
  BY <1>2 DEF Making
<1>7. \A q, r \in Procs : \A v \in Users : Making(q, v)' /\ Making(r, v)' => q = r
  BY <1>5, <1>6 DEF AloneMaking
<1>8. \A q \in Procs : \A v \in Users : Making(q, v)' => \A c \in CodesOf(v)' : code'[c].used
  BY <1>1, <1>3 DEF AloneMaking, CodesOf
<1>9. OldCancelled'
  BY <1>1 DEF OldCancelled
<1> QED
  BY <1>7, <1>8, <1>9 DEF AloneMaking

(* A new code for u, whose others are cancelled.                           *)
LEMMA MakingEnds ==
  ASSUME Typed, AloneMaking, OldCancelled, NEW u \in Users,
         \A c \in Codes : /\ code[c].used => code'[c].used
                          /\ code[c].user = u => code'[c].used
                          /\ \/ code'[c].user = code[c].user
                             \/ c = Newest(Issued) + 1 /\ code'[c].user = u,
         \A q \in Procs : \A v \in Users : Making(q, v)' => Making(q, v) /\ v # u
  PROVE  AloneMaking' /\ OldCancelled'
<1>1. Newest(Issued) \in Nat
  BY NewestIs, AccountsAssumption DEF Issued
<1>2. AloneMaking'
  BY DEF AloneMaking, CodesOf
<1>3. ASSUME NEW c \in Codes, NEW d \in Codes, c < d,
             code'[c].user = code'[d].user, code'[c].user # None
      PROVE  code'[c].used
  <2>1. CASE code'[d].user = code[d].user /\ code'[c].user = code[c].user
    BY <1>3, <2>1 DEF OldCancelled
  <2>2. CASE d = Newest(Issued) + 1 /\ code'[d].user = u
    BY <1>1, <1>3, <2>2 DEF Codes
  <2>3. CASE c = Newest(Issued) + 1 /\ code'[d].user = code[d].user
    BY <1>1, <1>3, <2>3, NextCodeIs DEF Codes
  <2> QED
    BY <1>1, <1>3, <2>1, <2>2, <2>3 DEF Codes
<1> QED
  BY <1>2, <1>3 DEF OldCancelled

(* Every step keeps OneCode, unless it is a race.                          *)
LEMMA OneCodeNext == Typed /\ OneCode /\ [Next]_vars => OneCode'
<1> SUFFICES ASSUME Typed, OneCode, [Next]_vars, NoRace'
             PROVE  AloneMaking' /\ OldCancelled'
  BY DEF OneCode
<1> USE AccountsAssumption
<1>1. NoRace /\ "race" \notin happened'
  BY HappenedStays DEF NoRace, Without
<1>2. AloneMaking /\ OldCancelled
  BY <1>1 DEF OneCode
<1>3. CodesStay
  BY CodesStayNext
<1>4. ASSUME NEW p \in Procs, \A c \in Codes : code'[c].user = code[c].user,
             NEW s \in Steps \ {"generate"}, NEW j, Goto(p, s, j)
      PROVE  AloneMaking' /\ OldCancelled'
  BY <1>2, <1>3, <1>4, Moves, MakingKept
<1>5. ASSUME NEW p \in Procs, NEW u \in Users,
             SetupInitialize(p, u) \/ CreateOrg(p, u) \/ Redeem(p, u) \/ Decide(p, u)
               \/ LockTarget(p, u)
      PROVE  AloneMaking' /\ OldCancelled'
  <2>1. code' = code /\ \E s \in Steps \ {"generate"} : \E j : Goto(p, s, j)
    BY <1>5 DEF SetupInitialize, CreateOrg, Redeem, Decide, LockTarget, Begin, Goto, Steps, codes
  <2> QED
    BY <1>4, <2>1
<1>6. ASSUME NEW p \in Procs, Found(p) \/ Reject(p) \/ \E change \in Changes : Change(p, change)
      PROVE  AloneMaking' /\ OldCancelled'
  BY <1>4, <1>6 DEF Found, Reject, Change, Return, Steps, codes
<1>7. ASSUME NEW p \in Procs, Attempt(p) \/ \E right \in BOOLEAN : Compare(p, right)
      PROVE  AloneMaking' /\ OldCancelled'
  <2>1. \A c \in Codes : code'[c].user = code[c].user
    BY <1>7 DEF Attempt, Compare, Typed, Rows
  <2>2. \E s \in Steps \ {"generate"} : \E j : Goto(p, s, j)
    BY <1>7 DEF Attempt, Compare, Return, Steps
  <2> QED
    BY <1>4, <2>1, <2>2
<1>8. ASSUME NEW p \in Procs, NEW u \in Users, RequestOTP(p, u)
      PROVE  AloneMaking' /\ OldCancelled'
  <2>1. ~BeingMade(u)
    BY <1>1, <1>8 DEF RequestOTP, FaultIf, Happen, If
  <2> QED
    BY <1>2, <1>8, <2>1, MakingStarts DEF RequestOTP, Begin, Goto
<1>9. ASSUME NEW p \in Procs, Approve(p) PROVE AloneMaking' /\ OldCancelled'
  <2>1. CASE code' = code /\ Return(p)
    BY <1>4, <2>1 DEF Return, Steps
  <2>2. PICK u \in Users : u = job[p].user
    BY <1>9 DEF Approve, Typed, JobHeld, Jobs
  <2>3. CASE /\ Goto(p, "generate", NewJob(u)) /\ code' = Cancelled(u)
             /\ Happen(If(~Undecided(u), "stale") \cup If(BeingMade(u), "race"))
    <3>1. ~BeingMade(u)
      BY <1>1, <2>3 DEF Happen, If
    <3> QED
      BY <1>2, <2>3, <3>1, MakingStarts
  <2> QED
    BY <1>9, <2>1, <2>2, <2>3 DEF Approve
<1>10. ASSUME NEW p \in Procs, Generate(p) PROVE AloneMaking' /\ OldCancelled'
  <2>1. PICK u \in Users : u = job[p].user
    BY <1>10 DEF Generate, Typed, JobHeld, Jobs
  <2>2. pc'[p] = "idle" /\ \A q \in Procs \ {p} : pc'[q] = pc[q] /\ job'[q] = job[q]
    BY <1>10, Moves DEF Generate, Return, Steps
  <2>3. Making(p, u)
    BY <1>10, <2>1 DEF Generate, Making
  <2>4. \A q \in Procs : \A v \in Users : Making(q, v)' => Making(q, v) /\ q # p
    BY <2>2 DEF Making
  <2>5. \A q \in Procs : \A v \in Users : Making(q, v)' => Making(q, v) /\ v # u
    BY <1>2, <2>3, <2>4 DEF AloneMaking
  <2>6. \A c \in Codes : code[c].user = u => code[c].used
    BY <1>2, <2>3 DEF AloneMaking, CodesOf
  <2> QED
    BY <1>2, <1>10, <2>1, <2>5, <2>6, GeneratedIs, MakingEnds
<1>11. ASSUME NEW p \in Procs, Setup(p) PROVE AloneMaking' /\ OldCancelled'
  <2>1. CASE code' = code
    BY <1>4, <1>11, <2>1 DEF Setup, Return, Steps
  <2>2. PICK u \in Users : u = job[p].user
    BY <1>11 DEF Setup, Typed, JobHeld, Jobs
  <2>3. CASE /\ SetUp(p)
             /\ Happen(If(Initialized \/ Attempts # job[p].gone \cap Attempts, "stale")
                       \cup If(BeingMade(u) \/ Newest(CodesOf(u)) > job[p].code, "race"))
    <3>1. ~BeingMade(u) /\ ~(Newest(CodesOf(u)) > job[p].code)
      BY <1>1, <2>3 DEF Happen, If
    <3>2. job[p] \in Jobs /\ job[p].code \in Nat
      BY <1>11 DEF Setup, Typed, JobHeld, Jobs
    <3>3. \A c \in Codes : code[c].user = u => c <= job[p].code
      <4>1. CodesOf(u) \in SUBSET Codes
        BY DEF CodesOf
      <4>2. Newest(CodesOf(u)) \in Nat /\ \A c \in CodesOf(u) : c <= Newest(CodesOf(u))
        BY <4>1, NewestIs
      <4> QED
        BY <3>1, <3>2, <4>2 DEF CodesOf, Codes
    <3>4. pc'[p] = "idle" /\ \A q \in Procs \ {p} : pc'[q] = pc[q] /\ job'[q] = job[q]
      BY <1>11, Moves DEF Setup, Return, Steps
    <3>5. \A q \in Procs : \A v \in Users : Making(q, v)' => Making(q, v)
      BY <3>4 DEF Making
    <3>6. \A q \in Procs : \A v \in Users : Making(q, v)' => Making(q, v) /\ v # u
      BY <3>1, <3>5 DEF BeingMade, Making
    <3> QED
      BY <1>2, <2>2, <2>3, <3>2, <3>3, <3>6, SetUpIs, MakingEnds
  <2> QED
    BY <1>11, <2>1, <2>2, <2>3 DEF Setup, SetUp
<1>12. ASSUME UNCHANGED <<pc, job, code>> PROVE AloneMaking' /\ OldCancelled'
  BY <1>2, <1>3, <1>12, MakingKept
<1> QED
  BY <1>5, <1>6, <1>7, <1>8, <1>9, <1>10, <1>11, <1>12
  DEF Next, RequestJoin, Invite, Promote, vars, codes

(* At first there is no code.                                              *)
LEMMA InitCodes == Init => Consumed /\ OwnCode /\ OneCode
<1> SUFFICES ASSUME Init PROVE Consumed /\ OwnCode /\ OneCode
  OBVIOUS
<1>1. pc = [p \in Procs |-> "idle"] /\ letIn = [c \in Codes |-> 0]
  BY DEF Init
<1>2. \A c \in Codes : code[c].user = None
  BY DEF Init
<1>3. Consumed /\ OwnCode
  BY <1>1 DEF Consumed, OwnCode
<1>4. AloneMaking
  BY <1>1 DEF AloneMaking, Making
<1>5. OldCancelled
  BY <1>2 DEF OldCancelled
<1> QED
  BY <1>3, <1>4, <1>5 DEF OneCode

(* The inductive invariant of LetsInOnce.                                  *)
CodesInv == Typed /\ Consumed /\ OwnCode /\ OneCode

(* What one step does of a code: it lets in for the first time, and, where *)
(* no two were made at once, it is the newest of its address.              *)
LetsInStep ==
  \A c \in Codes : letIn'[c] # letIn[c] =>
    /\ letIn'[c] = 1
    /\ Without({"race"}) => c = Newest(CodesOf(code[c].user))

(* The invariant makes every step one of LetsInOnce.                       *)
LEMMA StepLetsIn ==
  ASSUME CodesInv, [Next]_vars
  PROVE  LetsInStep
<1> SUFFICES ASSUME NEW c \in Codes, letIn'[c] # letIn[c]
             PROVE  /\ letIn'[c] = 1
                    /\ Without({"race"}) => c = Newest(CodesOf(code[c].user))
  BY DEF LetsInStep
<1>1. PICK p \in Procs, right \in BOOLEAN : Compare(p, right)
  BY OnlyCompareLetsIn
<1>2. c = job[p].code /\ ~code[c].used /\ letIn' = [letIn EXCEPT ![c] = @ + 1]
  BY <1>1, LettingIn DEF CodesInv, Typed
<1>3. letIn'[c] = 1
  BY <1>2 DEF CodesInv, Typed, Consumed
<1>4. ASSUME NoRace PROVE c = Newest(CodesOf(code[c].user))
  <2>1. code[c].user # None
    BY <1>1, <1>2 DEF CodesInv, Typed, JobHeld, Compare
  <2>2. \A d \in CodesOf(code[c].user) : ~(c < d)
    BY <1>2, <1>4, <2>1 DEF CodesInv, OneCode, OldCancelled, CodesOf
  <2>3. CodesOf(code[c].user) \in SUBSET Codes /\ c \in CodesOf(code[c].user)
    BY DEF CodesOf
  <2>4. /\ Newest(CodesOf(code[c].user)) \in CodesOf(code[c].user)
        /\ c <= Newest(CodesOf(code[c].user))
    BY <2>3, NewestIs
  <2>5. ~(c < Newest(CodesOf(code[c].user)))
    BY <2>2, <2>4
  <2>6. Newest(CodesOf(code[c].user)) \in Int /\ c \in Int
    BY <2>3, <2>4 DEF Codes
  <2> HIDE DEF CodesOf
  <2> QED
    BY <2>4, <2>5, <2>6
<1> QED
  BY <1>3, <1>4 DEF NoRace

(* A code lets in once, and only the newest of its address does, where no  *)
(* two were made at once (OTPCode.generate and redeem).                    *)
THEOREM LetsInOnceCorrect == Spec => LetsInOnce
<1>1. Init => CodesInv
  BY InitTyped, InitCodes DEF CodesInv
<1>2. CodesInv /\ [Next]_vars => CodesInv'
  BY TypedNext, ConsumedNext, OwnCodeNext, OneCodeNext DEF CodesInv
<1>3. CodesInv /\ [Next]_vars => LetsInStep
  BY StepLetsIn
<1> QED
  BY <1>1, <1>2, <1>3, PTL DEF Spec, LetsInOnce, LetsInStep

-----------------------------------------------------------------------------

(* No request wrote what had changed since it was loaded.                  *)
NotStale == Without({"stale"})

(* Who runs neither another organization nor the instance.                 *)
Ordinary == {"none", "end", "lonely", "agent", "admin"}

(* What becomes of accounts, when no request writes what changed since it  *)
(* was loaded, and no attempt to set the instance up is made.              *)
Become ==
  \A u \in Users :
    \/ account'[u] = account[u]
    \/ account[u] \in Ordinary /\ account'[u] \in Ordinary
    \/ InNone(u) /\ account'[u] = "founder"
    \/ account[u] = "attempt" /\ account'[u] = "platform"

(* u's attempt to set the instance up replaces all others.                 *)
Chosen(u) ==
  /\ account[u] \in {"none", "attempt"} /\ account'[u] = "attempt"
  /\ \A v \in Users \ {u} :
       account'[v] = IF account[v] = "attempt" THEN "none" ELSE account[v]
  /\ \A v \in Users : account[v] # "platform"

(* The change of one account.                                              *)
LEMMA SetBecomes ==
  ASSUME Typed, NEW u \in Users, NEW k \in Accounts, account' = [account EXCEPT ![u] = k],
         \/ k = account[u]
         \/ account[u] \in Ordinary /\ k \in Ordinary
         \/ InNone(u) /\ k = "founder"
         \/ account[u] = "attempt" /\ k = "platform"
  PROVE  Become
<1>1. \A v \in Users : account'[v] = IF v = u THEN k ELSE account[v]
  BY DEF Typed
<1> QED
  BY <1>1 DEF Become

(* What every step makes of accounts.                                      *)
LEMMA BecomeNext ==
  ASSUME Typed, [Next]_vars, NotStale'
  PROVE  Become \/ \E u \in Users : Chosen(u)
<1> USE AccountsAssumption
<1>1. "stale" \notin happened'
  BY DEF NotStale, Without
<1>2. account' = account => Become
  BY DEF Become
<1>3. ASSUME NEW p \in Procs, NEW right \in BOOLEAN, Compare(p, right) PROVE Become
  <2>1. job[p].user \in Users
    BY <1>3 DEF Compare, Typed, JobHeld, Jobs
  <2>2. \/ account' = account
        \/ account[job[p].user] = "none" /\ Set(job[p].user, "lonely", TRUE)
        \/ account[job[p].user] = "attempt" /\ Set(job[p].user, "platform", TRUE)
    BY <1>3 DEF Compare, SignUp, LogIn, LogInToAdmin, Verified, accounts
  <2> QED
    BY <1>2, <2>1, <2>2, SetBecomes DEF Set, Ordinary, Accounts
<1>4. ASSUME NEW p \in Procs, Setup(p) PROVE Become \/ \E u \in Users : Chosen(u)
  <2> DEFINE u == job[p].user
             gone == job[p].gone \cap Attempts
  <2>1. CASE account' = account
    BY <1>2, <2>1
  <2>2. CASE /\ account[u] = "none" \/ u \in gone
             /\ account' = [v \in Users |-> IF v = u THEN "attempt"
                              ELSE IF v \in gone THEN "none" ELSE account[v]]
             /\ Happen(If(Initialized \/ Attempts # gone, "stale")
                       \cup If(BeingMade(u) \/ Newest(CodesOf(u)) > job[p].code, "race"))
    <3>1. ~Initialized /\ Attempts = gone
      BY <1>1, <2>2 DEF Happen, If
    <3>2. u \in Users
      BY <1>4 DEF Setup, Typed, JobHeld, Jobs
    <3>3. \A v \in Users : account[v] # "platform"
      BY <3>1 DEF Initialized, Staff, Attempts
    <3>4. account[u] \in {"none", "attempt"}
      BY <2>2, <3>1 DEF Attempts
    <3>5. \A v \in Users : account'[v] = IF v = u THEN "attempt"
                                         ELSE IF account[v] = "attempt" THEN "none" ELSE account[v]
      BY <2>2, <3>1 DEF Attempts
    <3> HIDE DEF u
    <3> QED
      BY <3>2, <3>3, <3>4, <3>5 DEF Chosen
  <2> QED
    BY <1>4, <2>1, <2>2 DEF Setup, accounts
<1>5. ASSUME NEW p \in Procs, Found(p) PROVE Become
  <2>1. job[p].user \in Users
    BY <1>5 DEF Found, Typed, JobHeld, Jobs
  <2>2. \/ account' = account
        \/ InNone(job[p].user) /\ account' = [account EXCEPT ![job[p].user] = "founder"]
    BY <1>1, <1>5 DEF Found, FaultIf, Happen, If, Set, accounts
  <2>3. CASE InNone(job[p].user) /\ account' = [account EXCEPT ![job[p].user] = "founder"]
    BY <2>1, <2>3 DEF Become, Typed
  <2> QED
    BY <1>2, <2>2, <2>3
<1>6. ASSUME NEW p \in Procs, Approve(p) PROVE Become
  <2>1. job[p].user \in Users /\ account[job[p].user] \in Accounts
    BY <1>6 DEF Approve, Typed, JobHeld, Jobs
  <2>2. account' = account \/ (MayJoin(job[p].user) /\ Set(job[p].user, "agent", TRUE))
    BY <1>6 DEF Approve, accounts
  <2> QED
    BY <1>2, <2>1, <2>2, SetBecomes DEF Set, MayJoin, Ordinary, Accounts
<1>7. ASSUME NEW u \in Users, NEW role \in {"end", "agent", "admin"},
             Invite(u, role) \/ Promote(u, role)
      PROVE  Become
  BY <1>7, SetBecomes DEF Invite, Promote, Set, Ordinary, Accounts
<1>8. ASSUME NEW p \in Procs, NEW change \in Changes, Change(p, change) PROVE Become
  <2>1. job[p].user \in Users
    BY <1>8 DEF Change, Typed, JobHeld, Jobs
  <2>2. \/ account' = account
        \/ /\ account[job[p].user] \in {"end", "agent", "admin"}
           /\ \E k \in {"agent", "end", account[job[p].user], "none"} :
                account' = [account EXCEPT ![job[p].user] = k]
    BY <1>8 DEF Change, Changed, Changes, Set, accounts
  <2> QED
    BY <1>2, <2>1, <2>2, SetBecomes DEF Ordinary, Accounts
<1>9. ASSUME NEW p \in Procs, NEW u \in Users,
             \/ RequestOTP(p, u) \/ SetupInitialize(p, u) \/ CreateOrg(p, u)
             \/ Redeem(p, u) \/ Decide(p, u) \/ LockTarget(p, u)
      PROVE  account' = account
  BY <1>9, Zenon
  DEF RequestOTP, SetupInitialize, CreateOrg, Redeem, Decide, LockTarget, accounts
<1>10. ASSUME NEW p \in Procs, Generate(p) \/ Attempt(p) \/ Reject(p)
       PROVE  account' = account
  BY <1>10, Zenon DEF Generate, Attempt, Reject, accounts
<1>11. ASSUME NEW u \in Users, RequestJoin(u) PROVE account' = account
  BY <1>11 DEF RequestJoin, accounts
<1>12. UNCHANGED vars => account' = account
  BY DEF vars, accounts
<1> QED
  BY <1>2, <1>3, <1>4, <1>5, <1>6, <1>7, <1>8, <1>9, <1>10, <1>11, <1>12, Zenon DEF Next

(* What one step does of organizations.                                    *)
OneOrganizationStep ==
  NotStale' =>
    \A u \in Users : /\ Member(u) => account'[u] # "founder"
                     /\ account[u] = "founder" => ~Member(u)'

(* Every step is one of OneOrganization.                                   *)
LEMMA StepOneOrganization ==
  ASSUME Typed, [Next]_vars
  PROVE  OneOrganizationStep
<1> SUFFICES ASSUME NotStale', NEW u \in Users
             PROVE  /\ Member(u) => account'[u] # "founder"
                    /\ account[u] = "founder" => ~Member(u)'
  BY DEF OneOrganizationStep
<1>1. Become \/ \E v \in Users : Chosen(v)
  BY BecomeNext
<1> QED
  BY <1>1 DEF Become, Chosen, Member, Ordinary, InNone

(* Nobody goes from one organization to another, other than by being       *)
(* deleted, unless a request wrote what it had loaded before.              *)
THEOREM OneOrganizationCorrect == Spec => OneOrganization
<1>1. Typed /\ [Next]_vars => OneOrganizationStep
  BY StepOneOrganization
<1> QED
  BY <1>1, InitTyped, TypedNext, PTL DEF Spec, OneOrganization, OneOrganizationStep, NotStale

-----------------------------------------------------------------------------

(* A change under way holds the lock.                                      *)
Locked == \A p \in Procs : pc[p] = "change" => lock = p

(* While one is, the other admin that it saw is still one.                 *)
SpareLeft ==
  NotStale => \A p \in Procs : pc[p] = "change" /\ job[p].spare => Spare(job[p].user)

(* The instance's admin, or the one that may become it.                    *)
Candidate(u) == account[u] \in {"attempt", "platform"}

(* There is one of them at most.                                           *)
OneCandidate == NotStale => \A u, v \in Users : Candidate(u) /\ Candidate(v) => u = v

(* Every step keeps the lock with the change under way.                    *)
LEMMA LockedNext == Typed /\ Locked /\ [Next]_vars => Locked'
<1> SUFFICES ASSUME Typed, Locked, [Next]_vars PROVE Locked'
  OBVIOUS
<1> USE AccountsAssumption
<1>1. ASSUME NEW p \in Procs, NEW u \in Users, LockTarget(p, u) PROVE Locked'
  <2>1. Goto(p, "change", [NewJob(u) EXCEPT !.spare = Spare(u)]) /\ lock' = p /\ lock = None
    BY <1>1 DEF LockTarget, Begin, Goto, LockFree
  <2>2. \A q \in Procs : pc[q] # "change"
    BY <2>1 DEF Locked
  <2> QED
    BY <2>1, <2>2, Moves DEF Locked, Steps
<1>2. ASSUME NEW p \in Procs, NEW change \in Changes, Change(p, change) PROVE Locked'
  <2>1. lock = p /\ \A q \in Procs \ {p} : pc[q] # "change"
    BY <1>2 DEF Change, Locked
  <2> QED
    BY <1>2, <2>1, Moves DEF Change, Return, Locked, Steps
<1>3. ASSUME lock' = lock, \A p \in Procs : pc'[p] = "change" => pc[p] = "change" PROVE Locked'
  BY <1>3 DEF Locked
<1>4. ASSUME NEW p \in Procs, lock' = lock, NEW s \in Steps \ {"change"}, NEW j, Goto(p, s, j)
      PROVE Locked'
  BY <1>3, <1>4, Moves
<1>5. ASSUME NEW p \in Procs, NEW u \in Users,
             RequestOTP(p, u) \/ SetupInitialize(p, u) \/ CreateOrg(p, u)
               \/ Redeem(p, u) \/ Decide(p, u)
      PROVE  Locked'
  <2>1. lock' = lock /\ \E s \in Steps \ {"change"} : \E j : Goto(p, s, j)
    BY <1>5 DEF RequestOTP, SetupInitialize, CreateOrg, Redeem, Decide, Begin, Goto, Steps
  <2> QED
    BY <1>4, <2>1
<1>6. ASSUME NEW p \in Procs,
             \/ Generate(p) \/ Attempt(p) \/ Setup(p) \/ Found(p) \/ Approve(p) \/ Reject(p)
             \/ \E right \in BOOLEAN : Compare(p, right)
      PROVE  Locked'
  <2>1. lock' = lock /\ \E s \in Steps \ {"change"} : \E j : Goto(p, s, j)
    BY <1>6 DEF Generate, Attempt, Setup, Found, Approve, Reject, Compare, Return, Steps
  <2> QED
    BY <1>4, <2>1
<1>7. ASSUME UNCHANGED <<lock, pc>> PROVE Locked'
  BY <1>3, <1>7
<1> QED
  BY <1>1, <1>2, <1>5, <1>6, <1>7 DEF Next, RequestJoin, Invite, Promote, vars

(* Every step keeps the instance to one candidate.                         *)
LEMMA OneCandidateNext == Typed /\ OneCandidate /\ [Next]_vars => OneCandidate'
<1> SUFFICES ASSUME Typed, OneCandidate, [Next]_vars, NotStale',
                    NEW u \in Users, NEW v \in Users, Candidate(u)', Candidate(v)'
             PROVE  u = v
  BY DEF OneCandidate
<1>1. NotStale
  BY HappenedStays DEF NotStale, Without
<1>2. CASE Become
  BY <1>1, <1>2 DEF Become, OneCandidate, Candidate, Ordinary
<1>3. CASE \E w \in Users : Chosen(w)
  BY <1>3 DEF Chosen, Candidate
<1> QED
  BY <1>2, <1>3, BecomeNext
(* How an admin is taken away: by a decision that saw another admin, or by *)
(* a change that did.                                                      *)
Removes(p, v) ==
  /\ job[p].user = v
  /\ \/ lock = None /\ Spare(v)
     \/ pc[p] = "change" /\ job[p].spare
  /\ \A w \in Users \ {v} : IsAdmin(w) => IsAdmin(w)'

(* Setting an account leaves the other admins.                             *)
LEMMA OthersStay ==
  ASSUME Typed, NEW u \in Users, NEW k, NEW on, Set(u, k, on)
  PROVE  \A w \in Users \ {u} : IsAdmin(w) => IsAdmin(w)'
BY DEF Typed, Set, IsAdmin

(* Nothing else takes an admin away.                                       *)
LEMMA AdminStays ==
  ASSUME Typed, [Next]_vars, NotStale', NEW v \in Users, IsAdmin(v), ~IsAdmin(v)'
  PROVE  \E p \in Procs : Removes(p, v)
<1> USE AccountsAssumption
<1>1. "stale" \notin happened'
  BY DEF NotStale, Without
<1>2. ~UNCHANGED accounts
  BY DEF IsAdmin, accounts
<1>3. account[v] = "admin"
  BY DEF IsAdmin
<1>4. ASSUME NEW u \in Users, NEW k, NEW on, Set(u, k, on) PROVE u = v
  BY <1>4, OthersStay
<1>5. ASSUME NEW p \in Procs, Approve(p) PROVE Removes(p, v)
  <2>1. job[p].user \in Users
    BY <1>5 DEF Approve, Typed, JobHeld, Jobs
  <2>2. Set(job[p].user, "agent", TRUE) /\ lock = None
        /\ ~(IsAdmin(job[p].user) /\ ~Spare(job[p].user))
    BY <1>2, <1>5 DEF Approve, LockFree
  <2>3. job[p].user = v
    BY <1>4, <2>1, <2>2
  <2> QED
    BY <2>1, <2>2, <2>3, OthersStay DEF Removes
<1>6. ASSUME NEW p \in Procs, NEW change \in Changes, Change(p, change) PROVE Removes(p, v)
  <2>1. job[p].user \in Users
    BY <1>6 DEF Change, Typed, JobHeld, Jobs
  <2>2. Changed(job[p].user, change) /\ pc[p] = "change"
        /\ ~(IsAdmin(job[p].user) /\ ~job[p].spare)
    BY <1>2, <1>6 DEF Change
  <2>3. \E k, on : Set(job[p].user, k, on)
    BY <2>2 DEF Changed, Changes
  <2>4. job[p].user = v
    BY <1>4, <2>1, <2>3
  <2> QED
    BY <2>1, <2>2, <2>3, <2>4, OthersStay DEF Removes
<1>7. ASSUME NEW p \in Procs, NEW right \in BOOLEAN PROVE ~Compare(p, right)
  <2> SUFFICES ASSUME Compare(p, right) PROVE FALSE
    OBVIOUS
  <2>1. job[p].user \in Users
    BY DEF Compare, Typed, JobHeld, Jobs
  <2>2. \/ account[job[p].user] = "none" /\ Set(job[p].user, "lonely", TRUE)
        \/ account[job[p].user] = "attempt" /\ Set(job[p].user, "platform", TRUE)
    BY <1>2 DEF Compare, SignUp, LogIn, LogInToAdmin, Verified
  <2> QED
    BY <1>3, <1>4, <2>1, <2>2
<1>8. ASSUME NEW p \in Procs PROVE ~Setup(p)
  <2> SUFFICES ASSUME Setup(p) PROVE FALSE
    OBVIOUS
  <2>1. account'[v] = "admin" /\ active' = active
    BY <1>3 DEF Setup, Attempts, accounts
  <2> QED
    BY <2>1 DEF IsAdmin
<1>9. ASSUME NEW p \in Procs PROVE ~Found(p)
  <2> SUFFICES ASSUME Found(p) PROVE FALSE
    OBVIOUS
  <2>1. job[p].user \in Users
    BY DEF Found, Typed, JobHeld, Jobs
  <2>2. InNone(job[p].user) /\ Set(job[p].user, "founder", active[job[p].user])
    BY <1>1, <1>2 DEF Found, FaultIf, Happen, If
  <2> QED
    BY <1>3, <1>4, <2>1, <2>2 DEF InNone
<1>10. ASSUME NEW u \in Users, NEW role \in {"end", "agent", "admin"}
       PROVE  ~Invite(u, role) /\ ~Promote(u, role)
  BY <1>3, <1>4 DEF Invite, Promote
<1>11. ~UNCHANGED vars
  BY <1>2 DEF vars, accounts
<1>12. ASSUME NEW p \in Procs
       PROVE  /\ ~Generate(p) /\ ~Attempt(p) /\ ~Reject(p)
              /\ \A u \in Users :
                   /\ ~RequestOTP(p, u) /\ ~SetupInitialize(p, u) /\ ~CreateOrg(p, u)
                   /\ ~Redeem(p, u) /\ ~Decide(p, u) /\ ~LockTarget(p, u)
  BY <1>2
  DEF RequestOTP, SetupInitialize, CreateOrg, Redeem, Decide, LockTarget, Generate,
      Attempt, Reject
<1>13. \A u \in Users : ~RequestJoin(u)
  BY <1>2 DEF RequestJoin
<1> QED
  BY <1>5, <1>6, <1>7, <1>8, <1>9, <1>10, <1>11, <1>12, <1>13 DEF Next

(* Nobody else takes away the admin that a change under way counts on.     *)
LEMMA SpareLeftNext ==
  ASSUME Typed, Locked, SpareLeft, [Next]_vars
  PROVE  SpareLeft'
<1> USE AccountsAssumption
<1> SUFFICES ASSUME NotStale', NEW p \in Procs, pc'[p] = "change", job'[p].spare
             PROVE  Spare(job[p].user)'
  BY DEF SpareLeft
<1>1. NotStale
  BY HappenedStays DEF NotStale, Without
<1>2. ASSUME NEW u \in Users, Spare(u), accounts' = accounts PROVE Spare(u)'
  BY <1>2 DEF Spare, IsAdmin, accounts
<1>3. ASSUME pc[p] = "change", job'[p] = job[p] PROVE Spare(job[p].user)'
  <2>1. PICK u \in Users : u = job[p].user
    BY <1>3 DEF Typed, JobHeld, Jobs
  <2>2. PICK v \in Users \ {u} : IsAdmin(v)
    BY <1>1, <1>3, <2>1 DEF SpareLeft, Spare
  <2>3. lock = p
    BY <1>3 DEF Locked
  <2>4. \A q \in Procs : ~Removes(q, v)
    BY <2>1, <2>2, <2>3 DEF Removes, Locked
  <2>5. IsAdmin(v)'
    BY <2>2, <2>4, AdminStays
  <2> QED
    BY <1>3, <2>1, <2>2, <2>5 DEF Spare
<1>4. ASSUME NEW u \in Users, LockTarget(p, u) PROVE Spare(job[p].user)'
  <2>1. Goto(p, "change", [NewJob(u) EXCEPT !.spare = Spare(u)]) /\ accounts' = accounts
    BY <1>4 DEF LockTarget, Begin, Goto
  <2>2. job'[p] = [NewJob(u) EXCEPT !.spare = Spare(u)]
    BY <2>1, Moves DEF Steps
  <2>3. job'[p].user = u /\ job'[p].spare = Spare(u)
    BY <2>2 DEF NewJob
  <2>4. Spare(u)
    BY <2>3, Zenon
  <2>5. Spare(u)'
    BY <1>2, <2>1, <2>4
  <2> QED
    BY <2>3, <2>5
<1>5. CASE pc[p] = "change" /\ job'[p] = job[p]
  BY <1>3, <1>5
<1>6. CASE \E u \in Users : LockTarget(p, u)
  BY <1>4, <1>6
<1>7. ASSUME NEW q \in Procs, NEW s \in Steps \ {"change"}, NEW j, Goto(q, s, j)
      PROVE  pc[p] = "change" /\ job'[p] = job[p]
  BY <1>7, Moves
<1>8. ASSUME NEW q \in Procs, NEW u \in Users,
             RequestOTP(q, u) \/ SetupInitialize(q, u) \/ CreateOrg(q, u)
               \/ Redeem(q, u) \/ Decide(q, u)
      PROVE  Spare(job[p].user)'
  <2>1. \E s \in Steps \ {"change"} : \E j : Goto(q, s, j)
    BY <1>8 DEF RequestOTP, SetupInitialize, CreateOrg, Redeem, Decide, Begin, Goto, Steps
  <2> QED
    BY <1>5, <1>7, <2>1
<1>9. ASSUME NEW q \in Procs,
             \/ Generate(q) \/ Attempt(q) \/ Setup(q) \/ Found(q) \/ Approve(q) \/ Reject(q)
             \/ \E right \in BOOLEAN : Compare(q, right)
             \/ \E change \in Changes : Change(q, change)
      PROVE  Spare(job[p].user)'
  <2>1. \E s \in Steps \ {"change"} : \E j : Goto(q, s, j)
    BY <1>9
    DEF Generate, Attempt, Setup, Found, Approve, Reject, Compare, Change, Return, Steps
  <2> QED
    BY <1>5, <1>7, <2>1
<1>10. ASSUME NEW q \in Procs, q # p, NEW u \in Users, LockTarget(q, u)
       PROVE  Spare(job[p].user)'
  <2>1. \E j : Goto(q, "change", j)
    BY <1>10 DEF LockTarget, Begin, Goto
  <2> QED
    BY <1>5, <1>10, <2>1, Moves DEF Steps
<1>11. ASSUME UNCHANGED <<pc, job>> PROVE Spare(job[p].user)'
  BY <1>5, <1>11
<1> QED
  BY <1>6, <1>8, <1>9, <1>10, <1>11 DEF Next, RequestJoin, Invite, Promote, vars

(* The inductive invariant of Administered.                                *)
StaffInv == Typed /\ Locked /\ SpareLeft /\ OneCandidate

(* What one step does of admins.                                           *)
AdministeredStep ==
  NotStale' =>
    /\ HasAdmin => HasAdmin'
    /\ Cardinality({u \in Users : account'[u] = "platform"}) <= 1

(* The invariant makes every step one of Administered.                     *)
LEMMA StepAdministered ==
  ASSUME StaffInv, StaffInv', [Next]_vars
  PROVE  AdministeredStep
<1> SUFFICES ASSUME NotStale' PROVE /\ HasAdmin => HasAdmin'
                                    /\ Cardinality({u \in Users : account'[u] = "platform"}) <= 1
  BY DEF AdministeredStep
<1>1. NotStale
  BY HappenedStays DEF NotStale, Without
<1>2. ASSUME NEW v \in Users, IsAdmin(v) PROVE HasAdmin'
  <2>1. CASE IsAdmin(v)'
    BY <2>1 DEF HasAdmin
  <2>2. ASSUME NEW p \in Procs, Removes(p, v) PROVE HasAdmin'
    <3>1. Spare(v)
      BY <1>1, <2>2 DEF Removes, StaffInv, SpareLeft
    <3>2. PICK w \in Users \ {v} : IsAdmin(w)
      BY <3>1 DEF Spare
    <3> QED
      BY <2>2, <3>2 DEF Removes, HasAdmin
  <2> QED
    BY <1>2, <2>1, <2>2, AdminStays DEF StaffInv
<1>3. Cardinality({u \in Users : account'[u] = "platform"}) <= 1
  <2> DEFINE S == {u \in Users : account'[u] = "platform"}
  <2>1. \A u, v \in S : u = v
    BY DEF StaffInv, OneCandidate, Candidate
  <2>2. CASE S = {}
    BY <2>2, FS_EmptySet
  <2>3. CASE S # {}
    <3>1. PICK u : S = {u}
      <4>1. PICK u \in S : TRUE
        BY <2>3
      <4>2. S = {u}
        <5> HIDE DEF S
        <5> QED
          BY <2>1, <4>1
      <4> QED
        BY <4>2
    <3> QED
      BY <3>1, FS_Singleton
  <2> QED
    BY <2>2, <2>3
<1> QED
  BY <1>2, <1>3 DEF HasAdmin

(* An organization that has an active admin keeps one, though admins       *)
(* remove each other at the same time (_lock_admins), and the instance     *)
(* gets one admin from its setup, unless a request wrote what it had       *)
(* loaded before.                                                          *)
THEOREM AdministeredCorrect == Spec => Administered
<1>1. Init => StaffInv
  <2> SUFFICES ASSUME Init PROVE StaffInv
    OBVIOUS
  <2>1. pc = [p \in Procs |-> "idle"] /\ account = [u \in Users |-> "none"]
    BY DEF Init
  <2> QED
    BY <2>1, InitTyped DEF StaffInv, Locked, SpareLeft, OneCandidate, Candidate
<1>2. StaffInv /\ [Next]_vars => StaffInv'
  BY TypedNext, LockedNext, SpareLeftNext, OneCandidateNext DEF StaffInv
<1>3. StaffInv /\ StaffInv' /\ [Next]_vars => AdministeredStep
  BY StepAdministered
<1> QED
  BY <1>1, <1>2, <1>3, PTL DEF Spec, Administered, AdministeredStep, NotStale
=============================================================================
