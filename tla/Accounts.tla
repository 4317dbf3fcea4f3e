------------------------------ MODULE Accounts ------------------------------
(***************************************************************************)
(* The staff of one organization: accounts, login codes, requests to join  *)
(* (backend/apps/organizations/views.py, signup_views.py, auth_views.py,   *)
(* models.py).                                                             *)
(*                                                                         *)
(* Somebody signs up with a code mailed to them, and founds an             *)
(* organization of their own, or asks to join the one whose domain their   *)
(* address is on: an administrator approves or rejects it. Administrators  *)
(* invite, promote, demote, deactivate and delete; the last one stays.     *)
(*                                                                         *)
(* The instance itself is set up once, by whoever becomes the platform's   *)
(* admin.                                                                  *)
(*                                                                         *)
(* A user is its address: its change, what the platform's admin does, the  *)
(* settings of an organization and its teams are left out. Requests are    *)
(* under way at the same time, each with what it loaded. A code that       *)
(* expires is one nobody tries any more: older ones expired before.        *)
(***************************************************************************)
EXTENDS Integers, FiniteSets, FiniteSetsExt

CONSTANTS
  Users,        \* addresses
  Procs,        \* requests under way
  MaxCodes,     \* bound on the codes generated
  MaxAttempts,  \* OTP_MAX_ATTEMPTS (5 in the code)
  Faults,       \* what may happen, besides, once: a subset of FaultKinds
  MaxFaults,    \* how many of them, in all
  None

FaultKinds ==
  {"stale",    \* a request writes what changed after it was loaded
   "race"}     \* two codes are generated at once for one address

ASSUME AccountsAssumption ==
  /\ MaxCodes \in Nat /\ MaxAttempts \in Nat \ {0} /\ MaxFaults \in Nat
  /\ Faults \subseteq FaultKinds
  /\ None \notin Procs \cup Users

VARIABLES
  account,   \* of each address: none; "end", an end user of the organization;
             \* "lonely", signed up and in none; its "agent" or "admin";
             \* "founder", of another organization; "attempt", whose setup of
             \* the instance awaits its code, and then "platform"
  active,    \* is_active of the organization's agents and admins
  request,   \* status of the address' request to join
  code,      \* OTPCode: whose, how often tried, used or cancelled
  lock,      \* who holds the rows of the organization's admins
  pc, job,   \* what each request does, and what it loaded
  compared,  \* history: how many submissions were compared with each code
  letIn,     \* history: how many each code let in
  happened   \* the faults that happened

accounts == <<account, active>>
codes == <<code, compared, letIn>>
vars == <<account, active, request, code, lock, pc, job, compared, letIn, happened>>

Codes == 1 .. MaxCodes
Accounts == {"none", "end", "lonely", "agent", "admin", "founder", "attempt", "platform"}
Changes == {"demote", "dismiss", "toggle", "delete"}

Statuses == {"none", "pending", "decided"}

Jobs == [user : Users, code : 0 .. MaxCodes, spare : BOOLEAN, gone : SUBSET Users]

TypeOK ==
  /\ account \in [Users -> Accounts]
  /\ active \in [Users -> BOOLEAN]
  /\ request \in [Users -> Statuses]
  /\ code \in [Codes -> [user : Users \cup {None}, attempts : 0 .. MaxAttempts,
                         used : BOOLEAN]]
  /\ lock \in Procs \cup {None}
  /\ pc \in [Procs -> {"idle", "generate", "attempt", "compare", "setup",
                        "found", "decide", "change"}]
  /\ job \in [Procs -> Jobs \cup {None}]
  /\ compared \in [Codes -> Nat] /\ letIn \in [Codes -> Nat]
  /\ happened \in SUBSET Faults

Init ==
  /\ account = [u \in Users |-> "none"] /\ active = [u \in Users |-> TRUE]
  /\ request = [u \in Users |-> "none"]
  /\ code = [c \in Codes |-> [user |-> None, attempts |-> 0,
                              used |-> FALSE]]
  /\ lock = None
  /\ pc = [p \in Procs |-> "idle"] /\ job = [p \in Procs |-> None]
  /\ compared = [c \in Codes |-> 0] /\ letIn = [c \in Codes |-> 0]
  /\ happened = {}

-----------------------------------------------------------------------------

Happen(kinds) ==
  /\ kinds \subseteq Faults \ happened
  /\ Cardinality(happened \cup kinds) <= MaxFaults
  /\ happened' = happened \cup kinds

If(cond, f) == IF cond THEN {f} ELSE {}
FaultIf(cond, f) == Happen(If(cond, f))

Without(kinds) == happened \cap kinds = {}

NewJob(u) == [user |-> u, code |-> 0, spare |-> FALSE, gone |-> {}]

Begin(p, step, j) ==
  /\ pc[p] = "idle"
  /\ pc' = [pc EXCEPT ![p] = step] /\ job' = [job EXCEPT ![p] = j]

Goto(p, step, j) ==
  pc' = [pc EXCEPT ![p] = step] /\ job' = [job EXCEPT ![p] = j]

Return(p) == Goto(p, "idle", None)

Member(u) == account[u] \in {"agent", "admin"}
Staff(u) == account[u] \notin {"none", "end"}
IsAdmin(u) == account[u] = "admin" /\ active[u]
HasAdmin == \E u \in Users : IsAdmin(u)

Set(u, kind, on) ==
  /\ account' = [account EXCEPT ![u] = kind]
  /\ active' = [active EXCEPT ![u] = on]

(***************************************************************************)
(* Login codes                                                             *)
(***************************************************************************)

Issued == {c \in Codes : code[c].user # None}
CodesOf(u) == {c \in Codes : code[c].user = u}
Newest(S) == Max({0} \cup S)

(* OTPCode.generate: pending codes are cancelled, then one is created, in  *)
(* two statements.                                                         *)
Cancelled(u) ==
  [c \in Codes |-> IF code[c].user = u THEN [code[c] EXCEPT !.used = TRUE] ELSE code[c]]

(* Another code of this address is being made.                             *)
BeingMade(u) == \E q \in Procs : pc[q] = "generate" /\ job[q].user = u

(* A login needs an active account, a signup an address not an end user's. *)
MayAsk(u) == account[u] # "end" /\ active[u]

RequestOTP(p, u) ==
  /\ MayAsk(u) /\ Cardinality(Issued) < MaxCodes
  /\ Begin(p, "generate", NewJob(u))
  /\ code' = Cancelled(u)
  /\ FaultIf(BeingMade(u), "race")
  /\ UNCHANGED <<accounts, request, lock, compared, letIn>>

Generate(p) ==
  /\ pc[p] = "generate"
  /\ Return(p)
  /\ code' = IF Cardinality(Issued) = MaxCodes THEN code
             ELSE [code EXCEPT ![Newest(Issued) + 1].user = job[p].user]
  /\ UNCHANGED <<accounts, request, lock, compared, letIn, happened>>

(* OTPCode.redeem: the newest code that is pending is the one tried.       *)
Redeem(p, u) ==
  LET pending == {c \in CodesOf(u) : ~code[c].used} IN
  /\ pending # {}
  /\ Begin(p, "attempt", [NewJob(u) EXCEPT !.code = Newest(pending)])
  /\ UNCHANGED <<accounts, request, lock, codes, happened>>

(* Mutant of Countable: as long as the code is pending.                    *)
CountablePending(c) == ~code[c].used

(* One conditional update counts the attempt, before anything is compared. *)
Countable(c) == ~code[c].used /\ code[c].attempts < MaxAttempts

Attempt(p) ==
  LET c == job[p].code IN
  /\ pc[p] = "attempt"
  /\ IF Countable(c)
     THEN /\ code' = [code EXCEPT ![c].attempts = @ + 1]
          /\ Goto(p, "compare", job[p])
     ELSE Return(p) /\ UNCHANGED code
  /\ UNCHANGED <<accounts, request, lock, compared, letIn, happened>>

(* Mutant of Consumable: whoever typed it.                                 *)
ConsumableByAll(c) == TRUE

(* Another one consumes it: of those who typed it, the first to.           *)
Consumable(c) == ~code[c].used

(* The address is proved: an attempt to set the instance up has succeeded. *)
Verified(u) == IF account[u] = "attempt" THEN Set(u, "platform", TRUE) ELSE UNCHANGED accounts

LetIn(c) == letIn' = [letIn EXCEPT ![c] = @ + 1]

(* VerifyOTPView: a login needs an account that is active, not a customer's.*)
LogIn(u, c) ==
  IF Staff(u) /\ active[u] THEN LetIn(c) /\ Verified(u) ELSE UNCHANGED <<letIn, accounts>>

(* Django's admin site: as the app, or not, for it takes is_staff besides. *)
LogInToAdmin(u, c) == LogIn(u, c) \/ UNCHANGED <<letIn, accounts>>

(* SignupVerifyOTPView: signing up creates the account, if there is none.  *)
SignUp(u, c) ==
  IF account[u] = "none" THEN LetIn(c) /\ Set(u, "lonely", TRUE) ELSE LogIn(u, c)

(* With the right digits, or with others, be they an older code's.         *)
Compare(p, right) ==
  LET u == job[p].user
      c == job[p].code
      spent == code[c].attempts = MaxAttempts
  IN
  /\ pc[p] = "compare"
  /\ Return(p)
  /\ compared' = [compared EXCEPT ![c] = @ + 1]
  /\ IF right /\ Consumable(c)
     THEN SignUp(u, c) \/ LogIn(u, c) \/ LogInToAdmin(u, c)
     ELSE UNCHANGED <<letIn, accounts>>
  /\ code' = IF right \/ spent THEN [code EXCEPT ![c].used = TRUE] ELSE code
  /\ UNCHANGED <<request, lock, happened>>

(***************************************************************************)
(* Setting the instance up                                                 *)
(***************************************************************************)

Attempts == {u \in Users : account[u] = "attempt"}

(* is_instance_initialized: an attempt isn't anybody yet.                  *)
Initialized == \E u \in Users : Staff(u) /\ u \notin Attempts

(* SetupInitializeView: earlier attempts are deleted, and the codes of the *)
(* address cancelled. What others do until the code is mailed isn't seen.  *)
SetupInitialize(p, u) ==
  /\ ~Initialized
  /\ Begin(p, "setup", [NewJob(u) EXCEPT !.gone = Attempts, !.code = Newest(Issued)])
  /\ UNCHANGED <<accounts, request, codes, lock, happened>>

(* The transaction ends as the code is mailed, or nothing is done: the     *)
(* address is somebody's, or the mail failed.                              *)
Setup(p) ==
  LET u == job[p].user
      gone == job[p].gone \cap Attempts
  IN
  /\ pc[p] = "setup"
  /\ Return(p)
  /\ \/ UNCHANGED <<accounts, code, happened>>
     \/ /\ account[u] = "none" \/ u \in gone
        /\ Cardinality(Issued) < MaxCodes
        /\ account' = [v \in Users |-> IF v = u THEN "attempt"
                         ELSE IF v \in gone THEN "none" ELSE account[v]]
        /\ code' = [c \in Codes |->
             IF c <= job[p].code THEN Cancelled(u)[c]
             ELSE IF c = Newest(Issued) + 1 THEN [code[c] EXCEPT !.user = u] ELSE code[c]]
        /\ Happen(If(Initialized \/ Attempts # gone, "stale")
                  \cup If(BeingMade(u) \/ Newest(CodesOf(u)) > job[p].code, "race"))
        /\ UNCHANGED active
  /\ UNCHANGED <<request, lock, compared, letIn>>

(***************************************************************************)
(* Founding an organization, or joining this one                           *)
(***************************************************************************)

InNone(u) == account[u] \in {"lonely", "platform"}

(* SignupCreateOrgView: the user is in no organization, as authenticated.  *)
CreateOrg(p, u) ==
  /\ InNone(u)
  /\ Begin(p, "found", NewJob(u))
  /\ UNCHANGED <<accounts, request, codes, lock, happened>>

Found(p) ==
  LET u == job[p].user IN
  /\ pc[p] = "found"
  /\ Return(p)
  /\ IF account[u] = "none" THEN UNCHANGED <<accounts, happened>>
     ELSE /\ Set(u, "founder", active[u])
          /\ FaultIf(~InNone(u), "stale")
  /\ UNCHANGED <<request, codes, lock>>

RequestJoin(u) ==
  /\ InNone(u) /\ request[u] = "none"
  /\ request' = [request EXCEPT ![u] = "pending"]
  /\ UNCHANGED <<accounts, codes, lock, pc, job, happened>>

Undecided(u) == request[u] = "pending"

(* An administrator decides a request that was pending when loaded.        *)
Decide(p, u) ==
  /\ Undecided(u)
  /\ Begin(p, "decide", NewJob(u))
  /\ UNCHANGED <<accounts, request, codes, lock, happened>>

(* Mutant of LockFree: the rows aren't locked.                             *)
LockAlwaysFree == TRUE

(* _lock_admins: whoever may take an admin away locks their rows first.    *)
LockFree == lock = None

(* The last admin can't be taken away.                                     *)
Spare(u) == \E v \in Users \ {u} : IsAdmin(v)

(* Mutant of MayJoin: whoever asked is moved.                              *)
AnyoneMayJoin(u) == TRUE

(* Whoever is in another organization by now, or runs the platform, isn't  *)
(* moved.                                                                  *)
MayJoin(u) == account[u] \notin {"founder", "platform", "attempt"}

Approve(p) ==
  LET u == job[p].user IN
  /\ pc[p] = "decide" /\ LockFree
  /\ IF MayJoin(u)
     THEN IF IsAdmin(u) /\ ~Spare(u)
          THEN Return(p) /\ UNCHANGED <<accounts, code, request, happened>>
          ELSE /\ Set(u, "agent", TRUE)
               /\ request' = [request EXCEPT ![u] = "decided"]
               /\ Goto(p, "generate", NewJob(u))
               /\ code' = Cancelled(u)
               /\ Happen(If(~Undecided(u), "stale")
                         \cup If(BeingMade(u), "race"))
     ELSE /\ request' = [request EXCEPT ![u] = "decided"]
          /\ Return(p) /\ UNCHANGED <<accounts, code>>
          /\ FaultIf(~Undecided(u), "stale")
  /\ UNCHANGED <<lock, compared, letIn>>

Reject(p) ==
  LET u == job[p].user IN
  /\ pc[p] = "decide"
  /\ Return(p)
  /\ request' = [request EXCEPT ![u] = "decided"]
  /\ FaultIf(~Undecided(u), "stale")
  /\ UNCHANGED <<accounts, codes, lock>>

(***************************************************************************)
(* Administrators' changes                                                 *)
(***************************************************************************)

(* invite: an address nobody uses. The widget makes end users.             *)
Invite(u, role) ==
  /\ account[u] = "none"
  /\ Set(u, role, TRUE)
  /\ UNCHANGED <<request, codes, lock, pc, job, happened>>

Promote(u, role) ==
  /\ account[u] \in {"end", "agent"} /\ account[u] # role
  /\ Set(u, role, active[u])
  /\ UNCHANGED <<request, codes, lock, pc, job, happened>>

(* _lock_target, then whether another admin is left.                       *)
LockTarget(p, u) ==
  /\ account[u] \in {"end", "agent", "admin"} /\ LockFree
  /\ Begin(p, "change", [NewJob(u) EXCEPT !.spare = Spare(u)])
  /\ lock' = p
  /\ UNCHANGED <<accounts, request, codes, happened>>

Changed(u, change) ==
  CASE change = "demote" -> Set(u, "agent", active[u])
    [] change = "dismiss" -> Set(u, "end", active[u])
    [] change = "toggle" -> Set(u, account[u], ~active[u])
    [] change = "delete" -> Set(u, "none", TRUE)

Change(p, change) ==
  LET u == job[p].user IN
  /\ pc[p] = "change"
  /\ Return(p) /\ lock' = IF lock = p THEN None ELSE lock
  /\ IF (IsAdmin(u) /\ ~job[p].spare) \/ account[u] \notin {"end", "agent", "admin"}
     THEN UNCHANGED accounts
     ELSE Changed(u, change)
  /\ UNCHANGED <<request, codes, happened>>

Next ==
  \/ \E p \in Procs :
       \/ \E u \in Users :
            \/ RequestOTP(p, u) \/ SetupInitialize(p, u) \/ CreateOrg(p, u)
            \/ Redeem(p, u) \/ Decide(p, u) \/ LockTarget(p, u)
       \/ Generate(p) \/ Attempt(p) \/ \E right \in BOOLEAN : Compare(p, right)
       \/ Setup(p) \/ Found(p) \/ Approve(p) \/ Reject(p)
       \/ \E change \in Changes : Change(p, change)
  \/ \E u \in Users :
       \/ RequestJoin(u)
       \/ \E role \in {"end", "agent", "admin"} : Invite(u, role) \/ Promote(u, role)

Spec == Init /\ [][Next]_vars

-----------------------------------------------------------------------------

(* However many submissions run in parallel, no more than MaxAttempts are  *)
(* compared with one code.                                                 *)
GuessesBounded == \A c \in Codes : compared[c] <= MaxAttempts

(* A code lets in once, whoever else typed it at the same time, and only   *)
(* while no newer one was generated for the address. Two generated at once *)
(* would both work, one after the other.                                   *)
LetsInOnce ==
  [][\A c \in Codes : letIn'[c] # letIn[c] =>
       /\ letIn'[c] = 1
       /\ Without({"race"}) => c = Newest(CodesOf(code[c].user))]_vars

(* An organization that has an active admin keeps one, though admins       *)
(* remove each other at the same time. A signup under way since before the *)
(* admin joined could still take it away. The instance gets one admin from *)
(* its setup: who has another attempt's code becomes none, unless the two  *)
(* were made at once.                                                      *)
Administered ==
  [][Without({"stale"})' =>
       /\ HasAdmin => HasAdmin'
       /\ Cardinality({u \in Users : account'[u] = "platform"}) <= 1]_vars

(* One human, one organization: nobody goes from one to another, other     *)
(* than by being deleted: one who founded an organization since asking to  *)
(* join isn't moved. Unless two administrators decide a request at once,   *)
(* or its requester is approved in the middle of founding one.             *)
OneOrganization ==
  [][Without({"stale"})' =>
       \A u \in Users : /\ Member(u) => account'[u] # "founder"
                        /\ account[u] = "founder" => ~Member(u)']_vars

=============================================================================
