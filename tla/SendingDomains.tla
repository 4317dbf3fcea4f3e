--------------------------- MODULE SendingDomains ---------------------------
(***************************************************************************)
(* One mail domain that organizations claim, verify and send from          *)
(* (backend/apps/organizations/services.py, dns_verification.py;           *)
(* email_channel/sending/).                                                *)
(*                                                                         *)
(* An organization has one row of the domain. The row is verified by a TXT *)
(* record, or by an administrator's own address; one row at a time is, and *)
(* verifying it frees the domain elsewhere. Its owner may register it with *)
(* the sending provider, under a lock in the cache that expires. A         *)
(* registration let go of is recorded, to be removed in the background.    *)
(*                                                                         *)
(* The instance may change provider: what the other one registered is      *)
(* dropped when it is met, and its removal waits for that one to be back.  *)
(*                                                                         *)
(* Requests and tasks load a row, ask the DNS or the provider, then write. *)
(* The instance's own domains, webmail domains and the purposes of a row   *)
(* are left out, refusals or settings; so is a provider that registers     *)
(* nothing (manual.py), whose ids are the domains themselves.              *)
(***************************************************************************)
EXTENDS Integers, FiniteSets

CONSTANTS
  Orgs,
  Procs,        \* requests and tasks under way
  Providers,    \* the sending providers the instance may be set up with
  Reusing,      \* those that give a removed registration's id again
  Addressing,   \* whether mailboxes get an address on the domain
  MaxTokens,    \* bound on the verification tokens generated
  MaxRefs,      \* bound on the ids the provider gives
  MaxRecords,   \* bound on the removals recorded
  Faults,       \* what may happen, besides, once: a subset of FaultKinds
  MaxFaults,    \* how many of them, in all
  None

FaultKinds ==
  {"race",     \* a set-up outlasts the domain's lock, or a removal is tried
               \* again while its first try goes on
   "doubt",    \* a registration is stored, and its commit's answer is lost
   "loss",     \* a process is killed, or the provider did what was asked but
               \* its answer is lost, or it restores what was removed
   "switch"}   \* the instance is started again with another provider, or back

ASSUME SendingAssumption ==
  /\ MaxTokens \in Nat /\ MaxRefs \in Nat /\ MaxRecords \in Nat
  /\ MaxFaults \in Nat /\ Faults \subseteq FaultKinds
  /\ None \notin Procs \cup Orgs \cup Providers /\ Providers # {}
  /\ Reusing \subseteq Providers /\ Addressing \in BOOLEAN

VARIABLES
  own,       \* status of each row; "unborn" before it is created, "deleted"
  token,     \* verification_token of each row, 0 when empty
  issued,    \* the last token generated
  txt,       \* the tokens published in the domain's DNS, and left there
  addr,      \* whose mailbox has the public address on it, None's if nobody's
  sending,   \* sending_status of each row
  ref,       \* sending_provider_ref of each row, 0 when empty
  removals,  \* the SendingRemoval records: the registration, when recorded
  recorded,  \* how many were recorded
  configured,  \* the provider in use
  held,      \* the registrations the providers have
  active,    \* those they validated: they don't give them again
  made,      \* the last id given
  by,        \* who gave each: sending_provider, of a row as of a record
  lock,      \* who took the lock
  pc, job,   \* what each process does, and what it loaded
  outdated,  \* history: whose check's answer is of a registration that its
             \* row has let go of, before the answer or since
  happened   \* the faults that happened

ownership == <<own, token, issued, txt, addr>>
rows == <<sending, ref, outdated>>
records == <<removals, recorded>>
provider == <<configured, held, active, made, by>>
vars == <<own, token, issued, txt, addr, sending, ref, removals, recorded,
          configured, held, active, made, by, lock, pc, job, outdated, happened>>

Tokens == 1 .. MaxTokens
Refs == 1 .. MaxRefs
Removals == [id : 1 .. MaxRecords, ref : Refs]
Steps == {"idle", "challenge", "verify", "address", "renew", "replace", "register",
          "store", "doubt", "check", "apply", "remove"}
Results == {"none", "verified", "pending", "failed"}

Jobs == [org : Orgs \cup {None}, tok : 0 .. MaxTokens, ref : 0 .. MaxRefs,
         id : 0 .. MaxRecords, result : Results]

Owns(o) == own[o] = "verified"

(* unique_verified_domain_globally, a constraint of the database.          *)
OneVerified == \A o, q \in Orgs : Owns(o) /\ Owns(q) => o = q

TypeOK ==
  /\ own \in [Orgs -> {"unborn", "pending", "verified", "failed", "deleted"}]
  /\ OneVerified
  /\ token \in [Orgs -> 0 .. MaxTokens] /\ issued \in 0 .. MaxTokens
  /\ txt \in SUBSET Tokens
  /\ addr \in Orgs \cup {None}
  /\ sending \in [Orgs -> {"none", "pending", "verified", "failed"}]
  /\ ref \in [Orgs -> 0 .. MaxRefs]
  /\ removals \in SUBSET Removals /\ recorded \in 0 .. MaxRecords
  /\ held \in SUBSET Refs /\ active \in SUBSET held /\ made \in 0 .. MaxRefs
  /\ configured \in Providers /\ by \in [Refs -> Providers \cup {None}]
  /\ lock \in Procs \cup {None}
  /\ pc \in [Procs -> Steps] /\ job \in [Procs -> Jobs \cup {None}]
  /\ outdated \in SUBSET Procs
  /\ happened \in SUBSET Faults /\ Cardinality(happened) <= MaxFaults

Init ==
  /\ own = [o \in Orgs |-> "unborn"] /\ token = [o \in Orgs |-> 0]
  /\ issued = 0 /\ txt = {} /\ addr = None
  /\ sending = [o \in Orgs |-> "none"] /\ ref = [o \in Orgs |-> 0]
  /\ removals = {} /\ recorded = 0
  /\ configured \in Providers /\ by = [r \in Refs |-> None]
  /\ held = {} /\ active = {} /\ made = 0
  /\ lock = None
  /\ pc = [p \in Procs |-> "idle"] /\ job = [p \in Procs |-> None]
  /\ outdated = {} /\ happened = {}

-----------------------------------------------------------------------------

Fault(f) ==
  /\ f \in Faults \ happened /\ Cardinality(happened) < MaxFaults
  /\ happened' = happened \cup {f}

Without(kinds) == happened \cap kinds = {}

(* f happens if cond holds; without cond, nothing does.                    *)
FaultIf(cond, f) == IF cond THEN Fault(f) ELSE UNCHANGED happened

(* What is loaded of a row, or of a record.                                *)
NewJob(o, t, r, id) ==
  [org |-> o, tok |-> t, ref |-> r, id |-> id, result |-> "none"]

Begin(p, step, j) ==
  /\ pc[p] = "idle"
  /\ pc' = [pc EXCEPT ![p] = step] /\ job' = [job EXCEPT ![p] = j]

Goto(p, step, j) ==
  pc' = [pc EXCEPT ![p] = step] /\ job' = [job EXCEPT ![p] = j]

(* The lock is freed by who took it only, were it another's by then.       *)
Return(p) ==
  /\ Goto(p, "idle", None)
  /\ lock' = IF lock = p THEN None ELSE lock

NewToken(o) ==
  /\ issued < MaxTokens
  /\ issued' = issued + 1
  /\ token' = [token EXCEPT ![o] = issued + 1]

(* record_removal: one record per registration.                            *)
Record(R) ==
  LET new == R \ ({0} \cup {x.ref : x \in removals}) IN
  IF new = {} THEN UNCHANGED records
  ELSE /\ recorded < MaxRecords
       /\ recorded' = recorded + 1
       /\ removals' = removals \cup {[id |-> recorded + 1, ref |-> r] : r \in new}

(* These rows let go of what they had, which the answers there are were of.*)
Outdate(O) ==
  outdated' = outdated \cup {p \in Procs : pc[p] = "apply" /\ job[p].org \in O}

(* forget_registration and _reset: what sending a row had.                 *)
Forget(o) ==
  /\ Record({ref[o]}) /\ Outdate({o})
  /\ sending' = [sending EXCEPT ![o] = "none"]
  /\ ref' = [ref EXCEPT ![o] = 0]

(* provider_switched: registered with another provider than that in use.   *)
Switched(o) == ref[o] # 0 /\ by[ref[o]] # configured

(* sendable_address: decided at each send.                                 *)
Sendable(o) == Owns(o) /\ sending[o] = "verified" /\ ref[o] # 0 /\ ~Switched(o)

(***************************************************************************)
(* Ownership                                                               *)
(***************************************************************************)

(* A row created, or a new token for one that isn't verified: the test and *)
(* the write are two steps.                                                *)
AskToken(p, o) ==
  /\ Begin(p, "challenge", NewJob(o, 0, 0, 0))
  /\ UNCHANGED <<ownership, rows, records, provider, lock, happened>>

Challenge(p, o) == own[o] = "unborn" /\ AskToken(p, o)

RegenerateToken(p, o) == own[o] \in {"pending", "failed"} /\ AskToken(p, o)

SaveToken(p) ==
  LET o == job[p].org IN
  /\ pc[p] = "challenge"
  /\ Return(p)
  /\ IF own[o] = "deleted" THEN UNCHANGED <<own, token, issued>>
     ELSE /\ NewToken(o)
          /\ own' = [own EXCEPT ![o] = "pending"]
  /\ UNCHANGED <<txt, addr, rows, records, provider, happened>>

(* Never taken down: the code then finds less, and does nothing more.      *)
Publish(t) ==
  /\ t \notin txt
  /\ \E o \in Orgs : token[o] = t
  /\ txt' = txt \cup {t}
  /\ UNCHANGED <<own, token, issued, addr, rows, records, provider, lock, pc,
                 job, happened>>

(* on_ownership_verified, in the transaction that verifies o's row. The    *)
(* other rows lose their token: a TXT left published must not win.         *)
FreeTokens(o) == token' = [q \in Orgs |-> IF q = o THEN token[o] ELSE 0]

(* Another organization's mailbox loses its address on the domain.         *)
FreeAddresses(o) == addr' = IF addr = o THEN o ELSE None

(* Mutant of FreeSending: they keep it, it can't be used anyway.           *)
KeepSending(o) == UNCHANGED <<rows, records>>

(* The other rows lose what sending they had.                              *)
FreeSending(o) ==
  /\ Record({ref[q] : q \in Orgs \ {o}}) /\ Outdate(Orgs \ {o})
  /\ sending' = [q \in Orgs |-> IF q = o THEN sending[o] ELSE "none"]
  /\ ref' = [q \in Orgs |-> IF q = o THEN ref[o] ELSE 0]

Verified(o, fallen) ==
  /\ own' = [q \in Orgs |-> IF q = o THEN "verified"
                            ELSE IF q \in fallen THEN "failed" ELSE own[q]]
  /\ FreeTokens(o) /\ FreeAddresses(o) /\ FreeSending(o)
  /\ UNCHANGED <<issued, txt>>

TakenElsewhere(o) == \E q \in Orgs \ {o} : Owns(q)

(* try_admin_email_autoverify, of an organization with an administrator on *)
(* the domain, here or at signup.                                          *)
AutoVerify(o) ==
  /\ own[o] # "deleted"
  /\ ~TakenElsewhere(o)
  /\ Verified(o, {})
  /\ UNCHANGED <<provider, lock, pc, job, happened>>

(* The request chooses how the row it creates is to be verified.           *)
Create(p, o) == Challenge(p, o) \/ AutoVerify(o)

(* verify_domain_dns: a row without a token matches nothing, and an        *)
(* inconclusive lookup is as one that finds nothing.                       *)
Published(o) == token[o] # 0 /\ token[o] \in txt

(* perform_dns_check: the row's token, as loaded, is looked for.           *)
Lookup(p, o) ==
  /\ Published(o)
  /\ Begin(p, "verify", NewJob(o, token[o], 0, 0))
  /\ UNCHANGED <<ownership, rows, records, provider, lock, happened>>

Verify(p, o) == own[o] \in {"pending", "failed"} /\ Lookup(p, o)

(* recheck_dns_pending_domains polls the pending rows.                     *)
RecheckPending(p, o) == own[o] = "pending" /\ Lookup(p, o)

(* apply_dns_verification_success: it was found.                           *)
VerifyByTxt(p) ==
  LET o == job[p].org IN
  /\ pc[p] = "verify"
  /\ Return(p)
  /\ IF own[o] = "deleted" THEN UNCHANGED <<ownership, rows, records>>
     ELSE Verified(o, {q \in Orgs : Owns(q)})
  /\ UNCHANGED <<provider, happened>>

(* pre_delete: the row's registration is recorded in the same transaction. *)
Destroy(o) ==
  /\ own[o] \notin {"unborn", "deleted"}
  /\ own' = [own EXCEPT ![o] = "deleted"]
  /\ token' = [token EXCEPT ![o] = 0]
  /\ Forget(o)
  /\ UNCHANGED <<issued, txt, addr, provider, lock, pc, job, happened>>

(* A mailbox is to get an address on the domain: its organization must     *)
(* have verified it, and nobody have the address. Both are tested, ...     *)
AskAddress(p, o) ==
  /\ Addressing /\ Owns(o) /\ addr = None
  /\ Begin(p, "address", NewJob(o, 0, 0, 0))
  /\ UNCHANGED <<ownership, rows, records, provider, lock, happened>>

(* ... then the mailbox is saved, or refused if it is another's by then.   *)
SaveAddress(p) ==
  /\ pc[p] = "address"
  /\ Return(p)
  /\ addr' = IF addr = None THEN job[p].org ELSE addr
  /\ UNCHANGED <<own, token, issued, txt, rows, records, provider, happened>>

(***************************************************************************)
(* Setting a domain up for sending                                         *)
(***************************************************************************)

(* drop_switched_registration, as a check of the row, or its set-up, meets *)
(* it. Its removal isn't queued: it waits.                                 *)
DropSwitched(o) == Switched(o) /\ Forget(o)

Drop(o) ==
  /\ DropSwitched(o)
  /\ UNCHANGED <<ownership, provider, lock, pc, job, happened>>

(* enable_sending, to the test of the row's status: the row is owned, as   *)
(* loaded under the lock, and gets a token if it has none. A failed row's  *)
(* registration is to be replaced.                                         *)
Enable(p, o) ==
  /\ Owns(o) /\ lock = None
  /\ IF token[o] = 0 THEN NewToken(o) ELSE UNCHANGED <<token, issued>>
  /\ \/ DropSwitched(o) /\ Begin(p, "register", NewJob(o, 0, 0, 0))
     \/ /\ ~Switched(o) /\ sending[o] \in {"none", "failed"}
        /\ Begin(p, IF ref[o] = 0 THEN "register" ELSE "renew", NewJob(o, 0, 0, 0))
        /\ UNCHANGED <<rows, records>>
  /\ lock' = p
  /\ UNCHANGED <<own, txt, addr, provider, happened>>

(* _replace_registration: whatever became of the row meanwhile, but if it  *)
(* was deleted, its registration is let go of, and is to be gone before    *)
(* another is made. Its state stays.                                       *)
Replace(p) ==
  LET o == job[p].org IN
  /\ pc[p] = "renew"
  /\ IF own[o] = "deleted" THEN Return(p) /\ UNCHANGED <<rows, records>>
     ELSE /\ Record({ref[o]}) /\ Outdate({o})
          /\ ref' = [ref EXCEPT ![o] = 0]
          /\ LET mine == {x \in removals' : x.ref = ref[o]} IN
             IF mine = {} THEN Goto(p, "register", job[p])
             ELSE \E x \in mine : Goto(p, "replace", NewJob(o, 0, x.ref, x.id))
          /\ UNCHANGED <<sending, lock>>
  /\ UNCHANGED <<ownership, provider, happened>>

HeldHere == {r \in held : by[r] = configured}

(* What the provider may register the domain as: a new id, unless it has   *)
(* the domain already;                                                     *)
OfferedNew == {r \in Refs : r = made + 1 /\ HeldHere = {}}

(* or, at Mailjet, that of a sender deleted, or not validated yet, but     *)
(* none while it has an active one.                                        *)
OfferedAgain ==
  {r \in 1 .. made : /\ configured \in Reusing /\ by[r] = configured
                     /\ r \notin active /\ HeldHere \subseteq {r}}

(* Mutant of RemovalPending: an earlier registration isn't waited for.     *)
NeverPending == FALSE

(* Refused while a removal is recorded: it could take the new one away. An *)
(* other provider's may wait for good, and takes nothing away here.        *)
RemovalPending == \E x \in removals : by[x.ref] = configured

(* A call of the provider that fails is a SendingProviderError, whatever   *)
(* the failure: it did nothing, ...                                        *)
Refused(p) == Return(p) /\ UNCHANGED happened

(* ... or all it was asked, and its answer never came.                     *)
Unanswered(p) == Return(p) /\ Fault("loss")

Register(p) ==
  /\ pc[p] = "register"
  /\ \/ Refused(p) /\ UNCHANGED provider
     \/ \E r \in OfferedNew \cup OfferedAgain :
          /\ ~RemovalPending
          /\ held' = held \cup {r} /\ made' = IF r > made THEN r ELSE made
          /\ by' = [by EXCEPT ![r] = configured]
          /\ UNCHANGED <<active, configured>>
          /\ \/ /\ Goto(p, "store", [job[p] EXCEPT !.ref = r])
                /\ UNCHANGED <<lock, happened>>
             \/ Unanswered(p)
  /\ UNCHANGED <<ownership, rows, records>>

(* _store_registration: on the row if it still is owned. Recorded else, or *)
(* if it can't be written.                                                 *)
StoreOnRow(o, r) ==
  /\ Record({ref[o]} \ {r}) /\ Outdate(IF ref[o] = r THEN {} ELSE {o})
  /\ sending' = [sending EXCEPT ![o] = "pending"]
  /\ ref' = [ref EXCEPT ![o] = r]

(* Mutant of LetGo: what isn't stored isn't recorded.                      *)
LetGoUnrecorded(r) == UNCHANGED <<rows, records>>

LetGo(r) == Record({r}) /\ UNCHANGED rows

Store(p) ==
  LET o == job[p].org  r == job[p].ref IN
  /\ pc[p] = "store"
  /\ \/ /\ Owns(o)
        /\ StoreOnRow(o, r)
        /\ \/ /\ Goto(p, "check", [job[p] EXCEPT !.tok = token[o]])
              /\ UNCHANGED happened
           \/ Goto(p, "doubt", job[p]) /\ Fault("doubt")
        /\ UNCHANGED lock
     \/ LetGo(r) /\ Return(p) /\ UNCHANGED happened
  /\ UNCHANGED <<ownership, provider>>

(* The write was done, for all the exception says: it is recorded, too.    *)
Undo(p) ==
  /\ pc[p] = "doubt"
  /\ LetGo(job[p].ref) /\ Return(p)
  /\ UNCHANGED <<ownership, provider, happened>>

(***************************************************************************)
(* Checking it                                                             *)
(***************************************************************************)

(* check_now, and check_sending_domains' task: the row as it is loaded.    *)
(* One registered with another provider is dropped instead.                *)
CheckSending(p, o) ==
  /\ Owns(o) /\ sending[o] # "none" /\ ref[o] # 0 /\ ~Switched(o)
  /\ Begin(p, "check", NewJob(o, token[o], ref[o], 0))
  /\ UNCHANGED <<ownership, rows, records, provider, lock, happened>>

(* What the provider says of a registration: one it had and was asked to   *)
(* remove is unknown to it, or is deleted, and never good.                 *)
Answers(r) ==
  IF r \in held THEN {"verified", "pending", "failed"} ELSE {"pending", "failed"}

(* Mutant of Concluded: the provider's answer is enough.                   *)
ConcludedWithoutTxt(answer, t) == answer

(* _with_ownership_check: good only with the organization's own TXT too.   *)
Concluded(answer, t) ==
  IF answer = "verified" /\ (t = 0 \/ t \notin txt) THEN "pending" ELSE answer

(* The provider's own check validates what it has, if only in part. It     *)
(* hears nothing of what became of the row. An inconclusive check changes  *)
(* nothing but when it was made.                                           *)
Ask(p) ==
  LET r == job[p].ref IN
  /\ pc[p] = "check"
  /\ \/ Refused(p) /\ UNCHANGED <<held, active, outdated>>
     \/ \E answer \in Answers(r) :
          /\ Goto(p, "apply", [job[p] EXCEPT !.result = Concluded(answer, job[p].tok)])
          /\ outdated' = IF ref[job[p].org] = r THEN outdated ELSE outdated \cup {p}
          /\ UNCHANGED lock
          /\ active' \in {active} \cup {active \cup ({r} \cap held)}
          /\ answer = "verified" => r \in active'
          /\ \/ UNCHANGED <<held, happened>>
             \/ r \notin held /\ Fault("loss") /\ held' = held \cup {r}
  /\ UNCHANGED <<ownership, sending, ref, records, configured, made, by>>

(* next_sending_status; a pending row fails if its cycle is over.          *)
NextStatus(current, result) ==
  CASE result = "verified" -> {"verified"}
    [] result = "failed" -> {"failed"}
    [] result = "pending" /\ current = "verified" -> {"pending"}
    [] result = "pending" /\ current = "pending" -> {"pending", "failed"}
    [] OTHER -> {current}

(* Mutant of Current: any registration of the row's will do.               *)
CurrentRow(o, r) == Owns(o) /\ sending[o] # "none"

(* The row is still the one the check was asked for.                       *)
Current(o, r) == Owns(o) /\ ref[o] = r /\ sending[o] # "none"

ApplyCheck(p) ==
  LET o == job[p].org IN
  /\ pc[p] = "apply"
  /\ Return(p)
  /\ IF Current(o, job[p].ref)
     THEN \E s \in NextStatus(sending[o], job[p].result) :
            sending' = [sending EXCEPT ![o] = s]
     ELSE UNCHANGED sending
  /\ outdated' = outdated \ {p}
  /\ UNCHANGED <<ownership, ref, records, provider, happened>>

(***************************************************************************)
(* Removing registrations                                                  *)
(***************************************************************************)

(* disable_sending, to its removal of the registration.                    *)
Disable(p, o) ==
  /\ Owns(o) /\ lock = None
  /\ Forget(o)
  /\ LET mine == {x \in removals' : x.ref = ref[o]} IN
     IF mine = {} THEN UNCHANGED <<pc, job, lock>>
     ELSE /\ \E x \in mine : Begin(p, "remove", NewJob(None, 0, x.ref, x.id))
          /\ lock' = p
  /\ UNCHANGED <<ownership, provider, happened>>

InRemoval(x) ==
  \E p \in Procs : pc[p] \in {"replace", "remove"} /\ job[p].id = x.id

(* A removal's task: queued with the record, retried, and queued again by  *)
(* an hourly sweep of the records not tried lately.                        *)
StartRemoval(p, x) ==
  /\ x \in removals
  /\ Begin(p, "remove", NewJob(None, 0, x.ref, x.id))
  /\ FaultIf(InRemoval(x), "race")
  /\ UNCHANGED <<ownership, rows, records, provider, lock>>

(* Mutant of RemoveHeld: what was validated stays so.                      *)
RemoveHeldOnly(p) ==
  held' = held \ {job[p].ref} /\ UNCHANGED <<configured, active, made, by>>

(* run_removal: at the provider, then the record. Another try of the same  *)
(* record may have deleted it meanwhile.                                   *)
RemoveHeld(p) ==
  /\ held' = held \ {job[p].ref} /\ active' = active \ {job[p].ref}
  /\ UNCHANGED <<configured, made, by>>

ForgetRecord(p) ==
  /\ removals' = {x \in removals : x.id # job[p].id}
  /\ UNCHANGED recorded

(* remove_now goes on with a new registration if it replaced one. What     *)
(* another provider made waits: it is refused.                             *)
Remove(p) ==
  /\ pc[p] \in {"replace", "remove"}
  /\ \/ /\ by[job[p].ref] = configured
        /\ RemoveHeld(p) /\ ForgetRecord(p)
        /\ IF pc[p] = "remove" THEN Return(p)
           ELSE Goto(p, "register", [job[p] EXCEPT !.ref = 0, !.id = 0])
                /\ UNCHANGED lock
        /\ UNCHANGED happened
     \/ Refused(p) /\ UNCHANGED <<provider, records>>
     \/ /\ by[job[p].ref] = configured
        /\ Unanswered(p)
        /\ RemoveHeld(p) /\ UNCHANGED records
  /\ UNCHANGED <<ownership, rows>>

(***************************************************************************)
(* What may happen, besides                                                *)
(***************************************************************************)

LockExpires ==
  /\ lock # None /\ Fault("race")
  /\ lock' = None
  /\ UNCHANGED <<ownership, rows, records, provider, pc, job>>

(* SENDING_DOMAIN_PROVIDER: requests end before the instance stops.        *)
SwitchProvider ==
  /\ \A p \in Procs : pc[p] = "idle"
  /\ \E other \in Providers \ {configured} : configured' = other
  /\ \/ "switch" \in happened /\ UNCHANGED happened
     \/ Fault("switch")
  /\ UNCHANGED <<ownership, rows, records, held, active, made, by, lock, pc, job>>

(* A process killed with a registration in hand. Killed elsewhere, it is   *)
(* as if it had been refused. Its lock is waited for.                      *)
Crash(p) ==
  /\ pc[p] \in {"store", "doubt"} /\ Fault("loss")
  /\ Goto(p, "idle", None)
  /\ lock' = IF lock = p THEN None ELSE lock
  /\ UNCHANGED <<ownership, rows, records, provider>>

Next ==
  \/ \E p \in Procs :
       \/ \E o \in Orgs :
            \/ Create(p, o) \/ RegenerateToken(p, o)
            \/ Verify(p, o) \/ RecheckPending(p, o)
            \/ AskAddress(p, o)
            \/ Enable(p, o) \/ CheckSending(p, o) \/ Disable(p, o)
       \/ \E x \in removals : StartRemoval(p, x)
       \/ SaveToken(p) \/ VerifyByTxt(p) \/ SaveAddress(p)
       \/ Replace(p) \/ Register(p) \/ Store(p) \/ Undo(p) \/ Ask(p) \/ ApplyCheck(p) \/ Remove(p)
       \/ Crash(p)
  \/ \E o \in Orgs : AutoVerify(o) \/ Drop(o) \/ Destroy(o)
  \/ \E t \in Tokens : Publish(t)
  \/ LockExpires \/ SwitchProvider

Spec == Init /\ [][Next]_vars

-----------------------------------------------------------------------------

(* Only the domain's owner has anything set up for sending: a transfer, a  *)
(* registration being made and a check being applied never leave another   *)
(* row with a state or a registration.                                     *)
OnlyOwnerRegistered ==
  \A o, q \in Orgs : Owns(o) /\ q # o => sending[q] = "none" /\ ref[q] = 0

(* A registration the provider has is a row's, or recorded for removal, or *)
(* in the hands of who made it: none is left there that nobody knows of.   *)
(* Except what a killed process, or an answer that never came, leaves. And *)
(* that of a row is at the provider, and not about to be removed: an       *)
(* earlier one's removal never takes away a later one. Were a removal      *)
(* tried twice at once, a lock lost, or a commit in doubt, it could.       *)
Registrations ==
  /\ Without({"loss"}) =>
       \A r \in held :
         \/ \E o \in Orgs : ref[o] = r
         \/ \E x \in removals : x.ref = r
         \/ \E p \in Procs : pc[p] = "store" /\ job[p].ref = r
  /\ Without({"race", "doubt"}) =>
       \A o \in Orgs : ref[o] # 0 =>
         ref[o] \in held /\ \A x \in removals : x.ref # ref[o]

(* The process whose check makes o's row good.                             *)
Concludes(p, o) ==
  /\ pc[p] = "apply" /\ pc'[p] = "idle"
  /\ job[p].org = o /\ job[p].ref = ref[o]

BecomesGood(o) == sending[o] # "verified" /\ sending'[o] = "verified"

(* An organization's mail goes out from the domain only once a check found *)
(* the row's own registration good, and the TXT of the token the row had   *)
(* then published: a registration the provider has validated and not taken *)
(* back, but for a removal tried twice, a lock lost or a commit in doubt;  *)
(* and not one let go of since, though the row has one again, but where    *)
(* the provider gives its id to the next one too: the code tells them by   *)
(* their ids, and takes the answer for the next one's.                     *)
SendersProved ==
  [][\A o \in Orgs : BecomesGood(o) =>
       /\ Sendable(o)'
       /\ \E p \in Procs :
            /\ Concludes(p, o)
            /\ job[p].result = "verified" /\ job[p].tok \in txt
            /\ p \in outdated => configured \in Reusing
            /\ p \notin outdated /\ Without({"race", "doubt"}) => ref[o] \in active]_vars

=============================================================================
