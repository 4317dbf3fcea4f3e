----------------------- MODULE SendingDomains_proofs -----------------------
(***************************************************************************)
(* Proofs about one mail domain, for any organizations, requests, faults   *)
(* and providers: the types, one verified row among them; that only the    *)
(* owner has anything set up for sending; that no registration is left at  *)
(* a provider that nobody knows of, nor taken from the row that has it;    *)
(* and that mail goes out from a registration proved good, with the TXT.   *)
(***************************************************************************)
EXTENDS SendingDomains, FiniteSetTheorems, TLAPS

(* What a request or task has loaded at step s: its row, but when it       *)
(* removes what may be nobody's; the token it looks for; the registration  *)
(* it works on.                                                            *)
JobFor(s, j) ==
  /\ j \in Jobs
  /\ s # "remove" => j.org \in Orgs
  /\ s = "verify" => j.tok # 0
  /\ s \in {"replace", "remove", "store", "doubt", "check", "apply"} => j.ref # 0

(* A process under way has loaded what its step works on.                  *)
JobHeld == \A p \in Procs : pc[p] # "idle" => JobFor(pc[p], job[p])

(* The types, of each part of the state.                                   *)
OwnershipTyped ==
  /\ own \in [Orgs -> {"unborn", "pending", "verified", "failed", "deleted"}]
  /\ token \in [Orgs -> 0 .. MaxTokens] /\ issued \in 0 .. MaxTokens
  /\ txt \in SUBSET Tokens
  /\ addr \in Orgs \cup {None}
  /\ OneVerified

SendingTyped ==
  /\ sending \in [Orgs -> {"none", "pending", "verified", "failed"}]
  /\ ref \in [Orgs -> 0 .. MaxRefs]
  /\ removals \in SUBSET Removals /\ recorded \in 0 .. MaxRecords

ProviderTyped ==
  /\ configured \in Providers /\ by \in [Refs -> Providers \cup {None}]
  /\ held \in SUBSET Refs /\ active \in SUBSET held /\ made \in 0 .. MaxRefs

ProcsTyped ==
  /\ lock \in Procs \cup {None}
  /\ pc \in [Procs -> Steps] /\ job \in [Procs -> Jobs \cup {None}]
  /\ JobHeld

OutdatedTyped == outdated \in SUBSET Procs /\ \A p \in outdated : pc[p] = "apply"

FaultsTyped ==
  /\ happened \in SUBSET Faults
  /\ IsFiniteSet(happened) /\ Cardinality(happened) <= MaxFaults

(* The types, with what the processes have loaded.                         *)
Typed ==
  /\ OwnershipTyped /\ SendingTyped /\ ProviderTyped
  /\ ProcsTyped /\ OutdatedTyped /\ FaultsTyped

(* The types hold at first.                                                *)
LEMMA InitTyped == Init => Typed
<1> SUFFICES ASSUME Init PROVE Typed
  OBVIOUS
<1> USE SendingAssumption
<1>1. OwnershipTyped
  BY DEF Init, OwnershipTyped, OneVerified, Owns
<1>2. SendingTyped /\ ProviderTyped
  BY DEF Init, SendingTyped, ProviderTyped
<1>3. ProcsTyped /\ OutdatedTyped
  BY DEF Init, ProcsTyped, OutdatedTyped, JobHeld, Steps
<1>4. FaultsTyped
  BY FS_EmptySet DEF Init, FaultsTyped
<1> QED
  BY <1>1, <1>2, <1>3, <1>4 DEF Typed

(* A fault is one more, within their bound.                                *)
LEMMA FaultCounted ==
  ASSUME FaultsTyped, NEW f, Fault(f) \/ UNCHANGED happened
  PROVE  FaultsTyped' /\ happened \subseteq happened'
<1>1. CASE Fault(f)
  <2>1. happened' = happened \cup {f} /\ f \notin happened /\ f \in Faults
    BY <1>1 DEF Fault
  <2>2. IsFiniteSet(happened') /\ Cardinality(happened') = Cardinality(happened) + 1
    BY <2>1, FS_AddElement DEF FaultsTyped
  <2>3. Cardinality(happened) \in Nat /\ Cardinality(happened) < MaxFaults
    BY <1>1, FS_CardinalityType DEF FaultsTyped, Fault
  <2> QED
    BY <2>1, <2>2, <2>3, SendingAssumption DEF FaultsTyped
<1>2. CASE UNCHANGED happened
  BY <1>2 DEF FaultsTyped
<1> QED
  BY <1>1, <1>2

(* Faults that happened stay so, and keep their bound.                     *)
LEMMA Happens ==
  ASSUME FaultsTyped, [Next]_vars
  PROVE  FaultsTyped' /\ happened \subseteq happened'
<1>1. UNCHANGED happened \/ \E f : Fault(f)
  <2>1. ASSUME NEW p \in Procs, NEW o \in Orgs, 
               \/ Create(p, o) \/ RegenerateToken(p, o)
               \/ Verify(p, o) \/ RecheckPending(p, o) \/ AskAddress(p, o)
        PROVE  UNCHANGED happened
    BY <2>1
    DEF Create, Challenge, AutoVerify, RegenerateToken, AskToken, Verify, RecheckPending, Lookup,
        AskAddress
  <2>2. ASSUME NEW p \in Procs, NEW o \in Orgs,
               Enable(p, o) \/ CheckSending(p, o) \/ Disable(p, o)
        PROVE  UNCHANGED happened
    BY <2>2 DEF Enable, CheckSending, Disable
  <2>3. ASSUME NEW p \in Procs, \/ SaveToken(p) \/ VerifyByTxt(p) \/ SaveAddress(p)
                                \/ Replace(p) \/ Register(p) \/ Store(p) \/ Undo(p)
                                \/ \E x \in removals : StartRemoval(p, x)
        PROVE  UNCHANGED happened \/ \E f : Fault(f)
    BY <2>3, Zenon
    DEF SaveToken, VerifyByTxt, SaveAddress, Replace, Register, Store, Undo, FaultIf, Refused,
        Unanswered, StartRemoval
  <2>4. ASSUME NEW p \in Procs, Ask(p) \/ ApplyCheck(p) \/ Remove(p) \/ Crash(p)
        PROVE  UNCHANGED happened \/ \E f : Fault(f)
    BY <2>4, Zenon DEF Ask, ApplyCheck, Remove, Crash, Refused, Unanswered
  <2>5. ASSUME NEW o \in Orgs, AutoVerify(o) \/ Drop(o) \/ Destroy(o)
        PROVE  UNCHANGED happened \/ \E f : Fault(f)
    BY <2>5, Zenon DEF AutoVerify, Drop, Destroy
  <2>6. ASSUME NEW t \in Tokens, Publish(t)
        PROVE  UNCHANGED happened
    BY <2>6 DEF Publish
  <2>7. CASE LockExpires \/ SwitchProvider
    BY <2>7, Zenon DEF LockExpires, SwitchProvider
  <2>8. CASE UNCHANGED vars
    BY <2>8 DEF vars
  <2> QED
    BY <2>1, <2>2, <2>3, <2>4, <2>5, <2>6, <2>7, <2>8, Zenon DEF Next
<1> QED
  BY <1>1, FaultCounted, Zenon

(* Verified leaves one owner, if those that fall were all the others.      *)
LEMMA VerifiedOne ==
  ASSUME OwnershipTyped, NEW o \in Orgs, NEW fallen,
         Verified(o, fallen), \A q \in Orgs \ {o} : Owns(q) => q \in fallen
  PROVE  OwnershipTyped' /\ own'[o] = "verified" /\ \A q \in Orgs \ {o} : own'[q] # "verified"
<1>1. /\ own' \in [Orgs -> {"unborn", "pending", "verified", "failed", "deleted"}]
      /\ own'[o] = "verified" /\ \A q \in Orgs \ {o} : own'[q] # "verified"
  BY DEF Verified, Owns, OwnershipTyped
<1>2. token' \in [Orgs -> 0 .. MaxTokens] /\ issued' = issued /\ txt' = txt
  BY SendingAssumption DEF Verified, FreeTokens, OwnershipTyped
<1>3. addr' \in Orgs \cup {None}
  BY DEF Verified, FreeAddresses
<1> QED
  BY <1>1, <1>2, <1>3 DEF OwnershipTyped, OneVerified, Owns

(* A new token is one more than those there were.                          *)
LEMMA NewTokenTyped ==
  ASSUME OwnershipTyped, NEW o \in Orgs, NewToken(o)
  PROVE  /\ token' \in [Orgs -> 0 .. MaxTokens] /\ issued' \in 0 .. MaxTokens
         /\ issued' = issued + 1 /\ token'[o] = issued + 1
         /\ \A q \in Orgs \ {o} : token'[q] = token[q]
BY SendingAssumption DEF NewToken, OwnershipTyped

(* The steps that may change who owns the domain, tokens and the address.  *)
OwnershipSteps ==
  \/ UNCHANGED ownership
  \/ \E o \in Orgs : AutoVerify(o) \/ Destroy(o)
  \/ \E p \in Procs : \/ SaveToken(p) \/ VerifyByTxt(p) \/ SaveAddress(p)
                      \/ \E o \in Orgs : Enable(p, o)
  \/ \E t \in Tokens : Publish(t)

(* No other step does.                                                     *)
LEMMA OwnershipMoves == [Next]_vars => OwnershipSteps
<1> SUFFICES ASSUME [Next]_vars PROVE OwnershipSteps
  OBVIOUS
<1>1. ASSUME NEW p \in Procs, NEW o \in Orgs,
             Challenge(p, o) \/ RegenerateToken(p, o) \/ Verify(p, o) \/ RecheckPending(p, o)
      PROVE  UNCHANGED ownership
  BY <1>1 DEF Challenge, RegenerateToken, AskToken, Verify, RecheckPending, Lookup
<1>2. ASSUME NEW p \in Procs, NEW o \in Orgs,
             CheckSending(p, o) \/ Disable(p, o) \/ AskAddress(p, o)
      PROVE  UNCHANGED ownership
  BY <1>2 DEF CheckSending, Disable, AskAddress
<1>3. ASSUME NEW p \in Procs, \/ Replace(p) \/ Register(p) \/ Store(p) \/ Undo(p)
                              \/ \E x \in removals : StartRemoval(p, x)
      PROVE  UNCHANGED ownership
  BY <1>3 DEF Replace, Register, Store, Undo, StartRemoval
<1>4. ASSUME NEW p \in Procs, Ask(p) \/ ApplyCheck(p) \/ Remove(p) \/ Crash(p)
      PROVE  UNCHANGED ownership
  BY <1>4 DEF Ask, ApplyCheck, Remove, Crash
<1>5. ASSUME NEW o \in Orgs, Drop(o)
      PROVE  UNCHANGED ownership
  BY <1>5 DEF Drop
<1>6. LockExpires \/ SwitchProvider => UNCHANGED ownership
  BY DEF LockExpires, SwitchProvider
<1>7. UNCHANGED vars => UNCHANGED ownership
  BY DEF vars, ownership
<1> QED
  BY <1>1, <1>2, <1>3, <1>4, <1>5, <1>6, <1>7, Zenon DEF Next, Create, OwnershipSteps

(* Every step keeps the types of ownership, and that one row is verified.  *)
LEMMA OwnershipNext == Typed /\ [Next]_vars => OwnershipTyped'
<1> SUFFICES ASSUME Typed, [Next]_vars PROVE OwnershipTyped'
  OBVIOUS
<1> USE SendingAssumption
<1> USE DEF Typed
<1>1. CASE UNCHANGED ownership
  BY <1>1 DEF ownership, OwnershipTyped, OneVerified, Owns
<1>2. ASSUME NEW o \in Orgs, AutoVerify(o) PROVE OwnershipTyped'
  BY <1>2, VerifiedOne DEF AutoVerify, TakenElsewhere
<1>3. ASSUME NEW o \in Orgs, Destroy(o) PROVE OwnershipTyped'
  <2>1. own' = [own EXCEPT ![o] = "deleted"] /\ token' = [token EXCEPT ![o] = 0]
        /\ UNCHANGED <<issued, txt, addr>>
    BY <1>3 DEF Destroy
  <2> QED
    BY <2>1 DEF OwnershipTyped, OneVerified, Owns
<1>4. ASSUME NEW p \in Procs, SaveAddress(p) PROVE OwnershipTyped'
  <2>1. job[p].org \in Orgs
    BY <1>4 DEF SaveAddress, ProcsTyped, JobHeld, JobFor
  <2> QED
    BY <1>4, <2>1 DEF SaveAddress, OwnershipTyped, OneVerified, Owns
<1>5. ASSUME NEW p \in Procs, SaveToken(p) PROVE OwnershipTyped'
  <2>1. job[p].org \in Orgs
    BY <1>5 DEF SaveToken, ProcsTyped, JobHeld, JobFor
  <2>2. CASE UNCHANGED <<own, token, issued>>
    BY <1>5, <2>2 DEF SaveToken, OwnershipTyped, OneVerified, Owns
  <2>3. CASE NewToken(job[p].org) /\ own' = [own EXCEPT ![job[p].org] = "pending"]
    <3>1. token' \in [Orgs -> 0 .. MaxTokens] /\ issued' \in 0 .. MaxTokens
      BY <2>1, <2>3, NewTokenTyped
    <3>2. UNCHANGED <<txt, addr>>
      BY <1>5 DEF SaveToken
    <3> QED
      BY <2>1, <2>3, <3>1, <3>2 DEF OwnershipTyped, OneVerified, Owns
  <2> QED
    BY <1>5, <2>2, <2>3 DEF SaveToken
<1>6. ASSUME NEW p \in Procs, VerifyByTxt(p) PROVE OwnershipTyped'
  <2>1. job[p].org \in Orgs
    BY <1>6 DEF VerifyByTxt, ProcsTyped, JobHeld, JobFor
  <2>2. CASE UNCHANGED ownership
    BY <2>2, <1>1
  <2>3. CASE Verified(job[p].org, {q \in Orgs : Owns(q)})
    BY <2>1, <2>3, VerifiedOne
  <2> QED
    BY <1>6, <2>2, <2>3 DEF VerifyByTxt
<1>7. ASSUME NEW p \in Procs, NEW o \in Orgs, Enable(p, o) PROVE OwnershipTyped'
  <2>1. NewToken(o) \/ UNCHANGED <<token, issued>>
    BY <1>7 DEF Enable
  <2>2. token' \in [Orgs -> 0 .. MaxTokens] /\ issued' \in 0 .. MaxTokens
    BY <2>1, NewTokenTyped DEF OwnershipTyped
  <2>3. UNCHANGED <<own, txt, addr>>
    BY <1>7 DEF Enable
  <2> QED
    BY <2>2, <2>3 DEF OwnershipTyped, OneVerified, Owns
<1>8. ASSUME NEW t \in Tokens, Publish(t) PROVE OwnershipTyped'
  BY <1>8 DEF Publish, OwnershipTyped, OneVerified, Owns
<1> QED
  BY <1>1, <1>2, <1>3, <1>4, <1>5, <1>6, <1>7, <1>8, OwnershipMoves DEF OwnershipSteps

(* Record adds a record, of a new id, of each registration that had none.  *)
LEMMA RecordIs ==
  ASSUME SendingTyped, NEW R \in SUBSET (0 .. MaxRefs), Record(R)
  PROVE  /\ removals' \in SUBSET Removals /\ recorded' \in 0 .. MaxRecords
         /\ removals \subseteq removals' /\ recorded <= recorded'
         /\ \A r \in R \ {0} : \E x \in removals' : x.ref = r
         /\ \A x \in removals' \ removals :
              /\ x.id = recorded' /\ recorded' = recorded + 1
              /\ x.ref \in R \ {0} /\ \A y \in removals : y.ref # x.ref
<1> USE SendingAssumption
<1> DEFINE new == R \ ({0} \cup {x.ref : x \in removals})
<1>1. CASE new = {}
  <2>1. UNCHANGED records
    BY <1>1 DEF Record
  <2> QED
    BY <1>1, <2>1 DEF records, SendingTyped
<1>2. CASE new # {}
  <2>1. /\ recorded < MaxRecords /\ recorded' = recorded + 1
        /\ removals' = removals \cup {[id |-> recorded + 1, ref |-> r] : r \in new}
    BY <1>2 DEF Record
  <2>2. ASSUME NEW r \in new PROVE r \in Refs
    BY DEF Refs
  <2>3. recorded' \in 1 .. MaxRecords
    BY <2>1 DEF SendingTyped
  <2>4. removals' \in SUBSET Removals
    BY <2>1, <2>2, <2>3 DEF SendingTyped, Removals
  <2>5. ASSUME NEW r \in R \ {0} PROVE \E x \in removals' : x.ref = r
    <3>1. CASE r \in new
      <4>1. [id |-> recorded + 1, ref |-> r] \in removals'
        BY <2>1, <3>1
      <4> QED
        BY <4>1
    <3>2. CASE r \notin new
      BY <2>1, <3>2
    <3> QED
      BY <3>1, <3>2
  <2> QED
    BY <2>1, <2>3, <2>4, <2>5 DEF SendingTyped
<1> QED
  BY <1>1, <1>2

(* Some rows' registrations are let go of, and recorded, and the answers    *)
(* there are of those rows' outdated.                                      *)
Releases ==
  \E O \in SUBSET Orgs : /\ Record({ref[q] : q \in O}) /\ Outdate(O)
                         /\ ref' = [q \in Orgs |-> IF q \in O THEN 0 ELSE ref[q]]

(* No row's state of sending gets better than none.                        *)
Lessens ==
  /\ sending' \in [Orgs -> {"none", "pending", "verified", "failed"}]
  /\ \A q \in Orgs : sending'[q] = sending[q] \/ sending'[q] = "none"

(* Letting go of nothing.                                                  *)
LEMMA ReleasesNone ==
  ASSUME SendingTyped, UNCHANGED <<ref, records, outdated>>
  PROVE  Releases
<1>1. Record({}) /\ Outdate({})
  BY DEF Record, records, Outdate
<1>2. {ref[q] : q \in {}} = {}
  OBVIOUS
<1>3. ref' = [q \in Orgs |-> IF q \in {} THEN 0 ELSE ref[q]]
  BY DEF SendingTyped
<1> QED
  BY <1>1, <1>2, <1>3, Zenon DEF Releases

(* Letting go of one row's.                                                *)
LEMMA ReleasesOne ==
  ASSUME SendingTyped, NEW o \in Orgs, Record({ref[o]}), Outdate({o}),
         ref' = [ref EXCEPT ![o] = 0]
  PROVE  Releases
<1>1. {ref[q] : q \in {o}} = {ref[o]}
  OBVIOUS
<1>2. ref' = [q \in Orgs |-> IF q \in {o} THEN 0 ELSE ref[q]]
  BY DEF SendingTyped
<1> QED
  BY <1>1, <1>2, Zenon DEF Releases

(* Forget lets go of a row's.                                              *)
LEMMA ForgetReleases ==
  ASSUME SendingTyped, NEW o \in Orgs, Forget(o)
  PROVE  Releases /\ Lessens
BY ReleasesOne DEF Forget, Lessens, SendingTyped

(* Verified lets go of the other rows'.                                    *)
LEMMA VerifiedReleases ==
  ASSUME SendingTyped, NEW o \in Orgs, NEW fallen, Verified(o, fallen)
  PROVE  Releases /\ Lessens /\ \A q \in Orgs \ {o} : sending'[q] = "none" /\ ref'[q] = 0
<1>1. /\ Record({ref[q] : q \in Orgs \ {o}}) /\ Outdate(Orgs \ {o})
      /\ sending' = [q \in Orgs |-> IF q = o THEN sending[o] ELSE "none"]
      /\ ref' = [q \in Orgs |-> IF q = o THEN ref[o] ELSE 0]
  BY DEF Verified, FreeSending
<1>2. ref' = [q \in Orgs |-> IF q \in Orgs \ {o} THEN 0 ELSE ref[q]]
  BY <1>1
<1> QED
  BY <1>1, <1>2 DEF Releases, Lessens, SendingTyped

(* What a step does to rows and records.                                   *)
RegistrationSteps ==
  \/ Releases /\ Lessens
  \/ \E p \in Procs : Store(p) \/ Undo(p) \/ Ask(p) \/ ApplyCheck(p) \/ Remove(p)

(* Every step does one of these.                                           *)
LEMMA RegistrationMoves == Typed /\ [Next]_vars => RegistrationSteps
<1> SUFFICES ASSUME Typed, [Next]_vars PROVE RegistrationSteps
  OBVIOUS
<1> USE DEF Typed
<1>1. UNCHANGED <<rows, records>> => Releases /\ Lessens
  BY ReleasesNone DEF rows, Lessens, SendingTyped
<1>2. ASSUME NEW p \in Procs, NEW o \in Orgs,
             Challenge(p, o) \/ RegenerateToken(p, o) \/ Verify(p, o) \/ RecheckPending(p, o)
      PROVE  UNCHANGED <<rows, records>>
  BY <1>2 DEF Challenge, RegenerateToken, AskToken, Verify, RecheckPending, Lookup
<1>3. ASSUME NEW p \in Procs, NEW o \in Orgs, CheckSending(p, o) \/ AskAddress(p, o)
      PROVE  UNCHANGED <<rows, records>>
  BY <1>3 DEF CheckSending, AskAddress
<1>4. ASSUME NEW p \in Procs, \/ Register(p) \/ SaveToken(p) \/ SaveAddress(p) \/ Crash(p)
                               \/ \E x \in removals : StartRemoval(p, x)
      PROVE  UNCHANGED <<rows, records>>
  BY <1>4 DEF Register, SaveToken, SaveAddress, Crash, StartRemoval
<1>5. ASSUME NEW p \in Procs, Replace(p) PROVE Releases /\ Lessens
  <2>1. job[p].org \in Orgs
    BY <1>5 DEF Replace, ProcsTyped, JobHeld, JobFor
  <2>2. \/ UNCHANGED <<rows, records>>
        \/ /\ Record({ref[job[p].org]}) /\ Outdate({job[p].org})
           /\ ref' = [ref EXCEPT ![job[p].org] = 0] /\ UNCHANGED sending
    BY <1>5 DEF Replace
  <2> QED
    BY <1>1, <2>1, <2>2, ReleasesOne DEF Lessens, SendingTyped
<1>6. LockExpires \/ SwitchProvider => UNCHANGED <<rows, records>>
  BY DEF LockExpires, SwitchProvider
<1>7. ASSUME NEW t \in Tokens, Publish(t) PROVE UNCHANGED <<rows, records>>
  BY <1>7 DEF Publish
<1>8. UNCHANGED vars => UNCHANGED <<rows, records>>
  BY DEF vars, rows, records
<1>9. ASSUME NEW o \in Orgs, AutoVerify(o) PROVE Releases /\ Lessens
  BY <1>9, VerifiedReleases DEF AutoVerify
<1>10. ASSUME NEW o \in Orgs, Drop(o) \/ Destroy(o) PROVE Releases /\ Lessens
  BY <1>10, ForgetReleases DEF Drop, DropSwitched, Destroy
<1>11. ASSUME NEW p \in Procs, VerifyByTxt(p) PROVE Releases /\ Lessens
  <2>1. job[p].org \in Orgs
    BY <1>11 DEF VerifyByTxt, ProcsTyped, JobHeld, JobFor
  <2> QED
    BY <1>1, <1>11, <2>1, VerifiedReleases DEF VerifyByTxt
<1>12. ASSUME NEW p \in Procs, NEW o \in Orgs, Disable(p, o) PROVE Releases /\ Lessens
  BY <1>12, ForgetReleases DEF Disable
<1>13. ASSUME NEW p \in Procs, NEW o \in Orgs, Enable(p, o) PROVE Releases /\ Lessens
  <2>1. CASE DropSwitched(o)
    BY <2>1, ForgetReleases DEF DropSwitched
  <2> QED
    BY <1>1, <1>13, <2>1 DEF Enable
<1> QED
  BY <1>1, <1>2, <1>3, <1>4, <1>5, <1>6, <1>7, <1>8, <1>9, <1>10, <1>11, <1>12, <1>13, Zenon
  DEF Next, Create, RegistrationSteps

(* What Releases does, row by row and record by record.                    *)
LEMMA ReleasedRefs ==
  ASSUME SendingTyped, Releases
  PROVE  /\ ref' \in [Orgs -> 0 .. MaxRefs]
         /\ removals' \in SUBSET Removals /\ recorded' \in 0 .. MaxRecords
         /\ \A q \in Orgs : ref'[q] = ref[q] \/ ref'[q] = 0
         /\ removals \subseteq removals' /\ recorded <= recorded'
         /\ \A q \in Orgs : ref[q] # 0 /\ ref'[q] = 0 => \E x \in removals' : x.ref = ref[q]
         /\ \A x \in removals' \ removals :
              /\ x.id = recorded' /\ recorded' = recorded + 1 /\ \A y \in removals : y.ref # x.ref
              /\ \E q \in Orgs : ref[q] = x.ref /\ ref[q] # 0 /\ ref'[q] = 0
<1>1. PICK O \in SUBSET Orgs : /\ Record({ref[q] : q \in O})
                              /\ ref' = [q \in Orgs |-> IF q \in O THEN 0 ELSE ref[q]]
  BY DEF Releases
<1> DEFINE R == {ref[q] : q \in O}
<1>2. R \in SUBSET (0 .. MaxRefs) /\ Record(R)
  BY <1>1 DEF SendingTyped
<1>3. /\ removals' \in SUBSET Removals /\ recorded' \in 0 .. MaxRecords
      /\ removals \subseteq removals' /\ recorded <= recorded'
      /\ \A r \in R \ {0} : \E x \in removals' : x.ref = r
      /\ \A x \in removals' \ removals :
           /\ x.id = recorded' /\ recorded' = recorded + 1
           /\ x.ref \in R \ {0} /\ \A y \in removals : y.ref # x.ref
  <2> HIDE DEF R
  <2> QED
    BY <1>2, RecordIs
<1>4. ref' \in [Orgs -> 0 .. MaxRefs] /\ \A q \in Orgs : ref'[q] = ref[q] \/ ref'[q] = 0
  BY <1>1, SendingAssumption DEF SendingTyped
<1>5. \A q \in Orgs : ref[q] # 0 /\ ref'[q] = 0 => ref[q] \in R \ {0}
  BY <1>1
<1>6. \A r \in R \ {0} : \E q \in Orgs : ref[q] = r /\ ref[q] # 0 /\ ref'[q] = 0
  BY <1>1
<1> QED
  <2> HIDE DEF R
  <2> QED
    BY <1>3, <1>4, <1>5, <1>6

(* Store stores on the row of its owner, or lets go.                       *)
LEMMA StoreIs ==
  ASSUME Typed, NEW p \in Procs, Store(p)
  PROVE  /\ job[p].org \in Orgs /\ job[p].ref \in Refs
         /\ \/ /\ Owns(job[p].org)
               /\ StoreOnRow(job[p].org, job[p].ref)
            \/ LetGo(job[p].ref)
         /\ SendingTyped' /\ UNCHANGED provider
<1>1. job[p].org \in Orgs /\ job[p].ref \in Refs
  BY SendingAssumption DEF Store, Typed, ProcsTyped, JobHeld, JobFor, Jobs, Refs
<1>2. \/ /\ Owns(job[p].org)
         /\ StoreOnRow(job[p].org, job[p].ref)
      \/ LetGo(job[p].ref)
  BY DEF Store
<1>3. UNCHANGED provider
  BY DEF Store
<1>4. CASE StoreOnRow(job[p].org, job[p].ref)
  <2>1. removals' \in SUBSET Removals /\ recorded' \in 0 .. MaxRecords
    <3> DEFINE R == {ref[job[p].org]} \ {job[p].ref}
    <3>1. R \in SUBSET (0 .. MaxRefs) /\ Record(R)
      BY <1>1, <1>4 DEF StoreOnRow, Typed, SendingTyped
    <3> HIDE DEF R
    <3> QED
      BY <3>1, RecordIs DEF Typed
  <2>2. /\ sending' = [sending EXCEPT ![job[p].org] = "pending"]
        /\ ref' = [ref EXCEPT ![job[p].org] = job[p].ref]
    BY <1>4 DEF StoreOnRow
  <2> QED
    BY <1>1, <1>2, <1>3, <2>1, <2>2 DEF Typed, SendingTyped, Refs
<1>5. CASE LetGo(job[p].ref)
  <2>1. {job[p].ref} \in SUBSET (0 .. MaxRefs) /\ Record({job[p].ref})
    BY <1>1, <1>5, SendingAssumption DEF LetGo, Refs
  <2>2. removals' \in SUBSET Removals /\ recorded' \in 0 .. MaxRecords
    BY <2>1, RecordIs DEF Typed
  <2> QED
    BY <1>1, <1>2, <1>5, <1>3, <2>2 DEF LetGo, rows, Typed, SendingTyped
<1> QED
  BY <1>2, <1>4, <1>5

(* Undo records what it stored, and changes no row.                        *)
LEMMA UndoIs ==
  ASSUME Typed, NEW p \in Procs, Undo(p)
  PROVE  /\ job[p].ref \in Refs /\ Record({job[p].ref})
         /\ UNCHANGED <<sending, ref, outdated>>
         /\ removals' \in SUBSET Removals /\ recorded' \in 0 .. MaxRecords
<1>1. job[p].ref \in Refs
  BY SendingAssumption DEF Undo, Typed, ProcsTyped, JobHeld, JobFor, Jobs, Refs
<1>2. {job[p].ref} \in SUBSET (0 .. MaxRefs) /\ Record({job[p].ref})
  BY <1>1, SendingAssumption DEF Undo, LetGo, Refs
<1>3. removals' \in SUBSET Removals /\ recorded' \in 0 .. MaxRecords
  BY <1>2, RecordIs DEF Typed
<1> QED
  BY <1>1, <1>2, <1>3 DEF Undo, LetGo, rows

(* Asking changes no row and no record.                                    *)
LEMMA AskIs ==
  ASSUME NEW p \in Procs, Ask(p)
  PROVE  UNCHANGED <<sending, ref, removals, recorded>>
BY DEF Ask, records

(* ApplyCheck changes the state of a row that is current, and nothing      *)
(* else.                                                                   *)
LEMMA ApplyIs ==
  ASSUME Typed, NEW p \in Procs, ApplyCheck(p)
  PROVE  /\ job[p].org \in Orgs /\ job[p].ref \in Refs
         /\ sending' \in [Orgs -> {"none", "pending", "verified", "failed"}]
         /\ \A q \in Orgs : sending'[q] # sending[q] =>
              q = job[p].org /\ Current(q, job[p].ref)
         /\ UNCHANGED <<ref, removals, recorded>>
<1>1. job[p].org \in Orgs /\ job[p].ref \in Refs
  BY SendingAssumption DEF ApplyCheck, Typed, ProcsTyped, JobHeld, JobFor, Jobs, Refs
<1>2. CASE Current(job[p].org, job[p].ref)
  <2>1. PICK s \in NextStatus(sending[job[p].org], job[p].result) :
          sending' = [sending EXCEPT ![job[p].org] = s]
    BY <1>2 DEF ApplyCheck
  <2>2. s \in {"none", "pending", "verified", "failed"}
    BY <1>1, <2>1 DEF NextStatus, Typed, SendingTyped
  <2>3. UNCHANGED <<ref, removals, recorded>>
    BY DEF ApplyCheck, records
  <2> QED
    BY <1>1, <1>2, <2>1, <2>2, <2>3 DEF Typed, SendingTyped
<1>3. CASE ~Current(job[p].org, job[p].ref)
  BY <1>1, <1>3 DEF ApplyCheck, records, Typed, SendingTyped
<1> QED
  BY <1>2, <1>3

(* Remove changes no row; a record it forgets was removed at the provider. *)
LEMMA RemoveIs ==
  ASSUME Typed, NEW p \in Procs, Remove(p)
  PROVE  /\ job[p] \in Jobs /\ job[p].ref \in Refs
         /\ UNCHANGED <<sending, ref, recorded>>
         /\ \/ UNCHANGED removals
            \/ held' = held \ {job[p].ref} /\ ForgetRecord(p)
<1>1. job[p] \in Jobs /\ job[p].ref \in Refs
  BY SendingAssumption DEF Remove, Typed, ProcsTyped, JobHeld, JobFor, Jobs, Refs
<1> QED
  BY <1>1 DEF Remove, rows, records, ForgetRecord, RemoveHeld

(* Every step keeps the types of rows and records.                         *)
LEMMA SendingNext == Typed /\ [Next]_vars => SendingTyped'
<1> SUFFICES ASSUME Typed, [Next]_vars PROVE SendingTyped'
  OBVIOUS
<1>1. CASE Releases /\ Lessens
  BY <1>1, ReleasedRefs DEF Lessens, Typed, SendingTyped
<1>2. ASSUME NEW p \in Procs, Store(p) PROVE SendingTyped'
  BY <1>2, StoreIs
<1>3. ASSUME NEW p \in Procs, ApplyCheck(p) PROVE SendingTyped'
  BY <1>3, ApplyIs DEF Typed, SendingTyped
<1>4. ASSUME NEW p \in Procs, Remove(p) PROVE SendingTyped'
  BY <1>4, RemoveIs DEF Typed, SendingTyped, ForgetRecord
<1>5. ASSUME NEW p \in Procs, Undo(p) \/ Ask(p) PROVE SendingTyped'
  BY <1>5, UndoIs, AskIs DEF Typed, SendingTyped
<1> QED
  BY <1>1, <1>2, <1>3, <1>4, <1>5, RegistrationMoves DEF RegistrationSteps

(* A process that works on a registration has one.                         *)
LEMMA JobRef ==
  ASSUME ProcsTyped, NEW p \in Procs,
         pc[p] \in {"replace", "remove", "store", "doubt", "check", "apply"}
  PROVE  job[p] \in Jobs /\ job[p].ref \in Refs
<1>1. JobFor(pc[p], job[p])
  BY DEF ProcsTyped, JobHeld
<1>2. job[p] \in Jobs /\ job[p].ref # 0
  BY <1>1 DEF JobFor
<1> QED
  BY <1>2, SendingAssumption DEF Jobs, Refs

(* What a provider offers is the next id, or one it gave.                  *)
LEMMA OfferedTyped ==
  ASSUME ProviderTyped, NEW r \in OfferedNew \cup OfferedAgain
  PROVE  /\ r \in Refs
         /\ r = made + 1 \/ (r \in 1 .. made /\ by[r] = configured)
BY SendingAssumption DEF ProviderTyped, OfferedNew, OfferedAgain, Refs

(* Register fails, or registers what was offered.                          *)
LEMMA RegisterIs ==
  ASSUME Typed, NEW p \in Procs, Register(p)
  PROVE  \/ UNCHANGED provider /\ Return(p)
         \/ \E r \in OfferedNew \cup OfferedAgain :
              /\ r \in Refs /\ ~RemovalPending
              /\ held' = held \cup {r} /\ made' = IF r > made THEN r ELSE made
              /\ by' = [by EXCEPT ![r] = configured]
              /\ UNCHANGED <<active, configured>>
              /\ \/ Goto(p, "store", [job[p] EXCEPT !.ref = r]) /\ UNCHANGED lock
                 \/ Return(p) /\ Fault("loss")
BY OfferedTyped DEF Register, Refused, Unanswered, Typed

(* What a step does to the providers.                                      *)
ProviderSteps ==
  \/ UNCHANGED provider
  \/ SwitchProvider
  \/ \E p \in Procs : Register(p) \/ Ask(p) \/ Remove(p)

(* Only a change of provider, and three calls of it, do anything.          *)
LEMMA ProviderMoves == [Next]_vars => ProviderSteps
<1> SUFFICES ASSUME [Next]_vars PROVE ProviderSteps
  OBVIOUS
<1>1. ASSUME NEW p \in Procs, NEW o \in Orgs,
             Challenge(p, o) \/ RegenerateToken(p, o) \/ Verify(p, o) \/ RecheckPending(p, o)
      PROVE  UNCHANGED provider
  BY <1>1 DEF Challenge, RegenerateToken, AskToken, Verify, RecheckPending, Lookup
<1>2. ASSUME NEW p \in Procs, NEW o \in Orgs,
             Enable(p, o) \/ CheckSending(p, o) \/ Disable(p, o) \/ AskAddress(p, o)
      PROVE  UNCHANGED provider
  BY <1>2 DEF CheckSending, Disable, Enable, AskAddress
<1>3. ASSUME NEW p \in Procs,
             \/ SaveToken(p) \/ VerifyByTxt(p) \/ SaveAddress(p) \/ Replace(p) \/ Store(p)
             \/ Undo(p) \/ ApplyCheck(p) \/ Crash(p) \/ \E x \in removals : StartRemoval(p, x)
      PROVE  UNCHANGED provider
  BY <1>3 DEF SaveToken, VerifyByTxt, SaveAddress, Replace, Store, Undo, ApplyCheck, Crash,
              StartRemoval
<1>4. ASSUME NEW o \in Orgs, AutoVerify(o) \/ Drop(o) \/ Destroy(o)
      PROVE  UNCHANGED provider
  BY <1>4 DEF AutoVerify, Drop, Destroy
<1>5. LockExpires => UNCHANGED provider
  BY DEF LockExpires
<1>6. ASSUME NEW t \in Tokens, Publish(t) PROVE UNCHANGED provider
  BY <1>6 DEF Publish
<1>7. UNCHANGED vars => UNCHANGED provider
  BY DEF vars, provider
<1> QED
  BY <1>1, <1>2, <1>3, <1>4, <1>5, <1>6, <1>7, Zenon DEF Next, Create, ProviderSteps

(* Every step keeps the types of the providers.                            *)
LEMMA ProviderNext == Typed /\ [Next]_vars => ProviderTyped'
<1> SUFFICES ASSUME Typed, [Next]_vars PROVE ProviderTyped'
  OBVIOUS
<1> USE SendingAssumption
<1>1. CASE UNCHANGED provider
  BY <1>1 DEF provider, Typed, ProviderTyped
<1>2. ASSUME NEW p \in Procs, Register(p) PROVE ProviderTyped'
  <2>1. ASSUME NEW r \in Refs, held' = held \cup {r}, made' = IF r > made THEN r ELSE made,
               by' = [by EXCEPT ![r] = configured], UNCHANGED <<active, configured>>
        PROVE  ProviderTyped'
    BY <2>1 DEF Typed, ProviderTyped, Refs
  <2> QED
    BY <1>1, <1>2, <2>1, RegisterIs
<1>3. ASSUME NEW p \in Procs, Ask(p) PROVE ProviderTyped'
  <2>1. job[p].ref \in Refs
    BY <1>3, JobRef DEF Ask, Typed
  <2>2. /\ active' \in {active} \cup {active \cup ({job[p].ref} \cap held)}
        /\ held' \in {held, held \cup {job[p].ref}}
        /\ UNCHANGED <<configured, made, by>>
    BY <1>3 DEF Ask
  <2> QED
    BY <2>1, <2>2 DEF Typed, ProviderTyped
<1>4. ASSUME NEW p \in Procs, Remove(p) PROVE ProviderTyped'
  <2>1. CASE RemoveHeld(p)
    BY <2>1 DEF RemoveHeld, Typed, ProviderTyped
  <2> QED
    BY <1>1, <1>4, <2>1 DEF Remove
<1>5. CASE SwitchProvider
  BY <1>5 DEF SwitchProvider, Typed, ProviderTyped
<1> QED
  BY <1>1, <1>2, <1>3, <1>4, <1>5, ProviderMoves, Zenon DEF ProviderSteps

(* What NewJob loads.                                                      *)
LEMMA NewJobIs ==
  ASSUME NEW o \in Orgs \cup {None}, NEW t \in 0 .. MaxTokens, NEW r \in 0 .. MaxRefs,
         NEW id \in 0 .. MaxRecords
  PROVE  /\ NewJob(o, t, r, id) \in Jobs
         /\ NewJob(o, t, r, id).org = o /\ NewJob(o, t, r, id).tok = t
         /\ NewJob(o, t, r, id).ref = r /\ NewJob(o, t, r, id).id = id
BY DEF NewJob, Jobs, Results

(* A process that goes to a step with what it needs; the others stay.      *)
LEMMA GotoTyped ==
  ASSUME ProcsTyped, NEW p \in Procs, NEW s \in Steps, NEW j \in Jobs \cup {None}, Goto(p, s, j),
         s # "idle" => JobFor(s, j)
  PROVE  /\ pc' \in [Procs -> Steps] /\ job' \in [Procs -> Jobs \cup {None}] /\ JobHeld'
         /\ pc'[p] = s /\ job'[p] = j
         /\ \A q \in Procs \ {p} : pc'[q] = pc[q] /\ job'[q] = job[q]
<1>1. pc' \in [Procs -> Steps] /\ job' \in [Procs -> Jobs \cup {None}]
  BY DEF ProcsTyped, Goto
<1>2. pc'[p] = s /\ job'[p] = j /\ \A q \in Procs \ {p} : pc'[q] = pc[q] /\ job'[q] = job[q]
  BY DEF ProcsTyped, Goto
<1>3. JobHeld'
  BY <1>2 DEF ProcsTyped, JobHeld
<1> QED
  BY <1>1, <1>2, <1>3

(* A process that begins, under the lock or without it.                    *)
LEMMA BeginTyped ==
  ASSUME ProcsTyped, NEW p \in Procs, NEW s \in Steps, NEW j \in Jobs, Begin(p, s, j), JobFor(s, j),
         lock' \in {lock, p}
  PROVE  ProcsTyped'
<1>1. Goto(p, s, j)
  BY DEF Begin, Goto
<1>2. pc' \in [Procs -> Steps] /\ job' \in [Procs -> Jobs \cup {None}] /\ JobHeld'
  BY <1>1, GotoTyped
<1> QED
  BY <1>2 DEF ProcsTyped

(* A process that ends.                                                    *)
LEMMA ReturnTyped ==
  ASSUME ProcsTyped, NEW p \in Procs, Return(p)
  PROVE  /\ ProcsTyped' /\ pc'[p] = "idle"
         /\ \A q \in Procs \ {p} : pc'[q] = pc[q] /\ job'[q] = job[q]
<1>1. Goto(p, "idle", None) /\ "idle" \in Steps
  BY DEF Return, Steps
<1>2. /\ pc' \in [Procs -> Steps] /\ job' \in [Procs -> Jobs \cup {None}] /\ JobHeld'
      /\ pc'[p] = "idle"
      /\ \A q \in Procs \ {p} : pc'[q] = pc[q] /\ job'[q] = job[q]
  BY <1>1, GotoTyped
<1>3. lock' \in Procs \cup {None}
  BY DEF Return, ProcsTyped
<1> QED
  BY <1>2, <1>3 DEF ProcsTyped

(* What the removal of a record loads.                                     *)
LEMMA RecordedJob ==
  ASSUME NEW o \in Orgs \cup {None}, NEW x \in Removals
  PROVE  /\ NewJob(o, 0, x.ref, x.id) \in Jobs
         /\ NewJob(o, 0, x.ref, x.id).ref = x.ref /\ NewJob(o, 0, x.ref, x.id).id = x.id
         /\ JobFor("remove", NewJob(o, 0, x.ref, x.id))
         /\ o \in Orgs => JobFor("replace", NewJob(o, 0, x.ref, x.id))
<1>1. x.ref \in 0 .. MaxRefs /\ x.ref # 0 /\ x.id \in 0 .. MaxRecords /\ 0 \in 0 .. MaxTokens
  BY SendingAssumption DEF Removals, Refs
<1>2. /\ NewJob(o, 0, x.ref, x.id) \in Jobs
      /\ NewJob(o, 0, x.ref, x.id).ref = x.ref /\ NewJob(o, 0, x.ref, x.id).id = x.id
      /\ NewJob(o, 0, x.ref, x.id).org = o
  BY <1>1, NewJobIs
<1> QED
  BY <1>1, <1>2 DEF JobFor

(* What a request loads that starts from a row only.                       *)
LEMMA EmptyJob ==
  ASSUME NEW o \in Orgs
  PROVE  /\ NewJob(o, 0, 0, 0) \in Jobs
         /\ \A s \in {"challenge", "address", "renew", "register"} : JobFor(s, NewJob(o, 0, 0, 0))
<1>1. 0 \in 0 .. MaxTokens /\ 0 \in 0 .. MaxRefs /\ 0 \in 0 .. MaxRecords
  BY SendingAssumption
<1>2. NewJob(o, 0, 0, 0) \in Jobs /\ NewJob(o, 0, 0, 0).org = o
  BY <1>1, NewJobIs
<1> QED
  BY <1>2 DEF JobFor

(* A process that goes on.                                                 *)
LEMMA GoesOn ==
  ASSUME ProcsTyped, NEW p \in Procs, NEW s \in Steps, NEW j \in Jobs, Goto(p, s, j),
         JobFor(s, j), UNCHANGED lock
  PROVE  ProcsTyped'
BY GotoTyped DEF ProcsTyped

(* Enable takes the lock, and begins to register, its row then without a   *)
(* registration, or to replace the one it has.                             *)
LEMMA EnableIs ==
  ASSUME Typed, NEW p \in Procs, NEW o \in Orgs, Enable(p, o)
  PROVE  /\ Owns(o) /\ lock = None /\ lock' = p /\ pc[p] = "idle"
         /\ \/ ref' = [ref EXCEPT ![o] = 0] /\ Begin(p, "register", NewJob(o, 0, 0, 0))
            \/ ref' = ref /\ Begin(p, "renew", NewJob(o, 0, 0, 0))
         /\ ProcsTyped'
<1>1. \/ ref' = [ref EXCEPT ![o] = 0] /\ Begin(p, "register", NewJob(o, 0, 0, 0))
      \/ ref' = ref /\ Begin(p, "renew", NewJob(o, 0, 0, 0))
  <2>1. CASE DropSwitched(o) /\ Begin(p, "register", NewJob(o, 0, 0, 0))
    BY <2>1 DEF DropSwitched, Forget
  <2>2. CASE /\ Begin(p, IF ref[o] = 0 THEN "register" ELSE "renew", NewJob(o, 0, 0, 0))
             /\ UNCHANGED <<rows, records>>
    BY <2>2 DEF rows, Typed, SendingTyped
  <2> QED
    BY <2>1, <2>2 DEF Enable
<1>2. Owns(o) /\ lock = None /\ lock' = p
  BY DEF Enable
<1>3. ASSUME NEW s \in {"register", "renew"}, Begin(p, s, NewJob(o, 0, 0, 0))
      PROVE  ProcsTyped' /\ pc[p] = "idle"
  <2>1. NewJob(o, 0, 0, 0) \in Jobs /\ JobFor(s, NewJob(o, 0, 0, 0)) /\ s \in Steps
    BY EmptyJob DEF Steps
  <2> QED
    BY <1>2, <1>3, <2>1, BeginTyped DEF Typed, Begin
<1> QED
  BY <1>1, <1>2, <1>3

(* Replace ends, its row deleted; or leaves it without a registration, and *)
(* goes on to register, or to remove what it had.                          *)
LEMMA ReplaceIs ==
  ASSUME Typed, SendingTyped', NEW p \in Procs, Replace(p)
  PROVE  /\ pc[p] = "renew" /\ job[p] \in Jobs /\ job[p].org \in Orgs
         /\ \/ Return(p) /\ UNCHANGED <<rows, records>>
            \/ /\ Record({ref[job[p].org]}) /\ Outdate({job[p].org})
               /\ ref' = [ref EXCEPT ![job[p].org] = 0] /\ UNCHANGED lock
               /\ \/ Goto(p, "register", job[p])
                  \/ \E x \in removals' :
                       /\ x.ref = ref[job[p].org] /\ x \in Removals
                       /\ Goto(p, "replace", NewJob(job[p].org, 0, x.ref, x.id))
         /\ ProcsTyped'
<1>1. pc[p] = "renew" /\ job[p] \in Jobs /\ job[p].org \in Orgs
  BY DEF Replace, Typed, ProcsTyped, JobHeld, JobFor
<1>2. \/ Return(p) /\ UNCHANGED <<rows, records>>
      \/ /\ Record({ref[job[p].org]}) /\ Outdate({job[p].org})
         /\ ref' = [ref EXCEPT ![job[p].org] = 0] /\ UNCHANGED lock
         /\ \/ Goto(p, "register", job[p])
            \/ \E x \in removals' :
                 /\ x.ref = ref[job[p].org] /\ x \in Removals
                 /\ Goto(p, "replace", NewJob(job[p].org, 0, x.ref, x.id))
  <2>1. \A x \in removals' : x \in Removals
    BY DEF SendingTyped
  <2> QED
    BY <2>1, Zenon DEF Replace
<1>3. Return(p) => ProcsTyped'
  BY ReturnTyped DEF Typed
<1>4. ASSUME Goto(p, "register", job[p]), UNCHANGED lock PROVE ProcsTyped'
  <2>1. JobFor("register", job[p])
    BY <1>1 DEF JobFor
  <2> QED
    BY <1>1, <1>4, <2>1, GoesOn DEF Typed, Steps
<1>5. ASSUME NEW x \in Removals, Goto(p, "replace", NewJob(job[p].org, 0, x.ref, x.id)),
             UNCHANGED lock
      PROVE  ProcsTyped'
  BY <1>1, <1>5, RecordedJob, GoesOn DEF Typed, Steps
<1> QED
  BY <1>1, <1>2, <1>3, <1>4, <1>5

(* Disable leaves its row without a registration; it begins to remove what *)
(* it had, if anything.                                                    *)
LEMMA DisableIs ==
  ASSUME Typed, SendingTyped', NEW p \in Procs, NEW o \in Orgs, Disable(p, o)
  PROVE  /\ Owns(o) /\ lock = None /\ ref' = [ref EXCEPT ![o] = 0]
         /\ \/ UNCHANGED <<pc, job, lock>>
            \/ /\ lock' = p /\ pc[p] = "idle"
               /\ \E x \in removals' :
                    x.ref = ref[o] /\ Begin(p, "remove", NewJob(None, 0, x.ref, x.id))
         /\ ProcsTyped'
<1>1. /\ Owns(o) /\ lock = None /\ ref' = [ref EXCEPT ![o] = 0]
      /\ \/ UNCHANGED <<pc, job, lock>>
         \/ /\ lock' = p
            /\ \E x \in removals' :
                 x.ref = ref[o] /\ Begin(p, "remove", NewJob(None, 0, x.ref, x.id))
  BY DEF Disable, Forget
<1>2. ASSUME NEW x \in removals', lock' = p, Begin(p, "remove", NewJob(None, 0, x.ref, x.id))
      PROVE  ProcsTyped' /\ pc[p] = "idle"
  <2>1. NewJob(None, 0, x.ref, x.id) \in Jobs /\ JobFor("remove", NewJob(None, 0, x.ref, x.id))
    BY RecordedJob DEF SendingTyped
  <2> QED
    BY <1>2, <2>1, BeginTyped DEF Typed, Steps, Begin
<1>3. UNCHANGED <<pc, job, lock>> => ProcsTyped'
  BY DEF Typed, ProcsTyped, JobHeld
<1> QED
  BY <1>1, <1>2, <1>3

(* StartRemoval begins to remove a record's registration.                  *)
LEMMA StartRemovalIs ==
  ASSUME Typed, NEW p \in Procs, NEW x \in removals, StartRemoval(p, x)
  PROVE  /\ Begin(p, "remove", NewJob(None, 0, x.ref, x.id)) /\ ProcsTyped'
<1>1. NewJob(None, 0, x.ref, x.id) \in Jobs /\ JobFor("remove", NewJob(None, 0, x.ref, x.id))
  BY RecordedJob DEF Typed, SendingTyped
<1> QED
  BY <1>1, BeginTyped DEF Typed, StartRemoval, Steps

(* Every step keeps the types of the processes.                            *)
LEMMA ProcsNext == Typed /\ [Next]_vars => ProcsTyped'
<1> SUFFICES ASSUME Typed, [Next]_vars PROVE ProcsTyped'
  OBVIOUS
<1> USE SendingAssumption
<1>1. UNCHANGED <<lock, pc, job>> => ProcsTyped'
  BY DEF Typed, ProcsTyped, JobHeld
<1>2. ASSUME NEW p \in Procs, NEW o \in Orgs, AskToken(p, o) \/ AskAddress(p, o)
      PROVE  ProcsTyped'
  <2>1. PICK s \in {"challenge", "address"} : Begin(p, s, NewJob(o, 0, 0, 0)) /\ UNCHANGED lock
    BY <1>2 DEF AskToken, AskAddress
  <2>2. NewJob(o, 0, 0, 0) \in Jobs /\ JobFor(s, NewJob(o, 0, 0, 0)) /\ s \in Steps
    BY EmptyJob DEF Steps
  <2> QED
    BY <2>1, <2>2, BeginTyped DEF Typed
<1>3. ASSUME NEW p \in Procs, NEW o \in Orgs, Lookup(p, o) PROVE ProcsTyped'
  <2>1. token[o] \in 0 .. MaxTokens /\ token[o] # 0
    BY <1>3 DEF Lookup, Published, Typed, OwnershipTyped
  <2>2. NewJob(o, token[o], 0, 0) \in Jobs /\ JobFor("verify", NewJob(o, token[o], 0, 0))
    BY <2>1, NewJobIs DEF JobFor
  <2> QED
    BY <1>3, <2>2, BeginTyped DEF Lookup, Typed, Steps
<1>4. ASSUME NEW p \in Procs, NEW o \in Orgs, CheckSending(p, o) PROVE ProcsTyped'
  <2>1. token[o] \in 0 .. MaxTokens /\ ref[o] # 0 /\ ref[o] \in 0 .. MaxRefs
    BY <1>4 DEF CheckSending, Typed, OwnershipTyped, SendingTyped
  <2>2. NewJob(o, token[o], ref[o], 0) \in Jobs /\ JobFor("check", NewJob(o, token[o], ref[o], 0))
    BY <2>1, NewJobIs DEF JobFor
  <2> QED
    BY <1>4, <2>2, BeginTyped DEF CheckSending, Typed, Steps
<1>5. ASSUME NEW p \in Procs, NEW o \in Orgs, Enable(p, o) \/ Disable(p, o) PROVE ProcsTyped'
  BY <1>5, EnableIs, DisableIs, SendingNext
<1>6. ASSUME NEW p \in Procs, NEW x \in removals, StartRemoval(p, x) PROVE ProcsTyped'
  BY <1>6, StartRemovalIs
<1>7. ASSUME NEW p \in Procs, Return(p) PROVE ProcsTyped'
  BY <1>7, ReturnTyped DEF Typed
<1>8. ASSUME NEW p \in Procs, Register(p) PROVE ProcsTyped'
  <2>1. ASSUME NEW r \in Refs, Goto(p, "store", [job[p] EXCEPT !.ref = r]), UNCHANGED lock
        PROVE  ProcsTyped'
    <3>1. job[p] \in Jobs /\ job[p].org \in Orgs
      BY <1>8 DEF Register, Typed, ProcsTyped, JobHeld, JobFor
    <3>2. r \in 0 .. MaxRefs /\ r # 0
      BY DEF Refs
    <3>3. [job[p] EXCEPT !.ref = r] \in Jobs /\ JobFor("store", [job[p] EXCEPT !.ref = r])
      BY <3>1, <3>2 DEF Jobs, JobFor
    <3> QED
      BY <2>1, <3>3, GoesOn DEF Typed, Steps
  <2> QED
    BY <1>7, <1>8, <2>1, RegisterIs
<1>9. ASSUME NEW p \in Procs, Store(p) PROVE ProcsTyped'
  <2> DEFINE j == [job[p] EXCEPT !.tok = token[job[p].org]]
  <2>1. job[p] \in Jobs /\ job[p].org \in Orgs /\ job[p].ref # 0
    BY <1>9 DEF Store, Typed, ProcsTyped, JobHeld, JobFor
  <2>2. token[job[p].org] \in 0 .. MaxTokens
    BY <2>1 DEF Typed, OwnershipTyped
  <2>3. j \in Jobs /\ JobFor("check", j)
    BY <2>1, <2>2 DEF Jobs, JobFor
  <2>4. \/ Goto(p, "check", j) /\ UNCHANGED lock
        \/ Goto(p, "doubt", job[p]) /\ UNCHANGED lock
        \/ Return(p)
    BY <1>9 DEF Store
  <2>5. JobFor("doubt", job[p])
    BY <2>1 DEF JobFor
  <2> HIDE DEF j
  <2> QED
    BY <1>7, <2>1, <2>3, <2>4, <2>5, GoesOn DEF Typed, Steps
<1>10. ASSUME NEW p \in Procs, Ask(p) PROVE ProcsTyped'
  <2>1. job[p] \in Jobs /\ job[p].org \in Orgs /\ job[p].ref # 0
    BY <1>10 DEF Ask, Typed, ProcsTyped, JobHeld, JobFor
  <2>2. ASSUME NEW answer \in Answers(job[p].ref), UNCHANGED lock,
               Goto(p, "apply", [job[p] EXCEPT !.result = Concluded(answer, job[p].tok)])
        PROVE  ProcsTyped'
    <3> DEFINE result == Concluded(answer, job[p].tok)
               j == [job[p] EXCEPT !.result = result]
    <3>1. result \in Results
      BY DEF Answers, Concluded, Results
    <3> HIDE DEF result
    <3>2. j \in Jobs /\ j.org = job[p].org /\ j.ref = job[p].ref
      BY <2>1, <3>1 DEF Jobs
    <3>3. JobFor("apply", j)
      BY <2>1, <3>2 DEF JobFor
    <3>4. Goto(p, "apply", j)
      BY <2>2 DEF result
    <3> HIDE DEF j
    <3> QED
      BY <2>2, <3>2, <3>4, <3>3, GoesOn DEF Typed, Steps
  <2> QED
    BY <1>7, <1>10, <2>2 DEF Ask, Refused
<1>11. ASSUME NEW p \in Procs, Remove(p) PROVE ProcsTyped'
  <2>1. ASSUME Goto(p, "register", [job[p] EXCEPT !.ref = 0, !.id = 0]), UNCHANGED lock,
               pc[p] = "replace"
        PROVE  ProcsTyped'
    <3> DEFINE j == [job[p] EXCEPT !.ref = 0, !.id = 0]
    <3>1. job[p] \in Jobs /\ job[p].org \in Orgs
      BY <2>1 DEF Typed, ProcsTyped, JobHeld, JobFor
    <3>2. j \in Jobs /\ j.org = job[p].org
      <4> DEFINE k == [job[p] EXCEPT !.ref = 0]
      <4>1. j = [k EXCEPT !.id = 0] /\ k \in Jobs /\ k.org = job[p].org
        BY <3>1 DEF Jobs
      <4> HIDE DEF j, k
      <4> QED
        BY <4>1 DEF Jobs
    <3>3. JobFor("register", j)
      BY <3>1, <3>2 DEF JobFor
    <3> HIDE DEF j
    <3> QED
      BY <2>1, <3>2, <3>3, GoesOn DEF Typed, Steps, j
  <2> QED
    BY <1>7, <1>11, <2>1 DEF Remove, Refused, Unanswered
<1>12. ASSUME NEW p \in Procs, Crash(p) PROVE ProcsTyped'
  <2>1. Return(p)
    BY <1>12 DEF Crash, Return
  <2> QED
    BY <1>7, <2>1
<1>13. CASE LockExpires
  BY <1>13 DEF LockExpires, Typed, ProcsTyped, JobHeld
<1>14. ASSUME NEW o \in Orgs, AutoVerify(o) \/ Drop(o) \/ Destroy(o)
       PROVE  UNCHANGED <<lock, pc, job>>
  BY <1>14 DEF AutoVerify, Drop, Destroy
<1>15. ASSUME NEW t \in Tokens, Publish(t) PROVE UNCHANGED <<lock, pc, job>>
  BY <1>15 DEF Publish
<1>16. SwitchProvider \/ UNCHANGED vars => UNCHANGED <<lock, pc, job>>
  BY DEF SwitchProvider, vars
<1>17. ASSUME NEW p \in Procs, \/ SaveToken(p) \/ VerifyByTxt(p) \/ SaveAddress(p) \/ Undo(p)
                               \/ ApplyCheck(p)
       PROVE  Return(p)
  BY <1>17 DEF SaveToken, VerifyByTxt, SaveAddress, Undo, ApplyCheck
<1>18. ASSUME NEW p \in Procs, Replace(p) PROVE ProcsTyped'
  BY <1>18, ReplaceIs, SendingNext
<1> QED
  BY <1>1, <1>2, <1>3, <1>4, <1>5, <1>6, <1>7, <1>8, <1>9, <1>10, <1>11, <1>12, <1>13, <1>14,
     <1>15, <1>16, <1>17, <1>18, Zenon
  DEF Next, Create, Challenge, RegenerateToken, Verify, RecheckPending

(* The steps that take a process somewhere.                                *)
Arrives(p) ==
  \/ pc'[p] \in {"idle", "challenge", "verify", "address"}
  \/ \E o \in Orgs : Enable(p, o) \/ CheckSending(p, o) \/ Disable(p, o)
  \/ \E x \in removals : StartRemoval(p, x)
  \/ Replace(p) \/ Register(p) \/ Store(p) \/ Ask(p) \/ Remove(p)

(* A process that does nothing.                                            *)
Stays(p) == pc'[p] = pc[p] /\ job'[p] = job[p]

(* When one process goes somewhere, the others stay.                       *)
LEMMA Others ==
  ASSUME ProcsTyped, NEW q \in Procs, NEW s, NEW j, Goto(q, s, j)
  PROVE  pc'[q] = s /\ job'[q] = j /\ \A p \in Procs \ {q} : Stays(p)
BY DEF ProcsTyped, Goto, Stays

(* A process that goes somewhere.                                          *)
Moves(p) == \E s, j : Goto(p, s, j)

(* A step moves one process at most, in one of these ways.                 *)
LEMMA ProcMoves ==
  ASSUME Typed, [Next]_vars
  PROVE  UNCHANGED <<pc, job>> \/ \E p \in Procs : Moves(p) /\ Arrives(p)
<1> USE DEF Typed
<1>1. ASSUME NEW p \in Procs, NEW s, NEW j, Begin(p, s, j) PROVE Goto(p, s, j) /\ Moves(p)
  BY <1>1 DEF Begin, Goto, Moves
<1>2. ASSUME NEW p \in Procs, NEW s, NEW j, Goto(p, s, j),
             s \in {"idle", "challenge", "verify", "address"}
      PROVE  Moves(p) /\ Arrives(p)
  BY <1>2, Others DEF Arrives, Moves
<1>3. ASSUME NEW p \in Procs, Return(p) PROVE Moves(p) /\ Arrives(p)
  BY <1>2, <1>3 DEF Return
<1>4. ASSUME NEW p \in Procs, NEW o \in Orgs, AskToken(p, o) \/ Lookup(p, o) \/ AskAddress(p, o)
      PROVE  Moves(p) /\ Arrives(p)
  BY <1>1, <1>2, <1>4 DEF AskToken, Lookup, AskAddress
<1>5. ASSUME NEW p \in Procs, \/ SaveToken(p) \/ VerifyByTxt(p) \/ SaveAddress(p) \/ Undo(p)
                              \/ ApplyCheck(p) \/ Crash(p)
      PROVE  Moves(p) /\ Arrives(p)
  BY <1>3, <1>5 DEF SaveToken, VerifyByTxt, SaveAddress, Undo, ApplyCheck, Crash, Return
<1>6. ASSUME NEW p \in Procs, NEW o \in Orgs, Enable(p, o) \/ CheckSending(p, o) PROVE Moves(p)
  BY <1>1, <1>6, EnableIs DEF CheckSending
<1>7. ASSUME NEW p \in Procs, NEW o \in Orgs, Disable(p, o)
      PROVE  UNCHANGED <<pc, job>> \/ Moves(p)
  BY <1>1, <1>7, DisableIs, SendingNext
<1>8. ASSUME NEW p \in Procs, NEW x \in removals, StartRemoval(p, x) PROVE Moves(p)
  BY <1>1, <1>8 DEF StartRemoval
<1>9. ASSUME NEW p \in Procs, Replace(p) \/ Register(p) \/ Store(p) \/ Ask(p) \/ Remove(p)
      PROVE  Moves(p)
  BY <1>3, <1>9, Zenon DEF Replace, Register, Store, Ask, Remove, Refused, Unanswered, Moves
<1>10. ASSUME NEW o \in Orgs, AutoVerify(o) \/ Drop(o) \/ Destroy(o)
       PROVE  UNCHANGED <<pc, job>>
  BY <1>10 DEF AutoVerify, Drop, Destroy
<1>11. ASSUME NEW t \in Tokens, Publish(t) PROVE UNCHANGED <<pc, job>>
  BY <1>11 DEF Publish
<1>12. LockExpires \/ SwitchProvider \/ UNCHANGED vars => UNCHANGED <<pc, job>>
  BY DEF LockExpires, SwitchProvider, vars
<1>13. ASSUME NEW p \in Procs, NEW o \in Orgs, Enable(p, o) \/ CheckSending(p, o) \/ Disable(p, o)
       PROVE  Arrives(p)
  BY <1>13, Zenon DEF Arrives
<1>14. ASSUME NEW p \in Procs, \/ Replace(p) \/ Register(p) \/ Store(p) \/ Ask(p) \/ Remove(p)
                                \/ \E x \in removals : StartRemoval(p, x)
       PROVE  Arrives(p)
  BY <1>14, Zenon DEF Arrives
<1> QED
  BY <1>4, <1>5, <1>6, <1>7, <1>8, <1>9, <1>10, <1>11, <1>12, <1>13, <1>14, Zenon
  DEF Next, Create, Challenge, RegenerateToken, Verify, RecheckPending

(* The same, of one process, and of two.                                   *)
LEMMA Arrivals ==
  ASSUME Typed, [Next]_vars, NEW p \in Procs
  PROVE  /\ Stays(p) \/ Arrives(p)
         /\ \A q \in Procs \ {p} : Stays(p) \/ Stays(q)
<1>1. CASE UNCHANGED <<pc, job>>
  BY <1>1 DEF Stays
<1>2. ASSUME NEW r \in Procs, Moves(r), Arrives(r)
      PROVE  /\ Stays(p) \/ Arrives(p)
             /\ \A q \in Procs \ {p} : Stays(p) \/ Stays(q)
  <2>1. \A q \in Procs \ {r} : Stays(q)
    BY <1>2, Others DEF Moves, Typed
  <2> HIDE DEF Stays, Arrives
  <2> QED
    BY <1>2, <2>1
<1> QED
  BY <1>1, <1>2, ProcMoves

(* Who has a registration to store stores it next, unless it is killed;    *)
(* and who has an answer to apply applies it.                              *)
LEMMA Leaves ==
  ASSUME Typed, [Next]_vars, NEW p \in Procs, pc[p] \in {"store", "apply"}, ~Stays(p)
  PROVE  Store(p) \/ ApplyCheck(p) \/ (pc[p] = "store" /\ "loss" \in happened')
<1> USE DEF Typed
<1>1. ASSUME NEW q \in Procs, NEW s, NEW j, Goto(q, s, j) PROVE p = q
  BY <1>1, Others
<1>2. ASSUME NEW q \in Procs, NEW s, NEW j, Begin(q, s, j) PROVE FALSE
  BY <1>1, <1>2 DEF Begin, Goto
<1>3. ~UNCHANGED <<pc, job>>
  BY DEF Stays
<1>4. ASSUME NEW q \in Procs, NEW o \in Orgs,
             AskToken(q, o) \/ Lookup(q, o) \/ CheckSending(q, o) \/ AskAddress(q, o)
      PROVE  FALSE
  BY <1>2, <1>4 DEF AskToken, Lookup, CheckSending, AskAddress
<1>5. ASSUME NEW q \in Procs, NEW o \in Orgs, Enable(q, o) \/ Disable(q, o) PROVE FALSE
  BY <1>2, <1>3, <1>5, EnableIs, DisableIs, SendingNext
<1>6. ASSUME NEW q \in Procs, NEW x \in removals, StartRemoval(q, x) PROVE FALSE
  BY <1>2, <1>6 DEF StartRemoval
<1>7. ASSUME NEW q \in Procs, \/ SaveToken(q) \/ VerifyByTxt(q) \/ SaveAddress(q) \/ Undo(q)
      PROVE  FALSE
  BY <1>1, <1>7 DEF SaveToken, VerifyByTxt, SaveAddress, Undo, Return
<1>8. ASSUME NEW q \in Procs, Replace(q) \/ Register(q) \/ Ask(q) \/ Remove(q) PROVE FALSE
  <2>1. q # p
    BY <1>8 DEF Replace, Register, Ask, Remove
  <2> QED
    BY <1>1, <1>8, <2>1 DEF Replace, Register, Ask, Remove, Refused, Unanswered, Return
<1>9. ASSUME NEW q \in Procs, Store(q) \/ ApplyCheck(q) PROVE Store(p) \/ ApplyCheck(p)
  BY <1>1, <1>9 DEF Store, ApplyCheck, Return
<1>10. ASSUME NEW q \in Procs, Crash(q) PROVE pc[p] = "store" /\ "loss" \in happened'
  BY <1>1, <1>10 DEF Crash, Fault
<1>11. ASSUME NEW o \in Orgs, AutoVerify(o) \/ Drop(o) \/ Destroy(o)
       PROVE  UNCHANGED <<pc, job>>
  BY <1>11 DEF AutoVerify, Drop, Destroy
<1>12. ASSUME NEW t \in Tokens, Publish(t) PROVE UNCHANGED <<pc, job>>
  BY <1>12 DEF Publish
<1>13. LockExpires \/ SwitchProvider \/ UNCHANGED vars => UNCHANGED <<pc, job>>
  BY DEF LockExpires, SwitchProvider, vars
<1> QED
  BY <1>3, <1>4, <1>5, <1>6, <1>7, <1>8, <1>9, <1>10, <1>11, <1>12, <1>13, Zenon
  DEF Next, Create, Challenge, RegenerateToken, Verify, RecheckPending

(* An answer is outdated as its row lets go of what it is of, or is when   *)
(* it comes.                                                               *)
LEMMA OutdatedMoves ==
  ASSUME Typed, [Next]_vars
  PROVE  /\ outdated' \subseteq outdated \cup {p \in Procs : pc[p] = "apply" \/ pc'[p] = "apply"}
         /\ \A p \in Procs : ApplyCheck(p) => p \notin outdated'
<1>1. CASE Releases /\ Lessens
  <2>1. outdated' \subseteq outdated \cup {p \in Procs : pc[p] = "apply"}
    BY <1>1 DEF Releases, Outdate
  <2> QED
    BY <2>1 DEF ApplyCheck
<1>2. ASSUME NEW p \in Procs, Store(p)
      PROVE  outdated' \subseteq outdated \cup {q \in Procs : pc[q] = "apply"}
  BY <1>2, StoreIs DEF StoreOnRow, LetGo, rows, Outdate
<1>3. ASSUME NEW p \in Procs, Undo(p) \/ Remove(p) PROVE UNCHANGED outdated
  BY <1>3, UndoIs DEF Remove, rows
<1>4. ASSUME NEW p \in Procs, Ask(p)
      PROVE  UNCHANGED outdated \/ (pc'[p] = "apply" /\ outdated' \subseteq outdated \cup {p})
  BY <1>4 DEF Ask, Goto, Typed, ProcsTyped
<1>5. ASSUME NEW p \in Procs, ApplyCheck(p) PROVE outdated' = outdated \ {p}
  BY <1>5 DEF ApplyCheck
<1>6. outdated' \subseteq outdated \cup {p \in Procs : pc[p] = "apply" \/ pc'[p] = "apply"}
  BY <1>1, <1>2, <1>3, <1>4, <1>5, RegistrationMoves DEF RegistrationSteps, Releases, Outdate
<1> QED
  BY <1>5, <1>6

(* Every step keeps the type of outdated.                                  *)
LEMMA OutdatedNext == Typed /\ [Next]_vars => OutdatedTyped'
<1> SUFFICES ASSUME Typed, [Next]_vars, NEW p \in outdated'
             PROVE  p \in Procs /\ pc'[p] = "apply"
  BY DEF OutdatedTyped
<1>1. p \in Procs /\ (pc[p] = "apply" \/ pc'[p] = "apply")
  BY OutdatedMoves DEF Typed, OutdatedTyped
<1>2. CASE pc[p] = "apply"
  <2>1. Stays(p) \/ ApplyCheck(p)
    BY <1>1, <1>2, Leaves DEF Store
  <2> QED
    BY <1>1, <1>2, <2>1, OutdatedMoves DEF Stays
<1> QED
  BY <1>1, <1>2

(* Every step keeps the types.                                             *)
LEMMA TypedNext == Typed /\ [Next]_vars => Typed'
BY OwnershipNext, SendingNext, ProviderNext, ProcsNext, OutdatedNext, Happens DEF Typed

(* Every variable keeps its type: no process works on what it has not      *)
(* loaded, one row at a time is verified, and a provider gives away        *)
(* nothing it validated.                                                   *)
THEOREM TypeCorrect == Spec => []TypeOK
<1>1. Typed => TypeOK
  BY DEF Typed, OwnershipTyped, SendingTyped, ProviderTyped, ProcsTyped, OutdatedTyped, FaultsTyped,
         TypeOK
<1> QED
  BY <1>1, InitTyped, TypedNext, PTL DEF Spec

-----------------------------------------------------------------------------

(* Who owns the domain and did not was verified by this step.              *)
LEMMA NewOwner ==
  ASSUME Typed, [Next]_vars, NEW o \in Orgs, Owns(o)', ~Owns(o)
  PROVE  \E fallen : Verified(o, fallen)
<1>1. ASSUME NEW q \in Orgs, NEW fallen, Verified(q, fallen),
             \A x \in Orgs \ {q} : Owns(x) => x \in fallen
      PROVE  \E fell : Verified(o, fell)
  <2>1. q = o
    BY <1>1, VerifiedOne DEF Typed, Owns
  <2> QED
    BY <1>1, <2>1
<1>2. ASSUME UNCHANGED own PROVE FALSE
  BY <1>2 DEF Owns
<1>3. ASSUME NEW q \in Orgs, AutoVerify(q) PROVE \E fallen : Verified(o, fallen)
  BY <1>1, <1>3 DEF AutoVerify, TakenElsewhere
<1>4. ASSUME NEW p \in Procs, VerifyByTxt(p) PROVE \E fallen : Verified(o, fallen)
  <2>1. job[p].org \in Orgs
    BY <1>4 DEF VerifyByTxt, Typed, ProcsTyped, JobHeld, JobFor
  <2>2. CASE UNCHANGED ownership
    BY <1>2, <2>2 DEF ownership
  <2>3. CASE Verified(job[p].org, {q \in Orgs : Owns(q)})
    BY <1>1, <2>1, <2>3
  <2> QED
    BY <1>4, <2>2, <2>3 DEF VerifyByTxt
<1>5. ASSUME NEW q \in Orgs, Destroy(q) PROVE FALSE
  BY <1>5 DEF Destroy, Owns, Typed, OwnershipTyped
<1>6. ASSUME NEW p \in Procs, SaveToken(p) PROVE FALSE
  BY <1>6 DEF SaveToken, Owns, Typed, OwnershipTyped
<1>7. CASE \/ UNCHANGED ownership \/ \E p \in Procs : SaveAddress(p)
           \/ \E p \in Procs : \E q \in Orgs : Enable(p, q)
           \/ \E t \in Tokens : Publish(t)
  BY <1>2, <1>7 DEF SaveAddress, Enable, Publish, ownership
<1> QED
  BY <1>3, <1>4, <1>5, <1>6, <1>7, OwnershipMoves, Zenon DEF OwnershipSteps

(* Every step keeps OnlyOwnerRegistered: a new owner's step clears the     *)
(* other rows, and what is stored or applied is on the owner's row.        *)
LEMMA OwnerNext ==
  Typed /\ OnlyOwnerRegistered /\ [Next]_vars => OnlyOwnerRegistered'
<1> SUFFICES ASSUME Typed, OnlyOwnerRegistered, [Next]_vars,
                    NEW o \in Orgs, NEW q \in Orgs, Owns(o)', q # o
             PROVE  sending'[q] = "none" /\ ref'[q] = 0
  BY DEF OnlyOwnerRegistered
<1>1. CASE ~Owns(o)
  BY <1>1, NewOwner, VerifiedReleases DEF Typed
<1>2. CASE Owns(o)
  <2>1. sending[q] = "none" /\ ref[q] = 0
    BY <1>2 DEF OnlyOwnerRegistered
  <2>2. \A x \in Orgs : Owns(x) => x # q
    BY <1>2 DEF Typed, OwnershipTyped, OneVerified
  <2>3. CASE Releases /\ Lessens
    BY <2>1, <2>3, ReleasedRefs DEF Lessens, Typed
  <2>4. ASSUME NEW p \in Procs, Store(p) PROVE sending'[q] = "none" /\ ref'[q] = 0
    BY <2>1, <2>2, <2>4, StoreIs DEF StoreOnRow, LetGo, rows, Typed, SendingTyped
  <2>5. ASSUME NEW p \in Procs, ApplyCheck(p) PROVE sending'[q] = "none" /\ ref'[q] = 0
    BY <2>1, <2>2, <2>5, ApplyIs DEF Current
  <2>6. ASSUME NEW p \in Procs, Undo(p) \/ Ask(p) \/ Remove(p)
        PROVE  sending'[q] = "none" /\ ref'[q] = 0
    BY <2>1, <2>6, UndoIs, AskIs, RemoveIs
  <2> QED
    BY <2>3, <2>4, <2>5, <2>6, RegistrationMoves DEF RegistrationSteps
<1> QED
  BY <1>1, <1>2

(* Nobody owns the domain at first.                                        *)
LEMMA InitOwner == Init => OnlyOwnerRegistered
BY DEF Init, OnlyOwnerRegistered, Owns

(* Only the domain's owner has anything set up for sending.                *)
THEOREM OnlyOwnerCorrect == Spec => []OnlyOwnerRegistered
<1>1. Init => Typed /\ OnlyOwnerRegistered
  BY InitTyped, InitOwner
<1>2. Typed /\ OnlyOwnerRegistered /\ [Next]_vars => (Typed /\ OnlyOwnerRegistered)'
  BY TypedNext, OwnerNext
<1> QED
  BY <1>1, <1>2, PTL DEF Spec

-----------------------------------------------------------------------------

(* What the provider in use gave it gave; another comes into use while no  *)
(* process is under way.                                                   *)
LEMMA GivenKept ==
  ASSUME Typed, [Next]_vars
  PROVE  /\ \A r \in Refs : by[r] = configured => by'[r] = configured \/ configured' # configured
         /\ configured' # configured => \A p \in Procs : pc'[p] = "idle"
<1> USE DEF Typed
<1>1. UNCHANGED <<configured, by>> \/ SwitchProvider \/ \E p \in Procs : Register(p)
  <2>1. ASSUME NEW p \in Procs, Ask(p) \/ Remove(p) PROVE UNCHANGED <<configured, by>>
    BY <2>1 DEF Ask, Remove, RemoveHeld, provider
  <2>2. UNCHANGED provider => UNCHANGED <<configured, by>>
    BY DEF provider
  <2> QED
    BY <2>1, <2>2, ProviderMoves, Zenon DEF ProviderSteps
<1>2. CASE UNCHANGED <<configured, by>>
  BY <1>2
<1>3. CASE SwitchProvider
  <2>1. configured' # configured /\ UNCHANGED pc /\ \A p \in Procs : pc[p] = "idle"
    BY <1>3 DEF SwitchProvider
  <2> QED
    BY <2>1
<1>4. ASSUME NEW p \in Procs, Register(p)
      PROVE  configured' = configured /\ \A r \in Refs : by[r] = configured => by'[r] = configured
  BY <1>4, RegisterIs DEF ProviderTyped, provider
<1> QED
  BY <1>1, <1>2, <1>3, <1>4

(* How a process comes to work on a registration: it registered it, loaded *)
(* it from its row to check it, or goes on.                                *)
LEMMA RefArrival ==
  ASSUME Typed, [Next]_vars, NEW p \in Procs,
         pc'[p] \in {"store", "doubt", "check", "apply"}, ~Stays(p)
  PROVE  \/ /\ pc[p] \in {"store", "check"} /\ job'[p].ref = job[p].ref
            /\ pc'[p] # "store" /\ (pc'[p] = "apply" => Ask(p))
         \/ /\ pc'[p] = "check"
            /\ \E o \in Orgs : /\ job'[p].ref = ref[o] /\ ref[o] # 0 /\ ~Switched(o)
                              /\ UNCHANGED <<ref, provider>>
         \/ /\ pc'[p] = "store" /\ Register(p) /\ UNCHANGED <<ref, removals>>
            /\ \E r \in OfferedNew \cup OfferedAgain :
                 /\ r \in Refs /\ ~RemovalPending /\ r \in held'
                 /\ made' = IF r > made THEN r ELSE made
                 /\ by' = [by EXCEPT ![r] = configured] /\ configured' = configured
                 /\ job'[p].ref = r
<1> USE DEF Typed
<1>1. ~Return(p)
  BY ReturnTyped
<1>2. ASSUME NEW s, NEW j, Goto(p, s, j) \/ Begin(p, s, j)
      PROVE  pc'[p] = s /\ job'[p] = j
  BY <1>2 DEF ProcsTyped, Goto, Begin
<1>3. \A o \in Orgs : ~Enable(p, o)
  <2>1. ASSUME NEW o \in Orgs, Enable(p, o) PROVE pc'[p] \in {"register", "renew"}
    BY <1>2, <2>1, EnableIs
  <2> QED
    BY <2>1
<1>4. \A o \in Orgs : ~Disable(p, o)
  <2>1. ASSUME NEW o \in Orgs, Disable(p, o) PROVE pc'[p] = "remove"
    BY <1>2, <2>1, DisableIs, SendingNext DEF Stays
  <2> QED
    BY <2>1
<1>5. \A x \in removals : ~StartRemoval(p, x)
  BY <1>2 DEF StartRemoval
<1>6. ~Replace(p)
  <2>1. ASSUME Replace(p) PROVE pc'[p] \in {"register", "replace"}
    BY <1>1, <1>2, <2>1, ReplaceIs, SendingNext
  <2> QED
    BY <2>1
<1>7. ~Remove(p)
  <2>1. ASSUME Remove(p) PROVE pc'[p] = "register"
    BY <1>1, <1>2, <2>1 DEF Remove, Refused, Unanswered
  <2> QED
    BY <2>1
<1>8. ASSUME NEW o \in Orgs, CheckSending(p, o)
      PROVE  /\ pc'[p] = "check" /\ job'[p].ref = ref[o] /\ ref[o] # 0 /\ ~Switched(o)
             /\ UNCHANGED <<ref, provider>>
  <2>1. pc'[p] = "check" /\ job'[p] = NewJob(o, token[o], ref[o], 0)
    BY <1>2, <1>8 DEF CheckSending
  <2> QED
    BY <1>8, <2>1 DEF CheckSending, rows, NewJob
<1>9. ASSUME Register(p)
      PROVE  /\ pc'[p] = "store" /\ UNCHANGED <<ref, removals>>
             /\ \E r \in OfferedNew \cup OfferedAgain :
                  /\ r \in Refs /\ ~RemovalPending /\ r \in held'
                  /\ made' = IF r > made THEN r ELSE made
                  /\ by' = [by EXCEPT ![r] = configured] /\ configured' = configured
                  /\ job'[p].ref = r
  <2>1. PICK r \in OfferedNew \cup OfferedAgain :
          /\ r \in Refs /\ ~RemovalPending /\ held' = held \cup {r}
          /\ made' = IF r > made THEN r ELSE made
          /\ by' = [by EXCEPT ![r] = configured] /\ UNCHANGED <<active, configured>>
          /\ Goto(p, "store", [job[p] EXCEPT !.ref = r])
    BY <1>1, <1>9, RegisterIs
  <2>2. job[p] \in Jobs
    BY <1>9 DEF Register, ProcsTyped, JobHeld, JobFor
  <2>3. pc'[p] = "store" /\ job'[p] = [job[p] EXCEPT !.ref = r]
    BY <1>2, <2>1
  <2>4. job'[p].ref = r
    BY <2>2, <2>3 DEF Jobs
  <2>5. UNCHANGED <<ref, removals>>
    BY <1>9 DEF Register, rows, records
  <2> QED
    BY <2>1, <2>3, <2>4, <2>5
<1>10. ASSUME Store(p)
       PROVE  pc[p] = "store" /\ job'[p].ref = job[p].ref /\ pc'[p] \in {"check", "doubt"}
  <2>1. pc[p] = "store" /\ job[p] \in Jobs
    BY <1>10, JobRef DEF Store
  <2>2. \/ pc'[p] = "check" /\ job'[p] = [job[p] EXCEPT !.tok = token[job[p].org]]
        \/ pc'[p] = "doubt" /\ job'[p] = job[p]
    BY <1>1, <1>2, <1>10 DEF Store
  <2> QED
    BY <2>1, <2>2 DEF Jobs
<1>11. ASSUME Ask(p) PROVE pc[p] = "check" /\ job'[p].ref = job[p].ref /\ pc'[p] = "apply"
  <2>1. pc[p] = "check" /\ job[p] \in Jobs
    BY <1>11, JobRef DEF Ask
  <2>2. PICK c : Goto(p, "apply", [job[p] EXCEPT !.result = c])
    BY <1>1, <1>11 DEF Ask, Refused
  <2>3. pc'[p] = "apply" /\ job'[p] = [job[p] EXCEPT !.result = c]
    BY <1>2, <2>2
  <2> QED
    BY <2>1, <2>3 DEF Jobs
<1>12. Arrives(p) /\ pc'[p] \notin {"idle", "challenge", "verify", "address"}
  BY Arrivals
<1>13. CASE Register(p)
  BY <1>9, <1>13
<1>14. CASE \E o \in Orgs : CheckSending(p, o)
  BY <1>8, <1>14
<1>15. CASE Store(p)
  BY <1>10, <1>15
<1>16. CASE Ask(p)
  BY <1>11, <1>16
<1> QED
  BY <1>3, <1>4, <1>5, <1>6, <1>7, <1>12, <1>13, <1>14, <1>15, <1>16, Zenon DEF Arrives

(* A registration that a process made or checks is of the provider in use. *)
Here ==
  \A p \in Procs : pc[p] \in {"store", "check", "apply"} => by[job[p].ref] = configured

(* Every step keeps Here.                                                  *)
LEMMA HereNext == Typed /\ Here /\ [Next]_vars => Here'
<1> SUFFICES ASSUME Typed, Here, [Next]_vars, NEW p \in Procs,
                    pc'[p] \in {"store", "check", "apply"}
             PROVE  by'[job'[p].ref] = configured'
  BY DEF Here
<1>1. configured' = configured
  BY GivenKept
<1>2. ASSUME pc[p] \in {"store", "check", "apply"}, job'[p].ref = job[p].ref
      PROVE  by'[job'[p].ref] = configured'
  BY <1>1, <1>2, GivenKept, JobRef DEF Here, Typed
<1>3. CASE Stays(p)
  BY <1>2, <1>3 DEF Stays
<1>4. ASSUME NEW o \in Orgs, job'[p].ref = ref[o], ref[o] # 0, ~Switched(o), UNCHANGED provider
      PROVE  by'[job'[p].ref] = configured'
  BY <1>4 DEF Switched, provider
<1>5. ASSUME NEW r \in Refs, by' = [by EXCEPT ![r] = configured], job'[p].ref = r
      PROVE  by'[job'[p].ref] = configured'
  BY <1>1, <1>5 DEF Typed, ProviderTyped
<1> QED
  BY <1>2, <1>3, <1>4, <1>5, RefArrival

(* One row at a time has a registration, though its owner lost it.         *)
OneRow == \A o, q \in Orgs : ref[o] # 0 /\ ref[q] # 0 => o = q

(* No row, record or process has an id not given yet.                      *)
AllMade ==
  /\ \A o \in Orgs : ref[o] <= made
  /\ \A x \in removals : x.ref <= made
  /\ \A p \in Procs :
       pc[p] \in {"store", "doubt", "check", "apply"} => job[p].ref <= made

(* A process removes a registration.                                       *)
Removing(p) == pc[p] \in {"replace", "remove"}

(* A record has an id of its own, never given again, and the process that  *)
(* removes it has its registration.                                        *)
Recorded ==
  /\ \A x \in removals : x.id <= recorded
  /\ \A x, y \in removals : x.id = y.id => x = y
  /\ \A p \in Procs : Removing(p) =>
       /\ job[p].id <= recorded
       /\ \A x \in removals : x.id = job[p].id => x.ref = job[p].ref

(* A process sets a row up, and has not stored what it registers.          *)
SettingUp(p) == pc[p] \in {"renew", "replace", "register", "store"}

(* It has the lock, and no row has a registration, but that it is to       *)
(* replace.                                                                *)
Alone ==
  Without({"race", "doubt"}) =>
    \A p \in Procs : SettingUp(p) =>
      /\ lock = p
      /\ \A o \in Orgs : ref[o] = 0 \/ (pc[p] = "renew" /\ o = job[p].org)

(* A record is removed by one process at a time, and is there until it is. *)
OneTry ==
  Without({"race", "doubt"}) =>
    /\ \A p, q \in Procs : Removing(p) /\ Removing(q) /\ job[p].id = job[q].id => p = q
    /\ \A p \in Procs : Removing(p) => \E x \in removals : x.id = job[p].id

(* What is registered and not stored yet is there, and not to be removed.  *)
ToStore ==
  Without({"race", "doubt"}) =>
    \A p \in Procs : pc[p] = "store" =>
      job[p].ref \in held /\ \A x \in removals : x.ref # job[p].ref

(* Who is in doubt of a commit is so of the fault.                         *)
InDoubt == \A p \in Procs : pc[p] = "doubt" => "doubt" \in happened

(* What holds whatever happens.                                            *)
Known ==
  /\ Typed /\ OnlyOwnerRegistered /\ Here /\ InDoubt
  /\ OneRow /\ AllMade /\ Recorded

(* Every step keeps InDoubt.                                               *)
LEMMA InDoubtNext == Typed /\ InDoubt /\ [Next]_vars => InDoubt'
<1> SUFFICES ASSUME Typed, InDoubt, [Next]_vars, NEW p \in Procs, pc'[p] = "doubt"
             PROVE  "doubt" \in happened'
  BY DEF InDoubt
<1>1. happened \subseteq happened'
  BY Happens DEF Typed
<1>2. CASE Stays(p)
  BY <1>1, <1>2 DEF Stays, InDoubt
<1>3. CASE ~Stays(p)
  <2>1. Store(p)
    <3>1. pc[p] \in {"store", "check"} /\ Arrives(p)
      BY <1>3, RefArrival, Arrivals
    <3>2. ~Ask(p)
      BY DEF Ask, Refused, Return, Goto, Typed, ProcsTyped
    <3>3. \A o \in Orgs : ~Enable(p, o) /\ ~CheckSending(p, o)
      BY <3>1 DEF Enable, CheckSending, Begin
    <3>4. \A o \in Orgs : ~Disable(p, o)
      BY <1>3, <3>1, DisableIs, SendingNext DEF Stays, Typed
    <3>5. /\ \A x \in removals : ~StartRemoval(p, x)
          /\ ~Replace(p) /\ ~Register(p) /\ ~Remove(p)
      BY <3>1 DEF StartRemoval, Begin, Replace, Register, Remove
    <3> QED
      BY <3>1, <3>2, <3>3, <3>4, <3>5 DEF Arrives
  <2> QED
    BY <2>1, ReturnTyped, Others DEF Store, Fault, Typed
<1> QED
  BY <1>2, <1>3

(* Every step keeps OneRow: a registration is stored on the owner's row,   *)
(* and no other has one.                                                   *)
LEMMA OneRowNext == Known /\ [Next]_vars => OneRow'
<1> SUFFICES ASSUME Known, [Next]_vars PROVE OneRow'
  OBVIOUS
<1> USE DEF Known
<1>1. CASE Releases /\ Lessens
  BY <1>1, ReleasedRefs DEF Typed, OneRow
<1>2. ASSUME NEW p \in Procs, Store(p) PROVE OneRow'
  <2>1. CASE Owns(job[p].org) /\ StoreOnRow(job[p].org, job[p].ref)
    <3>1. ref' = [ref EXCEPT ![job[p].org] = job[p].ref] /\ job[p].org \in Orgs
      BY <1>2, <2>1, StoreIs DEF StoreOnRow
    <3>2. \A q \in Orgs \ {job[p].org} : ref[q] = 0
      BY <2>1, <3>1 DEF OnlyOwnerRegistered
    <3> QED
      BY <3>1, <3>2 DEF Typed, SendingTyped, OneRow
  <2>2. CASE LetGo(job[p].ref)
    BY <2>2 DEF LetGo, rows, OneRow
  <2> QED
    BY <1>2, <2>1, <2>2, StoreIs
<1>3. ASSUME NEW p \in Procs, ApplyCheck(p) PROVE OneRow'
  BY <1>3, ApplyIs DEF OneRow
<1>4. ASSUME NEW p \in Procs, Undo(p) \/ Ask(p) \/ Remove(p) PROVE OneRow'
  BY <1>4, UndoIs, AskIs, RemoveIs DEF OneRow
<1> QED
  BY <1>1, <1>2, <1>3, <1>4, RegistrationMoves DEF RegistrationSteps

(* One registration is recorded, or none.                                  *)
Adds ==
  /\ removals \subseteq removals' /\ recorded <= recorded'
  /\ \A x \in removals' \ removals :
       x.id = recorded + 1 /\ recorded' = recorded + 1
  /\ \A x, y \in removals' \ removals : x.ref = y.ref

(* A registration is removed, and its record forgotten.                    *)
Drops(p) == Remove(p) /\ held' = held \ {job[p].ref} /\ ForgetRecord(p)

(* Recording one registration, or none.                                    *)
LEMMA RecordOne ==
  ASSUME SendingTyped, NEW r \in 0 .. MaxRefs, NEW R \in SUBSET {r}, Record(R)
  PROVE  /\ Adds
         /\ \A x \in removals' \ removals : x.ref = r /\ r \in R /\ r # 0
         /\ r \in R /\ r # 0 => \E x \in removals' : x.ref = r
<1>1. R \in SUBSET (0 .. MaxRefs)
  OBVIOUS
<1>2. /\ removals \subseteq removals' /\ recorded <= recorded'
      /\ \A x \in R \ {0} : \E y \in removals' : y.ref = x
      /\ \A x \in removals' \ removals :
           x.id = recorded' /\ recorded' = recorded + 1 /\ x.ref \in R \ {0}
  BY <1>1, RecordIs
<1>3. \A x \in removals' \ removals : x.ref = r /\ r \in R /\ r # 0
  BY <1>2
<1> QED
  BY <1>2, <1>3 DEF Adds

(* Every step records one at most, or forgets one removed.                 *)
LEMMA RecordMoves ==
  ASSUME Known, [Next]_vars
  PROVE  Adds \/ \E p \in Procs : Drops(p)
<1> USE DEF Known, Typed
<1>1. UNCHANGED <<removals, recorded>> => Adds
  BY DEF Adds, SendingTyped
<1>2. CASE Releases /\ Lessens
  BY <1>2, ReleasedRefs DEF OneRow, Adds
<1>3. ASSUME NEW p \in Procs, Store(p) PROVE Adds
  <2>1. job[p].org \in Orgs /\ job[p].ref \in 0 .. MaxRefs
    BY <1>3, StoreIs, SendingAssumption DEF Refs
  <2>2. CASE StoreOnRow(job[p].org, job[p].ref)
    <3>1. ref[job[p].org] \in 0 .. MaxRefs
      BY <2>1 DEF SendingTyped
    <3> QED
      BY <2>2, <3>1, RecordOne DEF StoreOnRow
  <2>3. CASE LetGo(job[p].ref)
    BY <2>1, <2>3, RecordOne DEF LetGo
  <2> QED
    BY <1>3, <2>2, <2>3, StoreIs
<1>4. ASSUME NEW p \in Procs, ApplyCheck(p) PROVE Adds
  BY <1>1, <1>4, ApplyIs
<1>5. ASSUME NEW p \in Procs, Remove(p) PROVE Adds \/ Drops(p)
  BY <1>1, <1>5, RemoveIs DEF Drops
<1>6. ASSUME NEW p \in Procs, Undo(p) PROVE Adds
  <2>1. job[p].ref \in 0 .. MaxRefs /\ Record({job[p].ref})
    BY <1>6, UndoIs, SendingAssumption DEF Refs
  <2> QED
    BY <2>1, RecordOne
<1>7. ASSUME NEW p \in Procs, Ask(p) PROVE Adds
  BY <1>1, <1>7, AskIs
<1> QED
  BY <1>2, <1>3, <1>4, <1>5, <1>6, <1>7, RegistrationMoves DEF RegistrationSteps

(* What a provider has grows when it is asked to register, or when it      *)
(* restores what was removed; it shrinks when it is asked to remove.       *)
LEMMA HeldMoves ==
  ASSUME Typed, [Next]_vars
  PROVE  /\ made <= made'
         /\ \/ held' = held
            \/ \E p \in Procs : Register(p) /\ held \subseteq held'
            \/ held \subseteq held' /\ "loss" \in happened'
            \/ \E p \in Procs : Remove(p) /\ held' = held \ {job[p].ref}
<1> USE DEF Typed
<1>1. CASE UNCHANGED provider
  BY <1>1 DEF provider, ProviderTyped
<1>2. CASE SwitchProvider
  BY <1>2 DEF SwitchProvider, ProviderTyped
<1>3. ASSUME NEW p \in Procs, Register(p)
      PROVE  made <= made' /\ held \subseteq held'
  <2>1. UNCHANGED provider \/ \E r \in Refs : /\ held' = held \cup {r}
                                             /\ made' = IF r > made THEN r ELSE made
    BY <1>3, RegisterIs
  <2> QED
    BY <2>1, SendingAssumption DEF provider, ProviderTyped, Refs
<1>4. ASSUME NEW p \in Procs, Ask(p)
      PROVE  made <= made' /\ (held' = held \/ (held \subseteq held' /\ "loss" \in happened'))
  <2>1. UNCHANGED made /\ (held' = held \/ (held \subseteq held' /\ Fault("loss")))
    BY <1>4, Zenon DEF Ask
  <2> QED
    BY <2>1, SendingAssumption DEF Fault, ProviderTyped
<1>5. ASSUME NEW p \in Procs, Remove(p)
      PROVE  made <= made' /\ (held' = held \/ held' = held \ {job[p].ref})
  BY <1>5 DEF Remove, RemoveHeld, provider, ProviderTyped
<1> QED
  BY <1>1, <1>2, <1>3, <1>4, <1>5, ProviderMoves DEF ProviderSteps, provider, ProviderTyped

(* A process that will store has just registered.                          *)
LEMMA StoreArrival ==
  ASSUME Typed, [Next]_vars, NEW p \in Procs, pc'[p] = "store", ~Stays(p)
  PROVE  /\ Register(p) /\ UNCHANGED <<ref, removals>>
         /\ \E r \in OfferedNew \cup OfferedAgain :
              /\ r \in Refs /\ ~RemovalPending /\ r \in held'
              /\ made' = IF r > made THEN r ELSE made
              /\ job'[p].ref = r
BY RefArrival

(* A process that begins to remove has a record, of a row's registration   *)
(* let go of by its step, or of one it begins a try of.                    *)
LEMMA RemovingArrival ==
  ASSUME Typed, [Next]_vars, NEW p \in Procs, Removing(p)', ~Stays(p)
  PROVE  \E x \in removals' :
           /\ job'[p].id = x.id /\ job'[p].ref = x.ref
           /\ \/ \E o \in Orgs : ref[o] = x.ref /\ ref[o] # 0
              \/ x \in removals /\ StartRemoval(p, x)
<1> USE DEF Typed
<1>1. ASSUME NEW s, NEW o \in Orgs \cup {None}, NEW x \in removals',
             Begin(p, s, NewJob(o, 0, x.ref, x.id))
      PROVE  job'[p].id = x.id /\ job'[p].ref = x.ref /\ x.ref # 0
  <2>1. job'[p] = NewJob(o, 0, x.ref, x.id)
    BY <1>1 DEF Begin, ProcsTyped
  <2>2. x \in Removals
    BY SendingNext DEF SendingTyped
  <2>3. NewJob(o, 0, x.ref, x.id).ref = x.ref /\ NewJob(o, 0, x.ref, x.id).id = x.id
    BY <2>2, RecordedJob
  <2> QED
    BY <2>1, <2>2, <2>3 DEF Removals, Refs
<1>2. ASSUME Replace(p)
      PROVE  \E x \in removals', o \in Orgs :
               job'[p].id = x.id /\ job'[p].ref = x.ref /\ ref[o] = x.ref /\ ref[o] # 0
  <2>1. ~Return(p) /\ ~Goto(p, "register", job[p])
    BY ReturnTyped, Others DEF Removing
  <2>2. job[p].org \in Orgs
    BY <1>2, ReplaceIs, SendingNext
  <2>3. PICK x \in removals' : /\ x.ref = ref[job[p].org] /\ x \in Removals
                               /\ Goto(p, "replace", NewJob(job[p].org, 0, x.ref, x.id))
    BY <1>2, <2>1, ReplaceIs, SendingNext
  <2>4. job'[p] = NewJob(job[p].org, 0, x.ref, x.id)
    BY <2>3, Others
  <2>5. job'[p].ref = x.ref /\ job'[p].id = x.id /\ x.ref # 0
    BY <2>3, <2>4, SendingAssumption DEF NewJob, Removals, Refs
  <2> QED
    BY <2>2, <2>3, <2>5
<1>3. \A o \in Orgs : ~Enable(p, o)
  BY EnableIs DEF Begin, ProcsTyped, Removing
<1>4. ASSUME NEW o \in Orgs, Disable(p, o)
      PROVE  \E x \in removals' :
               job'[p].id = x.id /\ job'[p].ref = x.ref /\ ref[o] = x.ref /\ ref[o] # 0
  <2>1. ~UNCHANGED <<pc, job, lock>>
    BY DEF Stays
  <2>2. PICK x \in removals' : x.ref = ref[o] /\ Begin(p, "remove", NewJob(None, 0, x.ref, x.id))
    BY <1>4, <2>1, DisableIs, SendingNext
  <2> QED
    BY <1>1, <2>2
<1>5. ASSUME NEW x \in removals, StartRemoval(p, x)
      PROVE  x \in removals' /\ job'[p].id = x.id /\ job'[p].ref = x.ref
  BY <1>1, <1>5, StartRemovalIs DEF StartRemoval, records
<1>6. \A o \in Orgs : ~CheckSending(p, o)
  BY DEF CheckSending, Begin, ProcsTyped, Removing
<1>7. ~Return(p)
  BY ReturnTyped DEF Removing
<1>8. ~Register(p) /\ ~Store(p) /\ ~Ask(p) /\ ~Remove(p)
  BY <1>7 DEF Register, Store, Ask, Remove, Refused, Unanswered, Goto, ProcsTyped, Removing
<1>9. Arrives(p) /\ pc'[p] \notin {"idle", "challenge", "verify", "address"}
  BY Arrivals DEF Removing
<1> QED
  BY <1>2, <1>4, <1>5, <1>6, <1>8, <1>9, <1>3 DEF Arrives

(* A process that sets up has just taken the lock, of an owner's row       *)
(* without a registration, or whose it is to replace; or it goes on.       *)
LEMMA SettingUpArrival ==
  ASSUME Typed, [Next]_vars, NEW p \in Procs, SettingUp(p)', ~Stays(p)
  PROVE  \/ \E o \in Orgs :
              /\ Owns(o) /\ lock' = p
              /\ \/ ref' = [ref EXCEPT ![o] = 0]
                 \/ ref' = ref /\ pc'[p] = "renew" /\ job'[p].org = o
         \/ /\ pc[p] = "renew" /\ job[p].org \in Orgs /\ lock' = lock
            /\ ref' = [ref EXCEPT ![job[p].org] = 0]
         \/ SettingUp(p) /\ pc[p] # "renew" /\ lock' = lock /\ ref' = ref
<1> USE DEF Typed
<1>1. ASSUME NEW o \in Orgs, Enable(p, o)
      PROVE  /\ Owns(o) /\ lock' = p
             /\ \/ ref' = [ref EXCEPT ![o] = 0]
                \/ ref' = ref /\ pc'[p] = "renew" /\ job'[p].org = o
  BY <1>1, EnableIs DEF Begin, NewJob, ProcsTyped
<1>2. \A o \in Orgs : ~Disable(p, o)
  BY DisableIs, SendingNext DEF Begin, ProcsTyped, Stays, SettingUp
<1>3. \A o \in Orgs : ~CheckSending(p, o)
  BY DEF CheckSending, Begin, ProcsTyped, SettingUp
<1>4. \A x \in removals : ~StartRemoval(p, x)
  BY DEF StartRemoval, Begin, ProcsTyped, SettingUp
<1>5. ~Return(p)
  BY ReturnTyped DEF SettingUp
<1>6. ~Store(p) /\ ~Ask(p)
  BY <1>5 DEF Store, Ask, Refused, Goto, ProcsTyped, SettingUp
<1>7. ASSUME Register(p) PROVE SettingUp(p) /\ pc[p] # "renew" /\ lock' = lock /\ ref' = ref
  BY <1>5, <1>7 DEF Register, Refused, Unanswered, SettingUp, rows
<1>8. ASSUME Remove(p) PROVE SettingUp(p) /\ pc[p] # "renew" /\ lock' = lock /\ ref' = ref
  BY <1>5, <1>8 DEF Remove, Refused, Unanswered, SettingUp, rows
<1>9. ASSUME Replace(p)
      PROVE  /\ pc[p] = "renew" /\ job[p].org \in Orgs /\ lock' = lock
             /\ ref' = [ref EXCEPT ![job[p].org] = 0]
  BY <1>5, <1>9, ReplaceIs, SendingNext
<1>10. Arrives(p) /\ pc'[p] \notin {"idle", "challenge", "verify", "address"}
  BY Arrivals DEF SettingUp
<1> QED
  BY <1>1, <1>2, <1>3, <1>4, <1>6, <1>7, <1>8, <1>9, <1>10 DEF Arrives

(* Nobody takes a lock away, but time.                                     *)
LEMMA LockKept ==
  ASSUME Typed, [Next]_vars, NEW p \in Procs, lock = p, pc[p] # "idle", Stays(p),
         Without({"race", "doubt"})'
  PROVE  lock' = p
<1> USE DEF Typed
<1>1. p # None
  BY SendingAssumption
<1>2. ASSUME NEW q \in Procs, Return(q) PROVE lock' = p
  <2>1. q # p
    BY <1>2, ReturnTyped DEF Stays
  <2> QED
    BY <1>2, <2>1 DEF Return
<1>3. ASSUME NEW q \in Procs, NEW o \in Orgs,
             AskToken(q, o) \/ Lookup(q, o) \/ CheckSending(q, o) \/ AskAddress(q, o)
      PROVE  lock' = p
  BY <1>3 DEF AskToken, Lookup, CheckSending, AskAddress
<1>4. ASSUME NEW q \in Procs, NEW o \in Orgs, Enable(q, o) \/ Disable(q, o) PROVE FALSE
  BY <1>1, <1>4 DEF Enable, Disable
<1>5. ASSUME NEW q \in Procs, NEW x \in removals, StartRemoval(q, x) PROVE lock' = p
  BY <1>5 DEF StartRemoval
<1>6. ASSUME NEW q \in Procs, \/ SaveToken(q) \/ VerifyByTxt(q) \/ SaveAddress(q) \/ Undo(q)
                              \/ ApplyCheck(q) \/ Crash(q)
      PROVE  lock' = p
  BY <1>2, <1>6 DEF SaveToken, VerifyByTxt, SaveAddress, Undo, ApplyCheck, Crash, Return
<1>7. ASSUME NEW q \in Procs, Replace(q) \/ Register(q) \/ Store(q) \/ Ask(q) \/ Remove(q)
      PROVE  lock' = p
  BY <1>2, <1>7 DEF Replace, Register, Store, Ask, Remove, Refused, Unanswered
<1>8. ASSUME NEW o \in Orgs, AutoVerify(o) \/ Drop(o) \/ Destroy(o)
      PROVE  lock' = p
  BY <1>8 DEF AutoVerify, Drop, Destroy
<1>9. ASSUME NEW t \in Tokens, Publish(t) PROVE lock' = p
  BY <1>9 DEF Publish
<1>10. ~LockExpires
  BY DEF LockExpires, Fault, Without
<1>11. SwitchProvider \/ UNCHANGED vars => lock' = p
  BY DEF SwitchProvider, vars
<1> QED
  BY <1>3, <1>4, <1>5, <1>6, <1>7, <1>8, <1>9, <1>10, <1>11, Zenon
  DEF Next, Create, Challenge, RegenerateToken, Verify, RecheckPending

(* Every step keeps AllMade.                                               *)
LEMMA AllMadeNext == Known /\ [Next]_vars => AllMade'
<1> SUFFICES ASSUME Known, [Next]_vars PROVE AllMade'
  OBVIOUS
<1> USE DEF Known, Typed
<1>1. made \in Int /\ made' \in Int /\ made <= made' /\ SendingTyped'
  BY HeldMoves, SendingNext, ProviderNext, SendingAssumption DEF ProviderTyped
<1>2. ASSUME NEW p \in Procs, pc'[p] \in {"store", "doubt", "check", "apply"}
      PROVE  job'[p].ref <= made'
  <2>1. CASE Stays(p)
    <3>1. job[p].ref \in Int /\ job[p].ref <= made /\ job'[p].ref = job[p].ref
      BY <1>2, <2>1, JobRef DEF Stays, AllMade, Refs
    <3> QED
      BY <1>1, <3>1
  <2>2. CASE ~Stays(p)
    <3>1. ASSUME pc[p] \in {"store", "check"}, job'[p].ref = job[p].ref
          PROVE  job'[p].ref \in Int /\ job'[p].ref <= made
      BY <3>1, JobRef DEF AllMade, Refs
    <3>2. ASSUME NEW o \in Orgs, job'[p].ref = ref[o]
          PROVE  job'[p].ref \in Int /\ job'[p].ref <= made
      BY <3>2 DEF AllMade, SendingTyped
    <3>3. ASSUME NEW r \in Refs, made' = (IF r > made THEN r ELSE made), job'[p].ref = r
          PROVE  job'[p].ref <= made'
      BY <1>1, <3>3 DEF Refs
    <3> QED
      BY <1>1, <1>2, <2>2, <3>1, <3>2, <3>3, RefArrival
  <2> QED
    BY <2>1, <2>2
<1>3. CASE Releases /\ Lessens
  <2>1. ASSUME NEW q \in Orgs PROVE ref'[q] <= made'
    BY <1>1, <1>3, ReleasedRefs, SendingAssumption DEF AllMade, SendingTyped, ProviderTyped
  <2>2. ASSUME NEW x \in removals' PROVE x.ref <= made'
    <3>1. x \in removals \/ \E q \in Orgs : ref[q] = x.ref
      BY <1>3, ReleasedRefs
    <3>2. x.ref <= made /\ x.ref \in Int
      BY <3>1, <1>1 DEF AllMade, SendingTyped, Removals, Refs
    <3> QED
      BY <1>1, <3>2
  <2> QED
    BY <1>2, <2>1, <2>2 DEF AllMade
<1>4. ASSUME NEW p \in Procs, Store(p) PROVE AllMade'
  <2>1. job[p].org \in Orgs /\ job[p].ref \in 0 .. MaxRefs /\ pc[p] = "store"
    BY <1>4, StoreIs, SendingAssumption DEF Refs, Store
  <2>2. job[p].ref <= made /\ ref[job[p].org] <= made /\ ref[job[p].org] \in 0 .. MaxRefs
    BY <2>1 DEF AllMade, SendingTyped
  <2>3. CASE StoreOnRow(job[p].org, job[p].ref)
    <3>1. \A x \in removals' : x \in removals \/ x.ref = ref[job[p].org]
      BY <2>2, <2>3, RecordOne DEF StoreOnRow
    <3>2. \A q \in Orgs : ref'[q] \in {ref[q], job[p].ref}
      BY <2>1, <2>3 DEF StoreOnRow, SendingTyped
    <3>3. \A x \in removals' : x.ref \in Int /\ x.ref <= made
      BY <1>1, <2>2, <3>1 DEF AllMade, SendingTyped, Removals, Refs
    <3>4. \A q \in Orgs : ref'[q] \in Int /\ ref'[q] <= made
      BY <2>1, <2>2, <3>2 DEF AllMade, SendingTyped
    <3> QED
      BY <1>1, <1>2, <3>3, <3>4 DEF AllMade
  <2>4. CASE LetGo(job[p].ref)
    <3>1. \A x \in removals' : x \in removals \/ x.ref = job[p].ref
      BY <2>1, <2>4, RecordOne DEF LetGo
    <3>2. \A x \in removals' : x.ref \in Int /\ x.ref <= made
      BY <1>1, <2>1, <2>2, <3>1 DEF AllMade, SendingTyped, Removals, Refs
    <3>3. \A q \in Orgs : ref'[q] \in Int /\ ref'[q] <= made
      BY <2>4 DEF LetGo, rows, AllMade, SendingTyped
    <3> QED
      BY <1>1, <1>2, <3>2, <3>3 DEF AllMade
  <2> QED
    BY <1>4, <2>3, <2>4, StoreIs
<1>5. ASSUME UNCHANGED ref, removals' \subseteq removals PROVE AllMade'
  <2>1. \A q \in Orgs : ref[q] \in Int /\ ref[q] <= made
    BY DEF AllMade, SendingTyped
  <2>2. \A x \in removals : x.ref \in Int /\ x.ref <= made
    BY DEF AllMade, SendingTyped, Removals, Refs
  <2> QED
    BY <1>1, <1>2, <1>5, <2>1, <2>2 DEF AllMade
<1>6. ASSUME NEW p \in Procs, ApplyCheck(p) PROVE AllMade'
  BY <1>5, <1>6, ApplyIs
<1>7. ASSUME NEW p \in Procs, Remove(p) PROVE AllMade'
  BY <1>5, <1>7, RemoveIs DEF ForgetRecord
<1>8. ASSUME NEW p \in Procs, Ask(p) PROVE AllMade'
  BY <1>5, <1>8, AskIs
<1>9. ASSUME NEW p \in Procs, Undo(p) PROVE AllMade'
  <2>1. job[p].ref \in 0 .. MaxRefs /\ job[p].ref <= made /\ Record({job[p].ref}) /\ ref' = ref
    BY <1>9, UndoIs, SendingAssumption DEF Refs, Undo, AllMade
  <2>2. \A x \in removals' : x \in removals \/ x.ref = job[p].ref
    BY <2>1, RecordOne
  <2>3. \A x \in removals' : x.ref \in Int /\ x.ref <= made
    BY <2>1, <2>2 DEF AllMade, SendingTyped, Removals, Refs
  <2>4. \A q \in Orgs : ref'[q] \in Int /\ ref'[q] <= made
    BY <2>1 DEF AllMade, SendingTyped
  <2> QED
    BY <1>1, <1>2, <2>3, <2>4 DEF AllMade
<1> QED
  BY <1>3, <1>4, <1>6, <1>7, <1>8, <1>9, RegistrationMoves DEF RegistrationSteps

(* Every step keeps Recorded.                                              *)
LEMMA RecordedNext == Known /\ [Next]_vars => Recorded'
<1> SUFFICES ASSUME Known, [Next]_vars PROVE Recorded'
  OBVIOUS
<1> USE DEF Known, Typed
<1>1. SendingTyped'
  BY SendingNext
<1>2. /\ recorded \in Int /\ recorded' \in Int
      /\ \A x \in removals : x \in Removals /\ x.id \in Int
      /\ \A x \in removals' : x \in Removals /\ x.id \in Int
  BY <1>1 DEF SendingTyped, Removals
<1>3. /\ \A x \in removals' : x.id <= recorded'
      /\ \A x, y \in removals' : x.id = y.id => x = y
      /\ recorded <= recorded'
      /\ \A x \in removals' \ removals : x.id = recorded + 1
  <2>1. CASE Adds
    <3>1. \A x, y \in Removals : x.id = y.id /\ x.ref = y.ref => x = y
      BY DEF Removals
    <3>2. ASSUME NEW x \in removals', NEW y \in removals', x.id = y.id PROVE x = y
      <4>1. CASE x \in removals /\ y \in removals
        BY <3>2, <4>1 DEF Recorded
      <4>2. CASE x \notin removals /\ y \notin removals
        BY <1>2, <2>1, <3>1, <3>2, <4>2 DEF Adds
      <4>3. ASSUME NEW z \in removals, NEW w \in removals', w \notin removals, z.id = w.id
            PROVE  FALSE
        BY <1>2, <2>1, <4>3 DEF Adds, Recorded
      <4> QED
        BY <3>2, <4>1, <4>2, <4>3
    <3>3. \A x \in removals' : x.id <= recorded'
      BY <1>2, <2>1 DEF Adds, Recorded
    <3> QED
      BY <2>1, <3>2, <3>3 DEF Adds
  <2>2. ASSUME NEW p \in Procs, Drops(p)
        PROVE  removals' \subseteq removals /\ recorded' = recorded
    BY <2>2 DEF Drops, ForgetRecord
  <2>3. CASE removals' \subseteq removals /\ recorded' = recorded
    BY <1>2, <2>3 DEF Recorded
  <2> QED
    BY <2>1, <2>2, <2>3, RecordMoves
<1>4. ASSUME NEW p \in Procs, Removing(p)'
      PROVE  /\ job'[p].id <= recorded'
             /\ \A x \in removals' : x.id = job'[p].id => x.ref = job'[p].ref
  <2>1. CASE Stays(p)
    <3>1. Removing(p) /\ job'[p] = job[p]
      BY <1>4, <2>1 DEF Stays, Removing
    <3>2. job[p].id \in Int
      BY <3>1, JobRef DEF Removing, Jobs
    <3> QED
      BY <1>2, <1>3, <3>1, <3>2 DEF Recorded
  <2>2. CASE ~Stays(p)
    BY <1>3, <1>4, <2>2, RemovingArrival
  <2> QED
    BY <2>1, <2>2
<1> QED
  BY <1>3, <1>4 DEF Recorded

(* Every step keeps Known.                                                 *)
LEMMA KnownNext == Known /\ [Next]_vars => Known'
BY TypedNext, OwnerNext, HereNext, InDoubtNext, OneRowNext, AllMadeNext, RecordedNext DEF Known

(* Nobody is in doubt of a commit that no fault befell.                    *)
LEMMA NoUndo ==
  ASSUME Known, Without({"race", "doubt"}), NEW p \in Procs
  PROVE  pc[p] # "doubt" /\ ~Undo(p)
BY DEF Known, InDoubt, Without, Undo

(* Every step keeps Alone: who sets up is under the lock, and only it      *)
(* could store.                                                            *)
LEMMA AloneNext == Known /\ Alone /\ [Next]_vars => Alone'
<1> SUFFICES ASSUME Known, Alone, [Next]_vars, Without({"race", "doubt"})', NEW p \in Procs,
                    SettingUp(p)'
             PROVE  /\ lock' = p
                    /\ \A o \in Orgs : ref'[o] = 0 \/ (pc'[p] = "renew" /\ o = job'[p].org)
  BY DEF Alone
<1> USE DEF Known
<1>1. Without({"race", "doubt"})
  BY Happens DEF Without, Typed
<1>2. CASE ~Stays(p)
  <2>1. ASSUME NEW o \in Orgs, Owns(o), lock' = p, ref' = [ref EXCEPT ![o] = 0]
        PROVE  \A q \in Orgs : ref'[q] = 0
    BY <2>1 DEF OnlyOwnerRegistered, Typed, SendingTyped
  <2>2. ASSUME NEW o \in Orgs, Owns(o), ref' = ref, job'[p].org = o
        PROVE  \A q \in Orgs : ref'[q] = 0 \/ q = job'[p].org
    BY <2>2 DEF OnlyOwnerRegistered
  <2>3. CASE pc[p] = "renew" /\ job[p].org \in Orgs /\ lock' = lock
             /\ ref' = [ref EXCEPT ![job[p].org] = 0]
    <3>1. lock = p /\ \A q \in Orgs : ref[q] = 0 \/ q = job[p].org
      BY <1>1, <2>3 DEF Alone, SettingUp
    <3> QED
      BY <2>3, <3>1 DEF Typed, SendingTyped
  <2>4. CASE SettingUp(p) /\ pc[p] # "renew" /\ lock' = lock /\ ref' = ref
    BY <1>1, <2>4 DEF Alone
  <2> QED
    BY <1>2, <2>1, <2>2, <2>3, <2>4, SettingUpArrival
<1>3. CASE Stays(p)
  <2>1. SettingUp(p) /\ pc'[p] = pc[p] /\ job'[p] = job[p]
    BY <1>3 DEF Stays, SettingUp
  <2>2. lock = p /\ \A o \in Orgs : ref[o] = 0 \/ (pc[p] = "renew" /\ o = job[p].org)
    BY <1>1, <2>1 DEF Alone
  <2>3. lock' = p
    BY <1>3, <2>1, <2>2, <1>1, LockKept DEF SettingUp, Without
  <2>4. ASSUME NEW q \in Procs, Store(q) PROVE FALSE
    <3>1. SettingUp(q) /\ pc[q] = "store"
      BY <2>4 DEF Store, SettingUp
    <3>2. q = p
      BY <1>1, <2>2, <3>1 DEF Alone
    <3>3. pc'[q] # "store"
      BY <2>4, ReturnTyped DEF Store, Goto, Typed, ProcsTyped
    <3> QED
      BY <1>3, <3>1, <3>2, <3>3 DEF Stays
  <2>5. \A o \in Orgs : ref'[o] = 0 \/ ref'[o] = ref[o]
    <3>1. CASE Releases /\ Lessens
      BY <3>1, ReleasedRefs DEF Typed
    <3>2. ASSUME NEW q \in Procs, Undo(q) \/ Ask(q) \/ ApplyCheck(q) \/ Remove(q)
          PROVE  UNCHANGED ref
      BY <3>2, UndoIs, AskIs, ApplyIs, RemoveIs
    <3> QED
      BY <2>4, <3>1, <3>2, RegistrationMoves DEF RegistrationSteps
  <2> QED
    BY <2>1, <2>2, <2>3, <2>5
<1> QED
  BY <1>2, <1>3

(* The second part of Registrations.                                       *)
Kept ==
  Without({"race", "doubt"}) =>
    \A o \in Orgs : ref[o] # 0 => ref[o] \in held /\ \A x \in removals : x.ref # ref[o]

(* The first part of Registrations.                                        *)
NobodysLost ==
  Without({"loss"}) =>
    \A r \in held :
      \/ \E o \in Orgs : ref[o] = r
      \/ \E x \in removals : x.ref = r
      \/ \E p \in Procs : pc[p] = "store" /\ job[p].ref = r

(* What holds while no set-up outlasts its lock, and no removal is tried   *)
(* again while its first try goes on.                                      *)
Undisturbed == Alone /\ OneTry /\ ToStore /\ Kept

(* Every step keeps OneTry: what a row has is in no record, so that what   *)
(* begins a removal recorded it just now, or tries a record that nobody    *)
(* removes.                                                                *)
LEMMA OneTryNext == Known /\ Undisturbed /\ [Next]_vars => OneTry'
<1> SUFFICES ASSUME Known, Undisturbed, [Next]_vars, Without({"race", "doubt"})'
             PROVE  /\ \A p, q \in Procs :
                         Removing(p)' /\ Removing(q)' /\ job'[p].id = job'[q].id => p = q
                    /\ \A p \in Procs : Removing(p)' => \E x \in removals' : x.id = job'[p].id
  BY DEF OneTry
<1> USE DEF Known, Undisturbed
<1>1. Without({"race", "doubt"})
  BY Happens DEF Without, Typed
<1>2. \A p \in Procs : Stays(p) => Removing(p)' = Removing(p) /\ job'[p] = job[p]
  BY DEF Stays, Removing
<1>3. ASSUME NEW p \in Procs, Removing(p)', ~Stays(p), NEW q \in Procs, Removing(q), Stays(q)
      PROVE  job'[p].id # job[q].id
  <2>1. PICK x \in removals' :
          /\ job'[p].id = x.id
          /\ \/ \E o \in Orgs : ref[o] = x.ref /\ ref[o] # 0
             \/ x \in removals /\ StartRemoval(p, x)
    BY <1>3, RemovingArrival
  <2>2. CASE x \notin removals
    <3>1. x.id = recorded + 1
      <4>1. \A r \in Procs : Drops(r) => removals' \subseteq removals
        BY DEF Drops, ForgetRecord
      <4> QED
        BY <2>2, <4>1, RecordMoves DEF Adds
    <3>2. job[q].id <= recorded /\ job[q].id \in Int /\ recorded \in Int
      BY <1>3, JobRef DEF Recorded, Typed, SendingTyped, Removing, Jobs
    <3> QED
      BY <2>1, <3>1, <3>2
  <2>3. CASE x \in removals
    <3>1. \A o \in Orgs : ref[o] # 0 => ref[o] # x.ref
      BY <1>1, <2>3 DEF Kept
    <3>2. StartRemoval(p, x)
      BY <2>1, <3>1
    <3>3. ~InRemoval(x)
      BY <3>2 DEF StartRemoval, FaultIf, Fault, Without
    <3> QED
      BY <1>3, <2>1, <3>3 DEF InRemoval, Removing
  <2> QED
    BY <2>2, <2>3
<1>4. ASSUME NEW p \in Procs, NEW q \in Procs, Removing(p)', Removing(q)', job'[p].id = job'[q].id
      PROVE  p = q
  <2>1. CASE Stays(p) /\ Stays(q)
    BY <1>1, <1>2, <1>4, <2>1 DEF OneTry
  <2>2. CASE ~Stays(p) /\ Stays(q)
    BY <1>2, <1>3, <1>4, <2>2
  <2>3. CASE Stays(p) /\ ~Stays(q)
    BY <1>2, <1>3, <1>4, <2>3
  <2>4. CASE ~Stays(p) /\ ~Stays(q)
    BY <2>4, Arrivals DEF Typed
  <2> QED
    BY <2>1, <2>2, <2>3, <2>4
<1>5. ASSUME NEW p \in Procs, Removing(p)' PROVE \E x \in removals' : x.id = job'[p].id
  <2>1. CASE ~Stays(p)
    BY <1>5, <2>1, RemovingArrival
  <2>2. CASE Stays(p)
    <3>1. Removing(p) /\ job'[p] = job[p]
      BY <1>2, <1>5, <2>2
    <3>2. PICK x \in removals : x.id = job[p].id
      BY <1>1, <3>1 DEF OneTry
    <3>3. ASSUME NEW q \in Procs, Drops(q) PROVE x \in removals'
      <4>1. Removing(q) /\ Remove(q)
        BY <3>3 DEF Drops, Remove, Removing
      <4>2. CASE q = p
        <5>1. ~Removing(q)'
          BY <4>1, ReturnTyped DEF Remove, Refused, Unanswered, Goto, Typed, ProcsTyped, Removing
        <5> QED
          BY <1>5, <4>2, <5>1
      <4>3. CASE q # p
        <5>1. job[q].id # job[p].id
          BY <1>1, <3>1, <4>1, <4>3 DEF OneTry
        <5> QED
          BY <3>2, <3>3, <5>1 DEF Drops, ForgetRecord
      <4> QED
        BY <4>2, <4>3
    <3>4. Adds => x \in removals'
      BY DEF Adds
    <3> QED
      BY <3>1, <3>2, <3>3, <3>4, RecordMoves
  <2> QED
    BY <2>1, <2>2
<1> QED
  BY <1>4, <1>5

(* What is removed is recorded.                                            *)
LEMMA RemovedIs ==
  ASSUME Known, Undisturbed, Without({"race", "doubt"}), NEW p \in Procs, Remove(p)
  PROVE  \E x \in removals : x.ref = job[p].ref
<1>1. Removing(p)
  BY DEF Remove, Removing
<1> QED
  BY <1>1 DEF Known, Undisturbed, OneTry, Recorded

(* Every step keeps ToStore: nothing is registered while a removal of the  *)
(* provider in use is recorded.                                            *)
LEMMA ToStoreNext == Known /\ Undisturbed /\ [Next]_vars => ToStore'
<1> SUFFICES ASSUME Known, Undisturbed, [Next]_vars, Without({"race", "doubt"})',
                    NEW p \in Procs, pc'[p] = "store"
             PROVE  job'[p].ref \in held' /\ \A x \in removals' : x.ref # job'[p].ref
  BY DEF ToStore
<1> USE DEF Known, Undisturbed, Typed
<1>1. Without({"race", "doubt"})
  BY Happens DEF Without
<1>2. CASE ~Stays(p)
  <2>1. PICK r \in OfferedNew \cup OfferedAgain :
          r \in Refs /\ ~RemovalPending /\ r \in held' /\ job'[p].ref = r /\ UNCHANGED removals
    BY <1>2, StoreArrival
  <2>2. ASSUME NEW x \in removals PROVE x.ref # r
    <3>1. by[x.ref] # configured /\ x.ref <= made /\ x.ref \in Int
      BY <2>1 DEF RemovalPending, AllMade, SendingTyped, Removals, Refs
    <3>2. r = made + 1 \/ by[r] = configured
      BY OfferedTyped
    <3> QED
      BY <3>1, <3>2, SendingAssumption DEF ProviderTyped
  <2> QED
    BY <2>1, <2>2
<1>3. CASE Stays(p)
  <2>1. pc[p] = "store" /\ job'[p] = job[p] /\ SettingUp(p)
    BY <1>3 DEF Stays, SettingUp
  <2>2. job[p].ref \in held /\ \A x \in removals : x.ref # job[p].ref
    BY <1>1, <2>1 DEF ToStore
  <2>3. lock = p /\ \A o \in Orgs : ref[o] = 0
    BY <1>1, <2>1 DEF Alone
  <2>4. \A q \in Procs : ~Undo(q)
    BY <1>1, NoUndo
  <2>5. ASSUME NEW q \in Procs, Store(q) PROVE FALSE
    <3>1. SettingUp(q)
      BY <2>5 DEF Store, SettingUp
    <3>2. q = p
      BY <1>1, <2>3, <3>1 DEF Alone
    <3>3. pc'[q] # "store"
      BY <2>5, ReturnTyped DEF Store, Goto, ProcsTyped
    <3> QED
      BY <3>2, <3>3
  <2>6. removals' \subseteq removals
    <3>1. CASE Releases /\ Lessens
      BY <2>3, <3>1, ReleasedRefs
    <3>2. ASSUME NEW q \in Procs, Ask(q) \/ ApplyCheck(q) \/ Remove(q)
          PROVE  removals' \subseteq removals
      BY <3>2, AskIs, ApplyIs, RemoveIs DEF ForgetRecord
    <3> QED
      BY <2>5, <2>4, <3>1, <3>2, RegistrationMoves DEF RegistrationSteps
  <2>7. ASSUME NEW q \in Procs, Remove(q) PROVE job[q].ref # job[p].ref
    BY <1>1, <2>2, <2>7, RemovedIs
  <2>8. job[p].ref \in held'
    BY <2>2, <2>7, HeldMoves
  <2> QED
    BY <2>1, <2>2, <2>6, <2>8
<1> QED
  BY <1>2, <1>3

(* Every step keeps Kept: what is removed was recorded, and what a row has *)
(* is not.                                                                 *)
LEMMA KeptNext == Known /\ Undisturbed /\ [Next]_vars => Kept'
<1> SUFFICES ASSUME Known, Undisturbed, [Next]_vars, Without({"race", "doubt"})',
                    NEW o \in Orgs, ref'[o] # 0
             PROVE  ref'[o] \in held' /\ \A x \in removals' : x.ref # ref'[o]
  BY DEF Kept
<1> USE DEF Known, Undisturbed, Typed
<1>1. Without({"race", "doubt"})
  BY Happens DEF Without
<1>2. ASSUME NEW r \in held, \A x \in removals : x.ref # r PROVE r \in held'
  <2>1. ASSUME NEW q \in Procs, Remove(q) PROVE job[q].ref # r
    BY <1>1, <1>2, <2>1, RemovedIs
  <2> QED
    BY <2>1, HeldMoves
<1>3. ASSUME NEW p \in Procs, Store(p)
      PROVE  ref'[o] \in held' /\ \A x \in removals' : x.ref # ref'[o]
  <2>1. pc[p] = "store" /\ job[p].org \in Orgs /\ job[p].ref \in Refs /\ UNCHANGED held
    BY <1>3, StoreIs DEF Store, provider
  <2>2. \A q \in Orgs : ref[q] = 0
    BY <1>1, <2>1 DEF Alone, SettingUp
  <2>3. job[p].ref \in held /\ \A x \in removals : x.ref # job[p].ref
    BY <1>1, <2>1 DEF ToStore
  <2>4. StoreOnRow(job[p].org, job[p].ref)
    <3>1. ~LetGo(job[p].ref)
      BY <2>2 DEF LetGo, rows
    <3> QED
      BY <1>3, <3>1, StoreIs
  <2>5. ref'[o] = job[p].ref
    BY <2>1, <2>2, <2>4 DEF StoreOnRow, SendingTyped
  <2>6. removals' \subseteq removals
    <3>1. Record({ref[job[p].org]} \ {job[p].ref})
      BY <2>4 DEF StoreOnRow
    <3>2. ref[job[p].org] = 0
      BY <2>1, <2>2
    <3>3. Record({0} \ {job[p].ref}) /\ 0 \in 0 .. MaxRefs
      BY <3>1, <3>2, SendingAssumption
    <3> QED
      BY <3>3, RecordOne
  <2> QED
    BY <2>1, <2>3, <2>5, <2>6
<1>4. ASSUME UNCHANGED ref, removals' \subseteq removals
      PROVE  ref'[o] \in held' /\ \A x \in removals' : x.ref # ref'[o]
  BY <1>1, <1>2, <1>4 DEF Kept
<1>5. CASE Releases /\ Lessens
  <2>1. ref'[o] = ref[o] /\ ref[o] \in held /\ \A x \in removals : x.ref # ref[o]
    BY <1>1, <1>5, ReleasedRefs DEF Kept
  <2>2. ref[o] \in held'
    BY <1>2, <2>1
  <2>3. ASSUME NEW x \in removals', x \notin removals PROVE x.ref # ref[o]
    <3>1. PICK q \in Orgs : ref[q] = x.ref /\ ref[q] # 0 /\ ref'[q] = 0
      BY <1>5, <2>3, ReleasedRefs
    <3>2. q # o
      BY <3>1
    <3> QED
      BY <2>1, <3>1, <3>2 DEF OneRow
  <2> QED
    BY <2>1, <2>2, <2>3
<1>6. ASSUME NEW p \in Procs, Ask(p) \/ ApplyCheck(p) \/ Remove(p)
      PROVE  UNCHANGED ref /\ removals' \subseteq removals
  BY <1>6, AskIs, ApplyIs, RemoveIs DEF ForgetRecord
<1>7. \A p \in Procs : ~Undo(p)
  BY <1>1, NoUndo
<1> QED
  BY <1>3, <1>4, <1>5, <1>6, <1>7, RegistrationMoves DEF RegistrationSteps

(* Every step keeps NobodysLost: what a row had is recorded, what was      *)
(* registered is stored or recorded, and a record is forgotten with what   *)
(* it records.                                                             *)
LEMMA LostNext == Known /\ NobodysLost /\ [Next]_vars => NobodysLost'
<1> SUFFICES ASSUME Known, NobodysLost, [Next]_vars, Without({"loss"})', NEW r \in held'
             PROVE  \/ \E o \in Orgs : ref'[o] = r
                    \/ \E x \in removals' : x.ref = r
                    \/ \E p \in Procs : pc'[p] = "store" /\ job'[p].ref = r
  BY DEF NobodysLost
<1> USE DEF Known, Typed
<1>1. Without({"loss"}) /\ "loss" \notin happened'
  BY Happens DEF Without
<1>2. CASE r \notin held
  <2>1. PICK p \in Procs : Register(p)
    BY <1>1, <1>2, HeldMoves
  <2>2. PICK n \in Refs : held' = held \cup {n} /\ Goto(p, "store", [job[p] EXCEPT !.ref = n])
    <3>1. ~Fault("loss")
      BY <1>1 DEF Fault
    <3>2. ~UNCHANGED provider
      BY <1>2 DEF provider
    <3> QED
      BY <2>1, <3>1, <3>2, RegisterIs
  <2>3. job[p] \in Jobs
    BY <2>1 DEF Register, ProcsTyped, JobHeld, JobFor
  <2>4. pc'[p] = "store" /\ job'[p] = [job[p] EXCEPT !.ref = n]
    BY <2>2, Others
  <2>5. job'[p].ref = n
    BY <2>3, <2>4 DEF Jobs
  <2> QED
    BY <1>2, <2>2, <2>4, <2>5
<1>3. ASSUME r \in held, NEW o \in Orgs, ref[o] = r
      PROVE  ref'[o] = r \/ \E x \in removals' : x.ref = r
  <2>1. r # 0 /\ r \in 0 .. MaxRefs
    BY <1>3, SendingAssumption DEF ProviderTyped, Refs
  <2>2. CASE Releases /\ Lessens
    BY <1>3, <2>1, <2>2, ReleasedRefs
  <2>3. ASSUME NEW p \in Procs, Store(p) PROVE ref'[o] = r \/ \E x \in removals' : x.ref = r
    <3>1. CASE StoreOnRow(job[p].org, job[p].ref)
      <4>1. CASE job[p].org = o
        <5>1. Record({r} \ {job[p].ref}) /\ ref' = [ref EXCEPT ![o] = job[p].ref]
          BY <1>3, <3>1, <4>1 DEF StoreOnRow
        <5>2. CASE job[p].ref = r
          BY <5>1, <5>2 DEF SendingTyped
        <5>3. CASE job[p].ref # r
          BY <2>1, <5>1, <5>3, RecordOne
        <5> QED
          BY <5>2, <5>3
      <4>2. CASE job[p].org # o
        BY <1>3, <3>1, <4>2 DEF StoreOnRow, SendingTyped
      <4> QED
        BY <4>1, <4>2
    <3>2. CASE LetGo(job[p].ref)
      BY <1>3, <3>2 DEF LetGo, rows
    <3> QED
      BY <2>3, <3>1, <3>2, StoreIs
  <2>4. ASSUME NEW p \in Procs, Undo(p) \/ Ask(p) \/ ApplyCheck(p) \/ Remove(p)
        PROVE  ref'[o] = r
    BY <1>3, <2>4, UndoIs, AskIs, ApplyIs, RemoveIs
  <2> QED
    BY <2>2, <2>3, <2>4, RegistrationMoves DEF RegistrationSteps
<1>4. ASSUME NEW x \in removals, x.ref = r PROVE x \in removals'
  <2>1. ASSUME NEW p \in Procs, Drops(p) PROVE x \in removals'
    <3>1. Removing(p) /\ job[p].ref # r
      BY <2>1 DEF Drops, Remove, Removing
    <3>2. x.id # job[p].id
      BY <1>4, <3>1 DEF Recorded
    <3> QED
      BY <2>1, <3>2 DEF Drops, ForgetRecord
  <2> QED
    BY <2>1, RecordMoves DEF Adds
<1>5. ASSUME NEW p \in Procs, pc[p] = "store", job[p].ref = r
      PROVE  \/ \E o \in Orgs : ref'[o] = r
             \/ \E x \in removals' : x.ref = r
             \/ pc'[p] = "store" /\ job'[p].ref = r
  <2>1. CASE Stays(p)
    BY <1>5, <2>1 DEF Stays
  <2>2. CASE Store(p)
    <3>1. job[p].org \in Orgs /\ r \in 0 .. MaxRefs /\ r # 0
      BY <1>5, <2>2, StoreIs, SendingAssumption DEF Refs
    <3>2. CASE StoreOnRow(job[p].org, r)
      BY <3>1, <3>2 DEF StoreOnRow, SendingTyped
    <3>3. CASE LetGo(r)
      BY <3>1, <3>3, RecordOne DEF LetGo
    <3> QED
      BY <1>5, <2>2, <3>2, <3>3, StoreIs
  <2> QED
    BY <1>1, <1>5, <2>1, <2>2, Leaves DEF ApplyCheck
<1>6. CASE r \in held
  BY <1>1, <1>3, <1>4, <1>5, <1>6 DEF NobodysLost
<1> QED
  BY <1>2, <1>6

(* Nothing is registered at first.                                         *)
LEMMA InitKnown == Init => Known /\ Undisturbed /\ NobodysLost
<1> SUFFICES ASSUME Init PROVE Known /\ Undisturbed /\ NobodysLost
  OBVIOUS
<1>1. Typed /\ OnlyOwnerRegistered
  BY InitTyped, InitOwner
<1>2. /\ ref = [o \in Orgs |-> 0] /\ made = 0 /\ removals = {} /\ held = {}
      /\ pc = [p \in Procs |-> "idle"]
  BY DEF Init
<1>3. Here /\ InDoubt /\ OneRow /\ AllMade /\ Recorded
  BY <1>2 DEF Here, InDoubt, OneRow, AllMade, Recorded, Removing
<1>4. Undisturbed /\ NobodysLost
  BY <1>2 DEF Undisturbed, Alone, OneTry, ToStore, Kept, NobodysLost, SettingUp, Removing
<1> QED
  BY <1>1, <1>3, <1>4 DEF Known

(* Every step keeps Undisturbed.                                           *)
LEMMA UndisturbedNext == Known /\ Undisturbed /\ [Next]_vars => Undisturbed'
BY AloneNext, OneTryNext, ToStoreNext, KeptNext DEF Undisturbed

(* A registration at a provider is a row's, or recorded for removal, or in *)
(* the hands of who made it; and that of a row is at the provider, and not *)
(* about to be removed. What the model calls a loss is excused from the    *)
(* first, a race or a commit in doubt from the second.                     *)
THEOREM RegistrationsCorrect == Spec => []Registrations
<1>1. Known /\ Undisturbed /\ [Next]_vars => Undisturbed'
  BY UndisturbedNext
<1>2. Kept /\ NobodysLost => Registrations
  BY DEF Kept, NobodysLost, Registrations
<1>3. Undisturbed => Kept
  BY DEF Undisturbed
<1>4. Known /\ Undisturbed /\ NobodysLost /\ [Next]_vars => (Known /\ Undisturbed /\ NobodysLost)'
  BY <1>1, KnownNext, LostNext
<1> QED
  BY <1>2, <1>3, <1>4, InitKnown, PTL DEF Spec
-----------------------------------------------------------------------------

(* What a process has in hand.                                             *)
InHand(p) == pc[p] \in {"store", "check", "apply"}

(* A registration not stored yet is no row's, and in nobody else's hands,  *)
(* where the provider gives no id again.                                   *)
Fresh ==
  configured \notin Reusing =>
    \A p \in Procs : pc[p] = "store" =>
      /\ \A o \in Orgs : ref[o] # job[p].ref
      /\ \A q \in Procs \ {p} : InHand(q) => job[q].ref # job[p].ref

(* An answer not outdated is of its row's registration; one that is is of  *)
(* one that its row has not again, where the provider gives no id again.   *)
Dated ==
  \A p \in Procs : pc[p] = "apply" =>
    /\ p \notin outdated => ref[job[p].org] = job[p].ref
    /\ p \in outdated /\ configured \notin Reusing => ref[job[p].org] # job[p].ref

(* Who found a registration good found the TXT, too.                       *)
FoundTxt ==
  \A p \in Procs : pc[p] = "apply" /\ job[p].result = "verified" => job[p].tok \in txt

(* And a row's own that was found good the provider has validated, and not *)
(* taken back.                                                             *)
FoundActive ==
  Without({"race", "doubt"}) =>
    \A p \in Procs : pc[p] = "apply" /\ job[p].result = "verified" /\ p \notin outdated =>
      job[p].ref \in active

(* What an answer's arrival does.                                          *)
LEMMA ApplyArrival ==
  ASSUME Typed, [Next]_vars, NEW p \in Procs, pc'[p] = "apply", ~Stays(p)
  PROVE  /\ pc[p] = "check" /\ job[p] \in Jobs /\ job'[p].org = job[p].org
         /\ job'[p].ref = job[p].ref /\ job'[p].tok = job[p].tok
         /\ outdated' = IF ref[job[p].org] = job[p].ref THEN outdated ELSE outdated \cup {p}
         /\ job'[p].result = "verified" => job[p].tok \in txt /\ job[p].ref \in active'
         /\ UNCHANGED <<ref, txt>>
<1>1. Ask(p)
  BY RefArrival
<1>2. ~Return(p)
  BY ReturnTyped DEF Typed
<1>3. pc[p] = "check" /\ job[p] \in Jobs /\ UNCHANGED <<ref, txt>>
  BY <1>1, JobRef DEF Ask, Typed, ownership
<1>4. PICK answer \in Answers(job[p].ref) :
        /\ Goto(p, "apply", [job[p] EXCEPT !.result = Concluded(answer, job[p].tok)])
        /\ outdated' = IF ref[job[p].org] = job[p].ref THEN outdated ELSE outdated \cup {p}
        /\ answer = "verified" => job[p].ref \in active'
  BY <1>1, <1>2 DEF Ask, Refused
<1>5. job'[p] = [job[p] EXCEPT !.result = Concluded(answer, job[p].tok)]
  BY <1>4, Others DEF Typed
<1>6. /\ job'[p].org = job[p].org /\ job'[p].ref = job[p].ref /\ job'[p].tok = job[p].tok
      /\ job'[p].result = Concluded(answer, job[p].tok)
  <2> HIDE DEF Concluded
  <2> QED
    BY <1>3, <1>5 DEF Jobs
<1>7. Concluded(answer, job[p].tok) = "verified" => answer = "verified" /\ job[p].tok \in txt
  BY DEF Concluded
<1> QED
  BY <1>3, <1>4, <1>6, <1>7

(* Who has something in hand has it of its row, or registered it.          *)
LEMMA HandArrival ==
  ASSUME Typed, [Next]_vars, NEW p \in Procs, InHand(p)', ~Stays(p), pc'[p] # "store"
  PROVE  \/ InHand(p) /\ job'[p].ref = job[p].ref
         \/ \E o \in Orgs : job'[p].ref = ref[o] /\ UNCHANGED ref
BY RefArrival DEF InHand

(* Every step keeps Fresh: what is registered is of an id given to nobody  *)
(* yet, and comes to a row, and to whom checks it, by its storing only.    *)
LEMMA FreshNext == Known /\ Fresh /\ [Next]_vars => Fresh'
<1> SUFFICES ASSUME Known, Fresh, [Next]_vars, configured' \notin Reusing,
                    NEW p \in Procs, pc'[p] = "store"
             PROVE  /\ \A o \in Orgs : ref'[o] # job'[p].ref
                    /\ \A q \in Procs \ {p} : InHand(q)' => job'[q].ref # job'[p].ref
  BY DEF Fresh
<1> USE DEF Known, Typed
<1>1. configured' = configured
  BY GivenKept
<1>2. CASE ~Stays(p)
  <2>1. PICK r \in OfferedNew \cup OfferedAgain :
          r \in Refs /\ job'[p].ref = r /\ UNCHANGED ref
    BY <1>2, StoreArrival
  <2>2. r = made + 1
    BY <1>1, <2>1 DEF OfferedNew, OfferedAgain
  <2>3. \A o \in Orgs : ref[o] # r
    BY <2>2, SendingAssumption DEF AllMade, SendingTyped, ProviderTyped
  <2>4. ASSUME NEW q \in Procs \ {p}, InHand(q)' PROVE job'[q].ref # r
    <3>1. pc[q] = pc'[q] /\ job[q] = job'[q]
      BY <1>2, Arrivals DEF Stays
    <3>2. job[q].ref <= made /\ job[q].ref \in Refs
      BY <2>4, <3>1, JobRef DEF AllMade, InHand
    <3> QED
      BY <2>2, <3>1, <3>2, SendingAssumption DEF Refs, ProviderTyped
  <2> QED
    BY <2>1, <2>3, <2>4
<1>3. CASE Stays(p)
  <2>1. pc[p] = "store" /\ job'[p] = job[p]
    BY <1>3 DEF Stays
  <2>2. /\ \A o \in Orgs : ref[o] # job[p].ref
        /\ \A q \in Procs \ {p} : InHand(q) => job[q].ref # job[p].ref
    BY <1>1, <2>1 DEF Fresh
  <2>3. job[p].ref \in Refs
    BY <2>1, JobRef
  <2>4. ASSUME NEW o \in Orgs PROVE ref'[o] # job[p].ref
    <3>1. CASE Releases /\ Lessens
      BY <2>2, <2>3, <3>1, ReleasedRefs, SendingAssumption DEF Refs
    <3>2. ASSUME NEW q \in Procs, Store(q) PROVE ref'[o] # job[p].ref
      <4>1. q # p
        <5>1. pc'[q] # "store"
          BY <3>2, ReturnTyped, Others DEF Store
        <5> QED
          BY <5>1
      <4>2. job[q].ref # job[p].ref /\ job[q].org \in Orgs
        BY <2>2, <3>2, <4>1, StoreIs DEF InHand, Store
      <4> QED
        BY <2>2, <3>2, <4>2, StoreIs DEF StoreOnRow, LetGo, rows, SendingTyped
    <3>3. ASSUME NEW q \in Procs, Undo(q) \/ Ask(q) \/ ApplyCheck(q) \/ Remove(q)
          PROVE  UNCHANGED ref
      BY <3>3, UndoIs, AskIs, ApplyIs, RemoveIs
    <3> QED
      BY <2>2, <3>1, <3>2, <3>3, RegistrationMoves DEF RegistrationSteps
  <2>5. ASSUME NEW q \in Procs \ {p}, InHand(q)' PROVE job'[q].ref # job[p].ref
    <3>1. CASE Stays(q)
      BY <2>2, <2>5, <3>1 DEF Stays, InHand
    <3>2. CASE ~Stays(q) /\ pc'[q] = "store"
      <4>1. PICK r \in OfferedNew \cup OfferedAgain : r \in Refs /\ job'[q].ref = r
        BY <3>2, StoreArrival
      <4>2. r = made + 1
        BY <1>1, <4>1 DEF OfferedNew, OfferedAgain
      <4>3. job[p].ref <= made
        BY <2>1 DEF AllMade
      <4> QED
        BY <2>3, <4>1, <4>2, <4>3, SendingAssumption DEF Refs, ProviderTyped
    <3>3. CASE ~Stays(q) /\ pc'[q] # "store"
      BY <2>2, <2>5, <3>3, HandArrival
    <3> QED
      BY <3>1, <3>2, <3>3
  <2> QED
    BY <2>1, <2>4, <2>5
<1> QED
  BY <1>2, <1>3

(* An answer that waits to be applied is outdated when its row lets go of  *)
(* what it had, for nothing, or for what is stored.                        *)
LEMMA DatedMoves ==
  ASSUME Typed, [Next]_vars, NEW p \in Procs, pc[p] = "apply", Stays(p)
  PROVE  /\ p \in outdated => p \in outdated'
         /\ ref'[job[p].org] # ref[job[p].org] => p \in outdated'
         /\ p \notin outdated /\ p \in outdated' =>
              \/ ref'[job[p].org] = 0
              \/ \E q \in Procs : Store(q) /\ ref'[job[p].org] = job[q].ref
         /\ ref'[job[p].org] \in {ref[job[p].org], 0} \/
              \E q \in Procs : Store(q) /\ ref'[job[p].org] = job[q].ref
<1> USE DEF Typed
<1>1. job[p].org \in Orgs
  BY DEF ProcsTyped, JobHeld, JobFor
<1>2. CASE Releases /\ Lessens
  <2>1. PICK O \in SUBSET Orgs : /\ Outdate(O)
                                /\ ref' = [q \in Orgs |-> IF q \in O THEN 0 ELSE ref[q]]
    BY <1>2 DEF Releases
  <2>2. ref'[job[p].org] = IF job[p].org \in O THEN 0 ELSE ref[job[p].org]
    BY <1>1, <2>1
  <2>3. /\ p \in outdated => p \in outdated'
        /\ job[p].org \in O => p \in outdated'
        /\ p \notin outdated /\ p \in outdated' => job[p].org \in O
    BY <2>1 DEF Outdate
  <2> QED
    BY <2>2, <2>3
<1>3. ASSUME NEW q \in Procs, Store(q)
      PROVE  /\ p \in outdated => p \in outdated'
             /\ ref'[job[p].org] # ref[job[p].org] => p \in outdated'
             /\ p \notin outdated /\ p \in outdated' => ref'[job[p].org] = job[q].ref
             /\ ref'[job[p].org] \in {ref[job[p].org], job[q].ref}
  <2>1. CASE StoreOnRow(job[q].org, job[q].ref)
    <3> DEFINE o == job[q].org
    <3>1. /\ ref' = [ref EXCEPT ![o] = job[q].ref] /\ o \in Orgs
          /\ Outdate(IF ref[o] = job[q].ref THEN {} ELSE {o})
      BY <1>3, <2>1, StoreIs DEF StoreOnRow
    <3>2. CASE ref[o] = job[q].ref
      <4>1. outdated' = outdated
        BY <3>1, <3>2 DEF Outdate
      <4> QED
        BY <1>1, <3>1, <3>2, <4>1 DEF SendingTyped
    <3>3. CASE ref[o] # job[q].ref
      <4>1. outdated' = outdated \cup {x \in Procs : pc[x] = "apply" /\ job[x].org \in {o}}
        BY <3>1, <3>3 DEF Outdate
      <4> HIDE DEF o
      <4> QED
        BY <1>1, <3>1, <4>1 DEF SendingTyped
    <3> QED
      BY <3>2, <3>3
  <2>2. CASE LetGo(job[q].ref)
    BY <2>2 DEF LetGo, rows
  <2> QED
    BY <1>3, <2>1, <2>2, StoreIs
<1>4. ASSUME NEW q \in Procs, Undo(q) \/ Remove(q) PROVE UNCHANGED <<ref, outdated>>
  BY <1>4, UndoIs, RemoveIs DEF Remove, rows
<1>5. ASSUME NEW q \in Procs, Ask(q)
      PROVE  ref' = ref /\ (p \in outdated <=> p \in outdated')
  <2>1. q # p
    BY <1>5 DEF Ask
  <2> QED
    BY <1>5, <2>1 DEF Ask
<1>6. ASSUME NEW q \in Procs, ApplyCheck(q)
      PROVE  ref' = ref /\ (p \in outdated <=> p \in outdated')
  <2>1. q # p
    BY <1>6, ReturnTyped DEF ApplyCheck, Stays
  <2> QED
    BY <1>6, <2>1 DEF ApplyCheck
<1>7. CASE ref' = ref /\ (p \in outdated <=> p \in outdated')
  BY <1>7
<1>8. CASE \E q \in Procs : Store(q)
  BY <1>3, <1>8
<1> QED
  BY <1>2, <1>4, <1>5, <1>6, <1>7, <1>8, RegistrationMoves DEF RegistrationSteps

(* Every step keeps Dated.                                                 *)
LEMMA DatedNext == Known /\ Fresh /\ Dated /\ [Next]_vars => Dated'
<1> SUFFICES ASSUME Known, Fresh, Dated, [Next]_vars, NEW p \in Procs, pc'[p] = "apply"
             PROVE  /\ p \notin outdated' => ref'[job'[p].org] = job'[p].ref
                    /\ p \in outdated' /\ configured' \notin Reusing =>
                         ref'[job'[p].org] # job'[p].ref
  BY DEF Dated
<1> USE DEF Known
<1>1. CASE ~Stays(p)
  <2>1. /\ pc[p] = "check" /\ job'[p].org = job[p].org /\ job'[p].ref = job[p].ref
        /\ outdated' = IF ref[job[p].org] = job[p].ref THEN outdated ELSE outdated \cup {p}
        /\ ref' = ref
    BY <1>1, ApplyArrival
  <2>2. p \notin outdated
    BY <2>1 DEF Typed, OutdatedTyped
  <2> QED
    BY <2>1, <2>2
<1>2. CASE Stays(p)
  <2>1. pc[p] = "apply" /\ job'[p] = job[p] /\ job[p].ref \in Refs
    BY <1>2, JobRef DEF Stays, Typed
  <2>2. ASSUME p \notin outdated' PROVE ref'[job[p].org] = job[p].ref
    BY <1>2, <2>1, <2>2, DatedMoves DEF Dated
  <2>3. ASSUME p \in outdated', configured' \notin Reusing PROVE ref'[job[p].org] # job[p].ref
    <3>1. configured' = configured
      BY <2>1, GivenKept
    <3>2. job[p].ref # 0
      BY <2>1, SendingAssumption DEF Refs
    <3>3. ASSUME NEW q \in Procs, Store(q) PROVE job[q].ref # job[p].ref
      BY <2>1, <2>3, <3>1, <3>3 DEF Fresh, InHand, Store
    <3>4. CASE p \in outdated
      <4>1. ref[job[p].org] # job[p].ref
        BY <2>1, <2>3, <3>1, <3>4 DEF Dated
      <4> QED
        BY <1>2, <2>1, <3>2, <3>3, <4>1, DatedMoves
    <3>5. CASE p \notin outdated
      BY <1>2, <2>1, <2>3, <3>2, <3>3, <3>5, DatedMoves
    <3> QED
      BY <3>4, <3>5
  <2> QED
    BY <2>1, <2>2, <2>3
<1> QED
  BY <1>1, <1>2

(* A TXT stays published.                                                  *)
LEMMA TxtStays == ASSUME Typed, [Next]_vars PROVE txt \subseteq txt'
<1>1. ASSUME NEW o \in Orgs, AutoVerify(o) \/ Destroy(o) PROVE txt' = txt
  BY <1>1 DEF AutoVerify, Verified, Destroy
<1>2. ASSUME NEW p \in Procs, SaveToken(p) \/ VerifyByTxt(p) \/ SaveAddress(p) PROVE txt' = txt
  BY <1>2 DEF SaveToken, VerifyByTxt, Verified, SaveAddress, ownership
<1>3. ASSUME NEW p \in Procs, NEW o \in Orgs, Enable(p, o) PROVE txt' = txt
  BY <1>3 DEF Enable
<1>4. ASSUME NEW t \in Tokens, Publish(t) PROVE txt \subseteq txt'
  BY <1>4 DEF Publish
<1>5. UNCHANGED ownership => txt' = txt
  BY DEF ownership
<1> QED
  BY <1>1, <1>2, <1>3, <1>4, <1>5, OwnershipMoves DEF OwnershipSteps

(* Every step keeps FoundTxt.                                              *)
LEMMA TxtNext == Known /\ FoundTxt /\ [Next]_vars => FoundTxt'
<1> SUFFICES ASSUME Known, FoundTxt, [Next]_vars, NEW p \in Procs, pc'[p] = "apply",
                    job'[p].result = "verified"
             PROVE  job'[p].tok \in txt'
  BY DEF FoundTxt
<1>1. txt \subseteq txt'
  BY TxtStays DEF Known
<1>2. CASE Stays(p)
  BY <1>1, <1>2 DEF Stays, FoundTxt
<1>3. CASE ~Stays(p)
  BY <1>1, <1>3, ApplyArrival DEF Known
<1> QED
  BY <1>2, <1>3

(* The providers take back only what they are asked to remove.             *)
LEMMA ActiveMoves ==
  ASSUME Typed, [Next]_vars, NEW r \in active
  PROVE  r \in active' \/ \E p \in Procs : Remove(p) /\ job[p].ref = r
<1>1. CASE UNCHANGED provider
  BY <1>1 DEF provider
<1>2. CASE SwitchProvider
  BY <1>2 DEF SwitchProvider
<1>3. ASSUME NEW p \in Procs, Register(p) PROVE r \in active'
  BY <1>3, RegisterIs DEF provider
<1>4. ASSUME NEW p \in Procs, Ask(p) PROVE r \in active'
  BY <1>4 DEF Ask
<1>5. ASSUME NEW p \in Procs, Remove(p) PROVE r \in active' \/ job[p].ref = r
  BY <1>5 DEF Remove, RemoveHeld, provider
<1> QED
  BY <1>1, <1>2, <1>3, <1>4, <1>5, ProviderMoves DEF ProviderSteps

(* Every step keeps FoundActive: what is removed is recorded, and no row's *)
(* own is.                                                                 *)
LEMMA ActiveNext ==
  Known /\ Undisturbed /\ Dated /\ FoundActive /\ [Next]_vars => FoundActive'
<1> SUFFICES ASSUME Known, Undisturbed, Dated, FoundActive, [Next]_vars,
                    Without({"race", "doubt"})', NEW p \in Procs, pc'[p] = "apply",
                    job'[p].result = "verified", p \notin outdated'
             PROVE  job'[p].ref \in active'
  BY DEF FoundActive
<1> USE DEF Known
<1>1. Without({"race", "doubt"})
  BY Happens DEF Without, Typed
<1>2. CASE ~Stays(p)
  BY <1>2, ApplyArrival
<1>3. CASE Stays(p)
  <2>1. pc[p] = "apply" /\ job'[p] = job[p] /\ job[p].org \in Orgs /\ job[p].ref \in Refs
    BY <1>3, JobRef DEF Stays, Typed, ProcsTyped, JobHeld, JobFor
  <2>2. p \notin outdated
    BY <1>3, <2>1, DatedMoves
  <2>3. job[p].ref \in active /\ ref[job[p].org] = job[p].ref
    BY <1>1, <2>1, <2>2 DEF FoundActive, Dated
  <2>4. \A x \in removals : x.ref # job[p].ref
    BY <1>1, <2>1, <2>3, SendingAssumption DEF Undisturbed, Kept, Refs
  <2>5. ASSUME NEW q \in Procs, Remove(q) PROVE job[q].ref # job[p].ref
    BY <1>1, <2>4, <2>5, RemovedIs
  <2> QED
    BY <2>1, <2>3, <2>5, ActiveMoves
<1> QED
  BY <1>2, <1>3

(* What SendersProved asks of a step.                                      *)
SenderStep ==
  \A o \in Orgs : BecomesGood(o) =>
    /\ Sendable(o)'
    /\ \E p \in Procs :
         /\ Concludes(p, o)
         /\ job[p].result = "verified" /\ job[p].tok \in txt
         /\ p \in outdated => configured \in Reusing
         /\ p \notin outdated /\ Without({"race", "doubt"}) => ref[o] \in active

(* Every step is such: only ApplyCheck makes a row good, of the            *)
(* registration that was checked, that the row still has, and of the       *)
(* provider in use.                                                        *)
LEMMA SenderNext ==
  Known /\ Dated /\ FoundTxt /\ FoundActive /\ [Next]_vars => SenderStep
<1> SUFFICES ASSUME Known, Dated, FoundTxt, FoundActive, [Next]_vars, NEW o \in Orgs,
                    sending[o] # "verified", sending'[o] = "verified"
             PROVE  /\ Sendable(o)'
                    /\ \E p \in Procs :
                         /\ Concludes(p, o)
                         /\ job[p].result = "verified" /\ job[p].tok \in txt
                         /\ p \in outdated => configured \in Reusing
                         /\ p \notin outdated /\ Without({"race", "doubt"}) => ref[o] \in active
  BY DEF SenderStep, BecomesGood
<1> USE DEF Known
<1>1. ~(Releases /\ Lessens)
  BY DEF Lessens
<1>2. ASSUME NEW p \in Procs, Store(p) PROVE FALSE
  BY <1>2, StoreIs DEF StoreOnRow, LetGo, rows, Typed, SendingTyped
<1>3. ASSUME NEW p \in Procs, Undo(p) \/ Ask(p) \/ Remove(p) PROVE FALSE
  BY <1>3, UndoIs, AskIs, RemoveIs
<1>4. PICK p \in Procs : ApplyCheck(p)
  BY <1>1, <1>2, <1>3, RegistrationMoves DEF RegistrationSteps
<1>5. o = job[p].org /\ Current(o, job[p].ref) /\ job[p].ref \in Refs /\ UNCHANGED ref
  BY <1>4, ApplyIs
<1>6. pc[p] = "apply" /\ pc'[p] = "idle"
  BY <1>4, ReturnTyped DEF ApplyCheck, Typed
<1>7. UNCHANGED <<own, configured, by>>
  BY <1>4 DEF ApplyCheck, ownership, provider
<1>8. job[p].result = "verified"
  <2>1. PICK st \in NextStatus(sending[o], job[p].result) : sending' = [sending EXCEPT ![o] = st]
    BY <1>4, <1>5 DEF ApplyCheck
  <2>2. st = "verified"
    BY <2>1 DEF Typed, SendingTyped
  <2> QED
    BY <2>1, <2>2 DEF NextStatus
<1>9. Sendable(o)'
  <2>1. own[o] = "verified" /\ ref[o] = job[p].ref
    BY <1>5 DEF Current, Owns
  <2>2. by[ref[o]] = configured /\ ref[o] # 0
    BY <1>5, <1>6, <2>1, SendingAssumption DEF Here, Refs
  <2> QED
    BY <1>5, <1>7, <2>1, <2>2 DEF Sendable, Owns, Switched
<1>10. ref[o] = job[p].ref
  BY <1>5 DEF Current
<1> QED
  BY <1>5, <1>6, <1>8, <1>9, <1>10 DEF Concludes, Dated, FoundTxt, FoundActive

(* An organization's mail goes out from the domain only once a check found *)
(* the row's own registration good, and the TXT published: one the         *)
(* provider validated and did not take back, and not one let go of since,  *)
(* but as SendersProved says.                                              *)
THEOREM SendersProvedCorrect == Spec => SendersProved
<1> DEFINE Inv == /\ Known /\ Undisturbed
                  /\ Fresh /\ Dated /\ FoundTxt /\ FoundActive
<1>1. Init => Inv
  <2>1. Init => Fresh /\ Dated /\ FoundTxt /\ FoundActive
    BY DEF Init, Fresh, Dated, FoundTxt, FoundActive
  <2> QED
    BY <2>1, InitKnown
<1>2. Inv /\ [Next]_vars => Inv' /\ SenderStep
  BY KnownNext, UndisturbedNext, FreshNext, DatedNext, TxtNext, ActiveNext, SenderNext
<1> QED
  BY <1>1, <1>2, PTL DEF Spec, SendersProved, SenderStep
=============================================================================
