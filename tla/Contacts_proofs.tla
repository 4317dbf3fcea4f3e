-------------------------- MODULE Contacts_proofs --------------------------
(***************************************************************************)
(* Proofs about the contacts, their sessions and their tickets, for any    *)
(* addresses, sessions, requests and bounds: the types and the database's  *)
(* constraints, what a proof of an address opens, what is shown as proved, *)
(* what an erasure leaves, where messages go, and what absorbing and       *)
(* linking never lose.                                                     *)
(***************************************************************************)
EXTENDS Contacts, WellFoundedInduction, TLAPS

(* Some natural number of a set is the least: < is well founded.           *)
LEMMA LeastExists ==
  ASSUME NEW T \in SUBSET Nat, T # {}
  PROVE  \E x \in T : \A y \in T : x <= y
<1>1. PICK R : IsWellFoundedOn(R, Nat) /\ \A x, y \in Nat : <<x, y>> \in R <=> x < y
  <2>1. IsWellFoundedOn(OpToRel(<, Nat), Nat)
    BY NatLessThanWellFounded
  <2>2. \A x, y \in Nat : <<x, y>> \in OpToRel(<, Nat) <=> x < y
    BY DEF OpToRel
  <2> QED
    BY <2>1, <2>2, Zenon
<1>2. PICK x \in T : \A y \in T : <<y, x>> \notin R
  <2>1. T \subseteq Nat
    OBVIOUS
  <2>2. IsWellFoundedOn(R, Nat)
    BY <1>1
  <2> QED
    BY <2>1, <2>2, WFMin
<1>3. \A y \in T : ~(y < x)
  BY <1>1, <1>2
<1> QED
  BY <1>3

(* FirstOf is of the set.                                                  *)
LEMMA FirstIsIn == ASSUME NEW S \in SUBSET Nat, S # {} PROVE FirstOf(S) \in S
<1>1. \E c \in S : \A d \in S : c <= d
  BY LeastExists
<1> QED
  BY <1>1 DEF FirstOf

(* The ticket opened next is none of those open.                           *)
LEMMA NextIsFree ==
  ASSUME Open # Tickets
  PROVE  NextTicket \in Tickets /\ ticket[NextTicket] = None
<1>1. Tickets \ Open # {} /\ Tickets \ Open \in SUBSET Nat
  BY ContactsAssumption DEF Open, Tickets
<1>2. \E t \in Tickets \ Open : \A u \in Tickets \ Open : t <= u
  BY <1>1, LeastExists
<1>3. NextTicket \in Tickets \ Open
  BY <1>2 DEF NextTicket
<1> QED
  BY <1>3 DEF Open

(* Only a live contact has an id, an address, or a verified one.           *)
Blank(row) == row.email = None /\ ~row.ext /\ ~row.verified
OnlyLiveHold == \A c \in Ids : contact[c].state # "live" => Blank(contact[c])

(* What a request has loaded at each of its steps.                         *)
JobHeld ==
  \A p \in Procs : pc[p] # "idle" =>
    /\ job[p] \in Jobs
    /\ pc[p] \in {"save", "link", "move", "open", "write"} => job[p].session \in Sessions
    /\ pc[p] = "move" => job[p].from \in Sessions
    /\ pc[p] \in {"write", "post", "form", "attach"} => job[p].ticket \in Open
    /\ pc[p] = "form" => job[p].email \in Addrs
    /\ pc[p] = "backfill" =>
         /\ job[p].ticket # 0 => job[p].ticket \in Open
         /\ job[p].contact # 0 => contact[job[p].contact].state # "unborn"

Typed == TypeOK /\ OnlyLiveHold /\ JobHeld

(* The contacts' part of the types.                                        *)
Unique ==
  \A c, d \in Ids :
    c # d => /\ contact[c].ext => ~contact[d].ext
             /\ contact[c].email # None => contact[c].email # contact[d].email

ContactsTyped == contact \in [Ids -> Contacts] /\ Unique /\ OnlyLiveHold

-----------------------------------------------------------------------------

(* The contacts                                                            *)

(* There are none at first.                                                *)
LEMMA InitContacts == Init => ContactsTyped
<1> SUFFICES ASSUME Init PROVE ContactsTyped
  OBVIOUS
<1>1. \A c \in Ids : contact[c] = NoContact
  BY DEF Init
<1>2. NoContact \in Contacts /\ Blank(NoContact)
  BY DEF NoContact, Contacts, Emails, Blank
<1>3. contact \in [Ids -> Contacts]
  BY <1>2 DEF Init
<1> QED
  BY <1>1, <1>2, <1>3, Zenon DEF ContactsTyped, Unique, OnlyLiveHold, Blank

(* A contact made empty: merged, deleted or erased.                        *)
Emptied(k) == [NoContact EXCEPT !.state = k]
Kinds == {"merged", "deleted", "erased"}

(* What Removed leaves of a contact: a row of the type that holds nothing. *)
LEMMA EmptiedIs ==
  ASSUME NEW k \in Kinds
  PROVE  Emptied(k) \in Contacts /\ Emptied(k).state = k /\ Blank(Emptied(k))
  BY DEF Emptied, Kinds, NoContact, Contacts, Emails, Blank

(* A row that contact c may have, those of E being absorbed by it.         *)
Fits(c, row, E) ==
  /\ row \in Contacts /\ row.state = "live" /\ contact[c].state \in {"live", "unborn"}
  /\ c \in Ids \ E /\ E \subseteq Live
  /\ \A d \in Ids \ (E \cup {c}) :
       /\ row.ext => ~contact[d].ext
       /\ row.email # None => contact[d].email # row.email

(* What a step may do of the contacts: it empties some, or gives one a     *)
(* row, that may absorb others.                                            *)
Empties(E, k) ==
  contact' = [d \in Ids |-> IF d \in E THEN Emptied(k) ELSE contact[d]]
Gives(c, row, E) ==
  contact' = [d \in Ids |-> IF d = c THEN row ELSE IF d \in E THEN Emptied("merged")
                            ELSE contact[d]]

(* Contacts emptied keep the constraints.                                  *)
LEMMA EmptiesTyped ==
  ASSUME ContactsTyped, NEW E, NEW k \in Kinds, Empties(E, k)
  PROVE  ContactsTyped'
<1>1. Emptied(k) \in Contacts /\ Emptied(k).state = k /\ Blank(Emptied(k))
  BY EmptiedIs
<1>2. \A d \in Ids : contact'[d] = IF d \in E THEN Emptied(k) ELSE contact[d]
  BY DEF Empties
<1>3. contact' \in [Ids -> Contacts]
  BY <1>1 DEF Empties, ContactsTyped
<1>4. Unique'
  BY <1>1, <1>2, Zenon DEF ContactsTyped, Unique, Blank
<1>5. OnlyLiveHold'
  BY <1>1, <1>2, Zenon DEF ContactsTyped, OnlyLiveHold
<1> QED
  BY <1>3, <1>4, <1>5 DEF ContactsTyped

(* And so does a row that fits.                                            *)
LEMMA GivesTyped ==
  ASSUME ContactsTyped, NEW c, NEW row, NEW E, Fits(c, row, E), Gives(c, row, E)
  PROVE  ContactsTyped'
<1>1. /\ Emptied("merged") \in Contacts /\ Emptied("merged").state = "merged"
      /\ Blank(Emptied("merged"))
  BY EmptiedIs DEF Kinds
<1>2. \A d \in Ids : contact'[d] = IF d = c THEN row
                                  ELSE IF d \in E THEN Emptied("merged") ELSE contact[d]
  BY DEF Gives
<1>3. contact' \in [Ids -> Contacts]
  BY <1>1 DEF Gives, ContactsTyped, Fits
<1>4. ASSUME NEW d \in Ids, NEW f \in Ids, d # f
      PROVE  /\ contact'[d].ext => ~contact'[f].ext
             /\ contact'[d].email # None => contact'[d].email # contact'[f].email
  <2>1. CASE d \in E /\ d # c
    BY <1>1, <1>2, <2>1, Zenon DEF Blank
  <2>2. CASE f \in E /\ f # c
    BY <1>1, <1>2, <2>2, Zenon DEF Blank
  <2>3. CASE d = c /\ f \notin E
    BY <1>2, <1>4, <2>3, Zenon DEF Fits
  <2>4. CASE f = c /\ d \notin E
    BY <1>2, <1>4, <2>4, Zenon DEF Fits
  <2>5. CASE d \notin E \cup {c} /\ f \notin E \cup {c}
    BY <1>2, <1>4, <2>5, Zenon DEF ContactsTyped, Unique
  <2> QED
    BY <1>4, <2>1, <2>2, <2>3, <2>4, <2>5
<1>5. Unique'
  BY <1>4, Zenon DEF Unique
<1>6. OnlyLiveHold'
  BY <1>1, <1>2, Zenon DEF ContactsTyped, OnlyLiveHold, Fits
<1> QED
  BY <1>3, <1>5, <1>6 DEF ContactsTyped

(* Who holds an address, or the id, is live, and holds it alone.           *)
LEMMA HoldersAre ==
  ASSUME ContactsTyped, NEW e
  PROVE  /\ Holders(e) \subseteq Live /\ EmailOnly(e) \subseteq Holders(e)
         /\ \A c, d \in Holders(e) : c = d
         /\ Holders(e) = {} /\ e # None => \A d \in Ids : contact[d].email # e
         /\ TheUsers \subseteq Live /\ \A c, d \in TheUsers : c = d
         /\ Live \in SUBSET Nat /\ Unborn \in SUBSET Nat /\ Live \cup Unborn \subseteq Ids
<1>1. Holders(e) \subseteq Live /\ EmailOnly(e) \subseteq Holders(e)
  BY DEF Holders, EmailOnly
<1>2. \A c, d \in Holders(e) : c = d
  BY DEF Holders, Live, ContactsTyped, Unique
<1>3. e # None => \A d \in Ids : contact[d].email = e => d \in Holders(e)
  BY DEF Holders, Live, ContactsTyped, OnlyLiveHold, Blank
<1>4. TheUsers \subseteq Live
  BY Zenon DEF TheUsers, Live, ContactsTyped, OnlyLiveHold, Blank
<1>5. \A c, d \in TheUsers : c = d
  BY Zenon DEF TheUsers, ContactsTyped, Unique
<1>6. /\ Live \in SUBSET Nat /\ Unborn \in SUBSET Nat /\ Live \cup Unborn \subseteq Ids
  BY ContactsAssumption DEF Live, Unborn, Ids
<1> QED
  BY <1>1, <1>2, <1>3, <1>4, <1>5, <1>6

(* The contact that a link goes to: one found, or a new one.               *)
Target(user, e, proved, c) ==
  \/ c \in Found(user, e, proved)
  \/ Found(user, e, proved) = {} /\ c \in Unborn

(* What a link makes of its contact fits: the id and the address are given *)
(* to whoever has them, or absorbs who has, or to nobody.                  *)
LEMMA LinkFits ==
  ASSUME ContactsTyped, NEW user \in BOOLEAN, NEW proved \in BOOLEAN, NEW e \in Emails, NEW c,
         Target(user, e, proved, c), user \/ e # None
  PROVE  Fits(c, Linked(user, c, e, proved), Absorbed(user, c, e, proved))
<1> DEFINE row == Linked(user, c, e, proved)
           E == Absorbed(user, c, e, proved)
<1>1. c \in Ids /\ contact[c].state \in {"live", "unborn"}
  <2>1. Found(user, e, proved) \subseteq Live
    BY HoldersAre DEF Found
  <2> QED
    BY <2>1 DEF Target, Live, Unborn
<1>2. contact[c] \in Contacts
  BY <1>1 DEF ContactsTyped
<1>3. row.email \in {None, contact[c].email, e}
  BY DEF Linked
<1>4. row \in Contacts
  <2>1. row.email \in Emails
    BY <1>2, <1>3 DEF Contacts, Emails
  <2>2. contact[c].ext \in BOOLEAN /\ contact[c].verified \in BOOLEAN
    BY <1>2 DEF Contacts
  <2>3. row.ext \in BOOLEAN /\ row.verified \in BOOLEAN
    BY <2>2 DEF Linked
  <2>4. row = [state |-> "live", ext |-> row.ext, email |-> row.email,
               verified |-> row.verified]
    BY DEF Linked
  <2> HIDE DEF row
  <2> QED
    BY <2>1, <2>3, <2>4 DEF Contacts
<1>5. row.state = "live" /\ (row.ext <=> contact[c].ext \/ user)
  BY DEF Linked
<1>6. E \subseteq Live /\ c \notin E
  BY HoldersAre DEF Absorbed
<1>7. ASSUME NEW d \in Ids, d # c, row.ext PROVE ~contact[d].ext
  <2>1. CASE contact[c].ext
    BY <1>1, <1>7, <2>1, Zenon DEF ContactsTyped, Unique
  <2>2. CASE user /\ ~contact[c].ext
    <3>1. c \notin TheUsers
      BY <2>2 DEF TheUsers
    <3>2. TheUsers = {}
      BY <2>2, <3>1, Zenon DEF Target, Found
    <3> QED
      BY <3>2 DEF TheUsers
  <2> QED
    BY <1>5, <1>7, <2>1, <2>2
<1>8. ASSUME NEW d \in Ids, d # c, d \notin E, row.email # None
      PROVE  contact[d].email # row.email
  <2>1. CASE row.email = contact[c].email
    BY <1>1, <1>8, <2>1 DEF ContactsTyped, Unique
  <2>2. CASE row.email = e /\ row.email # contact[c].email
    <3>1. SUFFICES d \notin Holders(e)
      BY <1>8, <2>2 DEF Holders, Live, ContactsTyped, OnlyLiveHold, Blank
    <3>2. c \notin Holders(e)
      BY <2>2 DEF Holders
    <3>3. CASE ~user
      BY <3>2, <3>3 DEF Target, Found
    <3>4. CASE user
      <4>1. proved /\ contact[c].email = None /\ Holders(e) = EmailOnly(e)
        BY <1>8, <2>2, <3>4, Zenon DEF Linked
      <4>2. E = Holders(e)
        BY <3>2, <3>4, <4>1 DEF Absorbed
      <4> QED
        BY <1>8, <4>2
    <3> QED
      BY <3>3, <3>4
  <2> QED
    BY <1>3, <1>8, <2>1, <2>2
<1> QED
  BY <1>1, <1>4, <1>5, <1>6, <1>7, <1>8, Zenon DEF Fits

(* Who declares an address: its contact, or a new one.                     *)
LEMMA DeclareGives ==
  ASSUME ContactsTyped, NEW e \in Addrs, ContactFor(e) # {},
         Declare(FirstOf(ContactFor(e)), e)
  PROVE  \E c \in ContactFor(e) : \E row :
           /\ c = FirstOf(ContactFor(e)) /\ Fits(c, row, {}) /\ Gives(c, row, {})
           /\ row.verified => contact[c].verified /\ contact[c].email = e
           /\ row.email = e /\ (row.ext <=> contact[c].ext)
<1> DEFINE c == FirstOf(ContactFor(e))
           row == [contact[c] EXCEPT !.state = "live", !.email = e]
<1>1. c \in ContactFor(e)
  <2>1. ContactFor(e) \in SUBSET Nat
    BY HoldersAre DEF ContactFor
  <2> QED
    BY <2>1, FirstIsIn
<1>2. c \in Ids /\ contact[c].state \in {"live", "unborn"} /\ contact[c] \in Contacts
  <2>1. c \in Live \cup Unborn
    BY <1>1, HoldersAre DEF ContactFor
  <2> QED
    BY <2>1 DEF Live, Unborn, ContactsTyped
<1>3. /\ row \in Contacts /\ row.state = "live" /\ row.email = e /\ row.ext = contact[c].ext
      /\ row.verified = contact[c].verified
  BY <1>2 DEF Contacts, Emails
<1>4. contact' = [contact EXCEPT ![c] = row]
  BY DEF Declare
<1>5. Gives(c, row, {})
  BY <1>4 DEF Gives, ContactsTyped
<1>6. e # None
  BY ContactsAssumption
<1> HIDE DEF c, row
<1>7. ASSUME NEW d \in Ids, d # c PROVE contact[c].ext => ~contact[d].ext
  BY <1>2, <1>7, Zenon DEF ContactsTyped, Unique
<1>8. ASSUME NEW d \in Ids, d # c PROVE contact[d].email # e
  <2>1. CASE Holders(e) = {}
    BY <1>6, <2>1, HoldersAre
  <2>2. CASE Holders(e) # {}
    <3>1. c \in Holders(e)
      BY <1>1, <2>2 DEF ContactFor
    <3> QED
      BY <1>2, <1>6, <1>8, <3>1, Zenon DEF Holders, ContactsTyped, Unique
  <2> QED
    BY <2>1, <2>2
<1>9. Fits(c, row, {})
  BY <1>2, <1>3, <1>7, <1>8, Zenon DEF Fits
<1>10. contact[c].verified => contact[c].email = e
  <2>1. CASE Holders(e) = {}
    BY <1>1, <2>1, Zenon DEF ContactFor, Unborn, ContactsTyped, OnlyLiveHold, Blank
  <2>2. CASE Holders(e) # {}
    BY <1>1, <2>2 DEF ContactFor, Holders
  <2> QED
    BY <2>1, <2>2
<1> QED
  BY <1>1, <1>3, <1>5, <1>9, <1>10, Zenon DEF c

(* The contacts' types, of all the types.                                  *)
LEMMA TypedContacts == Typed => ContactsTyped
  BY Zenon DEF Typed, TypeOK, ContactsTyped, Unique

-----------------------------------------------------------------------------

(* The steps, by what they change                                          *)

ContactStep(p) ==
  Link(p) \/ DeleteEmptied(p) \/ FormContact(p) \/ MarkProven(p) \/ BackfillLink(p)

(* The steps that change a contact.                                        *)
LEMMA ContactSteps ==
  ASSUME [Next]_vars
  PROVE  \/ UNCHANGED contact
         \/ \E p \in Procs : ContactStep(p)
         \/ \E e \in Addrs : MailTicket(e)
         \/ \E c \in Ids : DeleteContact(c) \/ Anonymize(c) \/ \E e \in Addrs : EditEmail(c, e)
<1>1. ASSUME NEW p, NEW s, NEW e, NEW signed, WidgetSession(p, s, e, signed)
      PROVE  UNCHANGED contact
  BY <1>1 DEF WidgetSession, Visit, UpdateSession, Login, data
<1>2. ASSUME NEW p, NEW s, \/ VerifyCode(p, s) \/ FirstMessage(p, s)
                           \/ \E t \in Tickets : MessageOn(p, s, t)
      PROVE  UNCHANGED contact
  BY <1>2 DEF VerifyCode, FirstMessage, MessageOn, data
<1>3. ASSUME NEW p, NEW e, \/ \E s \in Sessions : BackfillSession(p, s, e)
                           \/ \E t \in Tickets : BackfillTicket(p, t, e)
      PROVE  UNCHANGED contact
  BY <1>3 DEF BackfillSession, BackfillTicket, Backfill, data
<1>4. ASSUME NEW p, NEW e, NEW ext, SubmitForm(p, e, ext) PROVE UNCHANGED contact
  BY <1>4 DEF SubmitForm
<1>5. ASSUME NEW p, NEW claim, OpenLink(p, claim) \/ PostLink(p, claim)
      PROVE  UNCHANGED contact
  BY <1>5 DEF OpenLink, PostLink, FollowLink, data
<1>6. ASSUME NEW p, AttachForm(p) \/ Post(p) \/ Save(p) \/ Move(p) \/ OpenTicket(p) \/ Write(p)
      PROVE  UNCHANGED contact
  BY <1>6, Zenon DEF AttachForm, Post, Save, Move, OpenTicket, Write, data
<1>7. ASSUME NEW s, SendCode(s) PROVE UNCHANGED contact
  BY <1>7 DEF SendCode, data
<1>8. ASSUME NEW t, NEW c, MailLink(t) \/ SetContact(t, c) PROVE UNCHANGED contact
  BY <1>8 DEF MailLink, SetContact, data
<1>9. BackfillTickets \/ UNCHANGED vars => UNCHANGED contact
  BY DEF BackfillTickets, vars
<1> QED
  BY <1>1, <1>2, <1>3, <1>4, <1>5, <1>6, <1>7, <1>8, <1>9, Zenon
  DEF Next, Free, ContactStep

(* A link goes to no contact, for want of an address, or to its target.    *)
LEMMA LinkIs ==
  ASSUME Typed, NEW p \in Procs, Link(p)
  PROVE  /\ pc[p] = "link" /\ job[p] \in Jobs /\ job[p].session \in Sessions
         /\ \/ /\ ~job[p].user /\ job[p].email = None
               /\ GoOn(p, 0) /\ UNCHANGED <<contact, ticket>>
               /\ session' = [session EXCEPT ![job[p].session].contact =
                                IF job[p].contact # 0 THEN 0 ELSE @]
            \/ \E c \in Ids :
                 /\ Target(job[p].user, job[p].email, job[p].proved, c)
                 /\ job[p].user \/ job[p].email # None
                 /\ LinkTo(p, c)
<1>1. pc[p] = "link" /\ job[p] \in Jobs /\ job[p].session \in Sessions
  BY DEF Link, Typed, JobHeld
<1> DEFINE found == Found(job[p].user, job[p].email, job[p].proved)
<1>2. found \subseteq Live /\ Unborn \in SUBSET Nat /\ Live \in SUBSET Nat
      /\ Live \cup Unborn \subseteq Ids
  BY HoldersAre, TypedContacts DEF Found
<1>3. found # {} => FirstOf(found) \in found
  BY <1>2, FirstIsIn
<1>4. Unborn # {} => FirstOf(Unborn) \in Unborn
  BY <1>2, FirstIsIn
<1>5. CASE ~job[p].user /\ job[p].email = None
  BY <1>1, <1>5, Zenon DEF Link, Resolve
<1>6. CASE job[p].user \/ job[p].email # None
  <2>1. IF found # {} THEN LinkTo(p, FirstOf(found))
        ELSE Unborn # {} /\ LinkTo(p, FirstOf(Unborn))
    BY <1>6, Zenon DEF Link, Resolve
  <2> HIDE DEF found
  <2>2. CASE found # {}
    <3>1. FirstOf(found) \in found /\ FirstOf(found) \in Ids /\ LinkTo(p, FirstOf(found))
      BY <1>2, <1>3, <2>1, <2>2
    <3> QED
      BY <1>1, <1>6, <3>1, Zenon DEF Target, found
  <2>3. CASE found = {}
    <3>1. /\ FirstOf(Unborn) \in Unborn /\ FirstOf(Unborn) \in Ids
          /\ LinkTo(p, FirstOf(Unborn))
      BY <1>2, <1>4, <2>1, <2>3
    <3> QED
      BY <1>1, <1>6, <2>3, <3>1, Zenon DEF Target, found
  <2> QED
    BY <2>2, <2>3
<1> QED
  BY <1>5, <1>6, Zenon

(* A request about to record that its address was proved.                  *)
Proving(p, e) ==
  job[p].email = e /\ (pc[p] = "prove" \/ (pc[p] = "link" /\ job[p].proved))

(* A row that a step gives: fitting, and verified by a proof only.         *)
Given(c, row, E) ==
  /\ Fits(c, row, E) /\ Gives(c, row, E)
  /\ row.verified => \/ contact[c].verified /\ contact[c].email = row.email
                     \/ \E p \in Procs : Proving(p, row.email)
  /\ E # {} => \E p \in Procs :
       E = Absorbed(job[p].user, c, job[p].email, job[p].proved) /\ LinkTo(p, c)

(* Contacts that a step makes empty: erased by their holders, or left so.  *)
Removed(E, k) ==
  /\ Empties(E, k) /\ k \in Kinds /\ E \subseteq Ids
  /\ \A d \in E : /\ contact[d].state # "unborn"
                  /\ k = "erased" => Anonymize(d)
                  /\ k = "merged" => LeftEmpty(d)

(* A mailed link verifies the address that its contact has.                *)
LEMMA MarkGives ==
  ASSUME Typed, NEW p \in Procs, MarkProven(p), contact' # contact
  PROVE  \E c \in Ids : \E row : Given(c, row, {})
<1> DEFINE c == job[p].contact
           row == [contact[c] EXCEPT !.verified = TRUE]
<1>1. /\ c \in Ids /\ contact[c].state = "live" /\ contact[c].email = job[p].email
      /\ pc[p] = "prove"
  BY DEF MarkProven, Holds, Live
<1>2. contact[c] \in Contacts /\ contact \in [Ids -> Contacts]
  BY <1>1 DEF Typed, TypeOK
<1>3. contact' = [contact EXCEPT ![c] = row]
  BY DEF MarkProven
<1>4. Gives(c, row, {})
  BY <1>2, <1>3 DEF Gives
<1>5. /\ row \in Contacts /\ row.state = "live" /\ row.email = contact[c].email
      /\ row.ext = contact[c].ext
  BY <1>1, <1>2 DEF Contacts
<1> HIDE DEF c, row
<1>6. Fits(c, row, {})
  BY <1>1, <1>5, TypedContacts, Zenon DEF Fits, ContactsTyped, Unique
<1>7. Proving(p, row.email)
  BY <1>1, <1>5, Zenon DEF Proving
<1> QED
  BY <1>1, <1>4, <1>6, <1>7, Zenon DEF Given

(* The backfill creates a contact that nobody has the id or address of.    *)
LEMMA BackfillGives ==
  ASSUME Typed, NEW p \in Procs, BackfillLink(p), contact' # contact
  PROVE  \E c \in Ids : \E row : Given(c, row, {})
<1>1. PICK c \in Filled(p) :
        /\ Alive(c) \/ contact[c].state = "unborn"
        /\ contact' = IF contact[c].state # "unborn" THEN contact
                      ELSE [contact EXCEPT ![c] =
                             [state |-> "live", ext |-> job[p].user, verified |-> FALSE,
                              email |-> IF job[p].user THEN None ELSE job[p].email]]
  BY Zenon DEF BackfillLink, data
<1> DEFINE row == [state |-> "live", ext |-> job[p].user, verified |-> FALSE,
                   email |-> IF job[p].user THEN None ELSE job[p].email]
           known == Known(job[p].user, job[p].email)
<1>2. contact[c].state = "unborn" /\ contact' = [contact EXCEPT ![c] = row]
  BY <1>1
<1>3. job[p] \in Jobs /\ (job[p].contact # 0 => contact[job[p].contact].state # "unborn")
  BY Zenon DEF BackfillLink, Typed, JobHeld
<1>4. job[p].contact = 0
  BY <1>1, <1>2, <1>3, Zenon DEF Filled
<1>5. known \subseteq Live
  BY HoldersAre, TypedContacts DEF Known
<1>6. known = {} /\ c = FirstOf(Unborn) /\ Unborn # {}
  <2>1. known # {} => FirstOf(known) \in Live
    BY <1>5, FirstIsIn, HoldersAre, TypedContacts
  <2>2. CASE known # {}
    <3>1. c = FirstOf(known)
      BY <1>1, <1>4, <2>2, Zenon DEF Filled
    <3> QED
      BY <1>2, <2>1, <2>2, <3>1 DEF Live
  <2>3. CASE known = {}
    BY <1>1, <1>4, <2>3, Zenon DEF Filled
  <2> QED
    BY <2>2, <2>3
<1>7. c \in Unborn /\ c \in Ids
  BY <1>6, FirstIsIn, HoldersAre, TypedContacts
<1>8. Gives(c, row, {})
  BY <1>2 DEF Gives, Typed, TypeOK
<1>9. row \in Contacts /\ row.state = "live" /\ ~row.verified
  <2>1. job[p].email \in Emails /\ job[p].user \in BOOLEAN
    BY <1>3 DEF Jobs
  <2> QED
    BY <2>1 DEF Contacts, Emails
<1>10. ASSUME NEW d \in Ids PROVE /\ row.ext => ~contact[d].ext
                                  /\ row.email # None => contact[d].email # row.email
  <2>1. CASE job[p].user
    BY <1>6, <2>1, Zenon DEF Known, TheUsers
  <2>2. CASE ~job[p].user
    <3>1. Holders(job[p].email) = {} /\ row.email = job[p].email /\ ~row.ext
      BY <1>6, <2>2 DEF Known
    <3> QED
      BY <3>1, HoldersAre, TypedContacts
  <2> QED
    BY <2>1, <2>2
<1> HIDE DEF row
<1>11. Fits(c, row, {})
  BY <1>2, <1>7, <1>9, <1>10 DEF Fits
<1> QED
  BY <1>7, <1>8, <1>9, <1>11, Zenon DEF Given

(* A form, or a mail, declares an address.                                 *)
LEMMA DeclareIsGiven ==
  ASSUME Typed, NEW e \in Addrs, ContactFor(e) # {}, Declare(FirstOf(ContactFor(e)), e)
  PROVE  \E c \in Ids : \E row : Given(c, row, {})
<1>1. PICK c \in ContactFor(e) : \E row :
        /\ Fits(c, row, {}) /\ Gives(c, row, {})
        /\ row.verified => contact[c].verified /\ contact[c].email = e
        /\ row.email = e
  BY DeclareGives, TypedContacts, Zenon
<1>2. c \in Ids
  BY <1>1 DEF Fits
<1> QED
  BY <1>1, <1>2, Zenon DEF Given

(* An agent gives a free address.                                          *)
LEMMA EditGives ==
  ASSUME Typed, NEW c \in Ids, NEW e \in Addrs, EditEmail(c, e)
  PROVE  \E row : Given(c, row, {})
<1> DEFINE row == EditedContact(c, e)
<1>1. contact[c] \in Contacts /\ contact[c].state = "live"
  BY DEF EditEmail, Live, Typed, TypeOK
<1>2. /\ row \in Contacts /\ row.state = "live" /\ row.email = e /\ row.ext = contact[c].ext
      /\ row.verified = FALSE
  BY <1>1 DEF EditedContact, Contacts, Emails
<1>3. Gives(c, row, {})
  BY DEF EditEmail, Gives, Typed, TypeOK
<1>4. e # None /\ Holders(e) = {}
  BY ContactsAssumption DEF EditEmail, EmailFree
<1>5. \A d \in Ids : contact[d].email # e
  BY <1>4, HoldersAre, TypedContacts
<1> HIDE DEF row
<1>6. Fits(c, row, {})
  BY <1>1, <1>2, <1>5, TypedContacts, Zenon DEF Fits, ContactsTyped, Unique
<1> QED
  BY <1>2, <1>3, <1>6, Zenon DEF Given

(* A link gives its target what Linked says.                               *)
LEMMA LinkGives ==
  ASSUME Typed, NEW p \in Procs, pc[p] = "link", job[p] \in Jobs, NEW c \in Ids,
         Target(job[p].user, job[p].email, job[p].proved, c),
         job[p].user \/ job[p].email # None, LinkTo(p, c)
  PROVE  Given(c, Linked(job[p].user, c, job[p].email, job[p].proved),
                  Absorbed(job[p].user, c, job[p].email, job[p].proved))
<1> DEFINE row == Linked(job[p].user, c, job[p].email, job[p].proved)
           E == Absorbed(job[p].user, c, job[p].email, job[p].proved)
<1>1. job[p].user \in BOOLEAN /\ job[p].proved \in BOOLEAN /\ job[p].email \in Emails
  BY DEF Jobs
<1>2. Fits(c, row, E)
  BY <1>1, LinkFits, TypedContacts, Zenon
<1>3. Gives(c, row, E)
  BY Zenon DEF LinkTo, Gives, Emptied
<1>4. row.verified => \/ job[p].proved /\ row.email = job[p].email
                      \/ contact[c].verified /\ contact[c].email = row.email
  BY Zenon DEF Linked
<1> QED
  BY <1>2, <1>3, <1>4, Zenon DEF Given, Proving

(* Every step leaves the contacts, empties some, or gives one a row.       *)
LEMMA ContactMoves ==
  ASSUME Typed, [Next]_vars
  PROVE  \/ UNCHANGED contact
         \/ \E E, k : Removed(E, k)
         \/ \E c \in Ids : \E row, E : Given(c, row, E)
<1> DEFINE Fine == \/ UNCHANGED contact
                   \/ \E E, k : Removed(E, k)
                   \/ \E c \in Ids : \E row, E : Given(c, row, E)
<1> SUFFICES Fine
  OBVIOUS
<1>1. ASSUME NEW p \in Procs, Link(p) PROVE Fine
  BY <1>1, LinkIs, LinkGives
<1>2. ASSUME NEW p \in Procs, DeleteEmptied(p), contact' # contact PROVE \E E, k : Removed(E, k)
  <2> DEFINE E == {c \in job[p].left : LeftEmpty(c)}
  <2>1. contact' = [c \in Ids |-> IF c \in E THEN [NoContact EXCEPT !.state = "merged"]
                                  ELSE contact[c]]
    BY <1>2, Zenon DEF DeleteEmptied
  <2>2. Empties(E, "merged")
    BY <2>1, Zenon DEF Empties, Emptied
  <2>3. E \subseteq Ids /\ \A d \in E : contact[d].state # "unborn" /\ LeftEmpty(d)
    BY DEF LeftEmpty, Live
  <2> QED
    BY <2>2, <2>3, Zenon DEF Removed, Kinds
<1>3. ASSUME NEW p \in Procs, FormContact(p) PROVE Fine
  <2>1. job[p].email \in Addrs
    BY <1>3 DEF FormContact, Typed, JobHeld
  <2>2. \/ UNCHANGED contact
        \/ ContactFor(job[p].email) # {} /\ Declare(FirstOf(ContactFor(job[p].email)), job[p].email)
    BY <1>3 DEF FormContact
  <2> QED
    BY <2>1, <2>2, DeclareIsGiven, Zenon
<1>4. ASSUME NEW p \in Procs, MarkProven(p) PROVE Fine
  BY <1>4, MarkGives
<1>5. ASSUME NEW p \in Procs, BackfillLink(p) PROVE Fine
  BY <1>5, BackfillGives
<1>6. ASSUME NEW e \in Addrs, MailTicket(e) PROVE Fine
  <2>1. ContactFor(e) # {} /\ Declare(FirstOf(ContactFor(e)), e)
    BY <1>6 DEF MailTicket
  <2> QED
    BY <2>1, DeclareIsGiven, Zenon
<1>7. ASSUME NEW c \in Ids, DeleteContact(c) PROVE Fine
  <2>1. Empties({c}, "deleted") /\ {c} \subseteq Ids
    BY <1>7 DEF DeleteContact, Empties, Emptied, Typed, TypeOK
  <2>2. \A d \in {c} : contact[d].state # "unborn"
    BY <1>7 DEF DeleteContact, Live
  <2>3. Removed({c}, "deleted")
    BY <2>1, <2>2, Zenon DEF Removed, Kinds
  <2> QED
    BY <2>3
<1>8. ASSUME NEW c \in Ids, Anonymize(c) PROVE Fine
  <2>1. Empties({c}, "erased") /\ {c} \subseteq Ids
    BY <1>8 DEF Anonymize, Empties, Emptied, ScrubbedContact, Typed, TypeOK
  <2>2. \A d \in {c} : contact[d].state # "unborn"
    BY <1>8 DEF Anonymize, Alive
  <2>3. Removed({c}, "erased")
    BY <1>8, <2>1, <2>2, Zenon DEF Removed, Kinds
  <2> QED
    BY <2>3
<1>9. ASSUME NEW c \in Ids, NEW e \in Addrs, EditEmail(c, e) PROVE Fine
  BY <1>9, EditGives
<1> HIDE DEF Fine
<1>10. (\E E, k : Removed(E, k)) => Fine
  BY Zenon DEF Fine
<1>11. UNCHANGED contact => Fine
  BY Zenon DEF Fine
<1> QED
  BY ContactSteps, <1>1, <1>2, <1>3, <1>4, <1>5, <1>6, <1>7, <1>8, <1>9, <1>10, <1>11, Zenon
  DEF ContactStep

(* Every step keeps the contacts' constraints, and none becomes unborn.    *)
LEMMA ContactsNext ==
  ASSUME Typed, [Next]_vars
  PROVE  /\ ContactsTyped'
         /\ \A c \in Ids : contact'[c].state = "unborn" => contact[c].state = "unborn"
<1>1. CASE UNCHANGED contact
  BY <1>1, TypedContacts DEF ContactsTyped, Unique, OnlyLiveHold, Blank
<1>2. ASSUME NEW E, NEW k, Removed(E, k)
      PROVE  /\ ContactsTyped'
             /\ \A c \in Ids : contact'[c].state = "unborn" => contact[c].state = "unborn"
  <2>1. ContactsTyped'
    BY <1>2, EmptiesTyped, TypedContacts DEF Removed
  <2>2. k \in Kinds /\ Emptied(k).state = k
    BY <1>2, EmptiedIs DEF Removed
  <2>3. \A c \in Ids : contact'[c] = Emptied(k) \/ contact'[c] = contact[c]
    BY <1>2 DEF Removed, Empties
  <2> QED
    BY <2>1, <2>2, <2>3 DEF Kinds
<1>3. ASSUME NEW c \in Ids, NEW row, NEW E, Given(c, row, E)
      PROVE  /\ ContactsTyped'
             /\ \A d \in Ids : contact'[d].state = "unborn" => contact[d].state = "unborn"
  <2>1. ContactsTyped'
    BY <1>3, GivesTyped, TypedContacts DEF Given
  <2>2. row.state = "live" /\ Emptied("merged").state = "merged"
    BY <1>3, EmptiedIs DEF Given, Fits, Kinds
  <2>3. \A d \in Ids : contact'[d] = Emptied("merged") \/ contact'[d] = row
                       \/ contact'[d] = contact[d]
    BY <1>3 DEF Given, Gives
  <2> QED
    BY <2>1, <2>2, <2>3
<1> QED
  BY <1>1, <1>2, <1>3, ContactMoves

-----------------------------------------------------------------------------

(* The sessions                                                            *)

SessionStep(p) == Save(p) \/ Link(p) \/ Move(p) \/ BackfillLink(p)

(* The steps that change a session.                                        *)
LEMMA SessionSteps ==
  ASSUME [Next]_vars
  PROVE  \/ UNCHANGED session
         \/ \E p \in Procs, s \in Sessions, e \in Emails :
              \E signed \in Signatures(e) : WidgetSession(p, s, e, signed)
         \/ \E p \in Procs : SessionStep(p)
         \/ \E c \in Ids : DeleteContact(c) \/ Anonymize(c)
<1>1. ASSUME NEW p, NEW s, \/ VerifyCode(p, s) \/ FirstMessage(p, s)
                           \/ \E t \in Tickets : MessageOn(p, s, t)
      PROVE  UNCHANGED session
  BY <1>1 DEF VerifyCode, FirstMessage, MessageOn, data
<1>2. ASSUME NEW p, NEW e, \/ \E s \in Sessions : BackfillSession(p, s, e)
                           \/ \E t \in Tickets : BackfillTicket(p, t, e)
      PROVE  UNCHANGED session
  BY <1>2 DEF BackfillSession, BackfillTicket, Backfill, data
<1>3. ASSUME NEW p, NEW e, NEW ext, SubmitForm(p, e, ext) PROVE UNCHANGED session
  BY <1>3 DEF SubmitForm
<1>4. ASSUME NEW p, NEW claim, OpenLink(p, claim) \/ PostLink(p, claim)
      PROVE  UNCHANGED session
  BY <1>4 DEF OpenLink, PostLink, FollowLink, data
<1>5. ASSUME NEW p, \/ FormContact(p) \/ AttachForm(p) \/ MarkProven(p) \/ Post(p)
                    \/ DeleteEmptied(p) \/ OpenTicket(p) \/ Write(p)
      PROVE  UNCHANGED session
  BY <1>5, Zenon DEF FormContact, AttachForm, MarkProven, Post, DeleteEmptied, OpenTicket, Write
<1>6. ASSUME NEW s, SendCode(s) PROVE UNCHANGED session
  BY <1>6 DEF SendCode, data
<1>7. ASSUME NEW e, MailTicket(e) PROVE UNCHANGED session
  BY <1>7 DEF MailTicket
<1>8. ASSUME NEW t, NEW c, MailLink(t) \/ SetContact(t, c) PROVE UNCHANGED session
  BY <1>8 DEF MailLink, SetContact, data
<1>9. BackfillTickets \/ UNCHANGED vars => UNCHANGED session
  BY DEF BackfillTickets, vars
<1>10. ASSUME NEW c, NEW e, EditEmail(c, e) PROVE UNCHANGED session
  BY <1>10 DEF EditEmail
<1> QED
  BY <1>1, <1>2, <1>3, <1>4, <1>5, <1>6, <1>7, <1>8, <1>9, <1>10, Zenon
  DEF Next, Free, SessionStep

(* The proof that a session is given by a link: its request proved it, and *)
(* the tickets it wrote were before that.                                  *)
ProvedBy(p, s) ==
  /\ pc[p] = "link" /\ job[p].session = s /\ job[p].proved
  /\ session'[s].proof = job[p].email
  /\ \A t \in Open : ticket[t].session = s => ~ticket'[t].since

(* What a step may make of a session: it is never anonymous then           *)
(* identified; its proof is dropped, or proved by its request; its contact *)
(* is live, unless it was erased since a request loaded it.                *)
SessionFine(s) ==
  /\ session'[s] \in WidgetSessions
  /\ session'[s].state = "unborn" => session[s].state = "unborn"
  /\ session'[s].state = "identified" => session[s].state \in {"unborn", "identified"}
  /\ \/ session'[s].proof \in {None, session[s].proof}
     \/ \E p \in Procs : ProvedBy(p, s)
  /\ \/ session'[s].contact \in {0, session[s].contact}
     \/ contact'[session'[s].contact].state = "live"
     \/ ~Without({"stale"})'

(* A session that stays as it is.                                          *)
LEMMA SameSession ==
  ASSUME Typed, NEW s \in Sessions, session'[s] = session[s]
  PROVE  SessionFine(s)
<1>1. session[s] \in WidgetSessions
  BY DEF Typed, TypeOK
<1>2. session[s].state \in {"unborn", "anonymous", "identified"}
  BY <1>1 DEF WidgetSessions
<1> QED
  BY <1>1, <1>2, Zenon DEF SessionFine

(* A visit, or a login, enters a session.                                  *)
LEMMA EnterFine ==
  ASSUME Typed, NEW p \in Procs, NEW r \in Sessions, NEW e \in Emails, NEW signed,
         WidgetSession(p, r, e, signed), NEW s \in Sessions
  PROVE  SessionFine(s)
<1>1. session[s] \in WidgetSessions
  BY DEF Typed, TypeOK
<1>2. ASSUME NEW kind \in {"anonymous", "identified"}, NEW j, j.email = e, Enter(p, r, kind, j)
      PROVE  SessionFine(s)
  <2>1. \/ session'[s] = session[s]
        \/ /\ session[s].state = "unborn"
           /\ session'[s] = [session[s] EXCEPT !.state = kind, !.email = e]
    BY <1>2 DEF Enter, Typed, TypeOK
  <2>2. ASSUME session[s].state = "unborn",
               session'[s] = [session[s] EXCEPT !.state = kind, !.email = e]
        PROVE  /\ session'[s] \in WidgetSessions /\ session'[s].state # "unborn"
               /\ session'[s].proof = session[s].proof
               /\ session'[s].contact = session[s].contact
    BY <1>1, <2>2 DEF WidgetSessions
  <2> QED
    BY <2>1, <2>2, SameSession, Zenon DEF SessionFine
<1>3. CASE Visit(p, r, e, signed)
  <2> DEFINE j == [NewJob(r) EXCEPT !.email = e, !.proved = signed]
  <2>1. j.email = e
    BY DEF NewJob
  <2>2. Enter(p, r, "anonymous", j)
    BY <1>3, Zenon DEF Visit
  <2> HIDE DEF j
  <2> QED
    BY <1>2, <2>1, <2>2
<1>4. CASE UpdateSession(p, r, e, signed)
  BY <1>4, SameSession DEF UpdateSession, data
<1>5. ASSUME NEW from \in Sessions \cup {None}, Login(p, r, from, e, signed)
      PROVE  SessionFine(s)
  <2> DEFINE j == [NewJob(r) EXCEPT !.email = e, !.user = TRUE, !.proved = signed,
                                    !.from = from]
  <2>1. j.email = e
    BY DEF NewJob
  <2>2. Enter(p, r, "identified", j)
    BY <1>5, Zenon DEF Login
  <2> HIDE DEF j
  <2> QED
    BY <1>2, <2>1, <2>2
<1> QED
  BY <1>3, <1>4, <1>5, Zenon DEF WidgetSession

(* It is saved.                                                            *)
LEMMA SaveFine ==
  ASSUME Typed, NEW p \in Procs, Save(p), NEW s \in Sessions
  PROVE  SessionFine(s)
<1>1. session[s] \in WidgetSessions
  BY DEF Typed, TypeOK
<1>2. job[p].email \in Emails
  BY DEF Save, Typed, JobHeld, Jobs
<1>3. \/ session'[s] = session[s]
      \/ \E pr \in {None, session[s].proof} :
           session'[s] = [session[s] EXCEPT !.email = job[p].email, !.proof = pr]
  BY DEF Save, Typed, TypeOK
<1>4. ASSUME NEW pr \in {None, session[s].proof},
             session'[s] = [session[s] EXCEPT !.email = job[p].email, !.proof = pr]
      PROVE  /\ session'[s] \in WidgetSessions /\ session'[s].state = session[s].state
             /\ session'[s].proof = pr /\ session'[s].contact = session[s].contact
             /\ session[s].state \in {"unborn", "anonymous", "identified"}
  BY <1>1, <1>2, <1>4 DEF WidgetSessions, Emails
<1> QED
  BY <1>3, <1>4, SameSession, Zenon DEF SessionFine

(* It is linked, with its proof.                                           *)
LEMMA LinkFine ==
  ASSUME Typed, NEW p \in Procs, Link(p), NEW s \in Sessions
  PROVE  SessionFine(s)
<1>1. /\ session[s] \in WidgetSessions
      /\ session[s].state \in {"unborn", "anonymous", "identified"}
  BY DEF Typed, TypeOK, WidgetSessions
<1>2. /\ pc[p] = "link" /\ job[p] \in Jobs /\ job[p].session \in Sessions
      /\ job[p].email \in Emails
  BY LinkIs DEF Jobs
<1>4. CASE session' = [session EXCEPT ![job[p].session].contact =
                         IF job[p].contact # 0 THEN 0 ELSE @]
  <2>1. CASE s # job[p].session
    BY <1>2, <1>4, <2>1, SameSession DEF Typed, TypeOK
  <2>2. CASE s = job[p].session
    <3>1. PICK c \in {0, session[s].contact} :
            session'[s] = [session[s] EXCEPT !.contact = c]
      BY <1>2, <1>4, <2>2 DEF Typed, TypeOK
    <3>2. /\ session'[s] \in WidgetSessions /\ session'[s].state = session[s].state
          /\ session'[s].proof = session[s].proof /\ session'[s].contact = c
      BY <1>1, <3>1, ContactsAssumption DEF WidgetSessions
    <3> QED
      BY <1>1, <3>2, Zenon DEF SessionFine
  <2> QED
    BY <2>1, <2>2
<1>5. ASSUME NEW c \in Ids, LinkTo(p, c) PROVE SessionFine(s)
  <2> DEFINE e == job[p].email
             absorbed == Absorbed(job[p].user, c, e, job[p].proved)
             linked == Linked(job[p].user, c, e, job[p].proved)
             proves == job[p].proved /\ linked.email = e /\ RecordProof(job[p].session, e)
  <2>1. session'[s] = [session[s] EXCEPT
          !.contact = IF (s = job[p].session /\ job[p].contact # c) \/ @ \in absorbed
                      THEN c ELSE @,
          !.proof = IF s = job[p].session /\ proves THEN e ELSE @]
    BY <1>5, Zenon DEF LinkTo
  <2>2. PICK d \in {c, session[s].contact}, pr \in {e, session[s].proof} :
          /\ session'[s] = [session[s] EXCEPT !.contact = d, !.proof = pr]
          /\ pr = IF s = job[p].session /\ proves THEN e ELSE session[s].proof
    <3> HIDE DEF absorbed, proves
    <3> QED
      BY <2>1
  <2>3. d \in 0 .. MaxContacts /\ pr \in Emails
    BY <1>1, <1>2, <2>2 DEF WidgetSessions, Ids
  <2>4. /\ session'[s] \in WidgetSessions /\ session'[s].state = session[s].state
        /\ session'[s].proof = pr /\ session'[s].contact = d
    <3>1. \A r \in WidgetSessions :
            LET q == [r EXCEPT !.contact = d, !.proof = pr] IN
            q \in WidgetSessions /\ q.state = r.state /\ q.proof = pr /\ q.contact = d
      BY <2>3 DEF WidgetSessions
    <3>2. session'[s] = [session[s] EXCEPT !.contact = d, !.proof = pr]
      BY <2>2
    <3> HIDE DEF absorbed, linked, proves, e
    <3> QED
      BY <1>1, <3>1, <3>2
  <2>5. contact'[c].state = "live"
    <3>1. contact'[c] = linked
      BY <1>5, Zenon DEF LinkTo
    <3> QED
      BY <3>1 DEF Linked
  <2>6. ASSUME s = job[p].session, proves PROVE ProvedBy(p, s)
    <3>1. \A t \in Open : ticket[t].session = s => ~ticket'[t].since
      <4>1. ASSUME NEW t \in Open, ticket[t].session = s PROVE ~ticket'[t].since
        <5> DEFINE moved == MoveTickets(s, c, job[p].contact, absorbed)
        <5>1. ticket'[t] = [moved[t] EXCEPT !.since = FALSE] /\ t \in Tickets
          BY <1>5, <2>6, <4>1, Zenon DEF LinkTo, Open
        <5>2. moved[t] \in {ticket[t], [ticket[t] EXCEPT !.contact = c]}
          BY <5>1 DEF MoveTickets
        <5>3. ticket[t] \in TicketRows
          BY <4>1 DEF Open, Typed, TypeOK
        <5> HIDE DEF moved
        <5> QED
          BY <5>1, <5>2, <5>3 DEF TicketRows
      <4> QED
        BY <4>1
    <3>2. pr = e
      BY <2>2, <2>6
    <3> QED
      BY <1>2, <2>4, <2>6, <3>1, <3>2, Zenon DEF ProvedBy
  <2>7. \/ session'[s].proof \in {None, session[s].proof} \/ \E q \in Procs : ProvedBy(q, s)
    BY <2>2, <2>4, <2>6, Zenon
  <2>8. \/ session'[s].contact \in {0, session[s].contact}
        \/ contact'[session'[s].contact].state = "live"
    BY <2>2, <2>4, <2>5
  <2> QED
    BY <1>1, <2>4, <2>7, <2>8, Zenon DEF SessionFine
<1> QED
  BY <1>4, <1>5, LinkIs, Zenon

(* A login empties the session it moves.                                   *)
LEMMA MoveFine ==
  ASSUME Typed, NEW p \in Procs, Move(p), NEW s \in Sessions
  PROVE  SessionFine(s)
<1>1. /\ session[s] \in WidgetSessions
      /\ session[s].state \in {"unborn", "anonymous", "identified"}
  BY DEF Typed, TypeOK, WidgetSessions
<1>2. \/ session' = session
      \/ session' = [session EXCEPT ![job[p].from].email = None, ![job[p].from].contact = 0,
                                    ![job[p].from].proof = None]
  BY DEF Move, data
<1>3. \/ session'[s] = session[s]
      \/ session'[s] = [session[s] EXCEPT !.email = None, !.contact = 0, !.proof = None]
  BY <1>2, ZenonT(30) DEF Typed, TypeOK
<1>4. ASSUME session'[s] = [session[s] EXCEPT !.email = None, !.contact = 0, !.proof = None]
      PROVE  /\ session'[s] \in WidgetSessions /\ session'[s].state = session[s].state
             /\ session'[s].proof = None /\ session'[s].contact = 0
  <2>1. None \in Emails /\ 0 \in 0 .. MaxContacts
    BY ContactsAssumption DEF Emails
  <2>2. \A r \in WidgetSessions :
          LET q == [r EXCEPT !.email = None, !.contact = 0, !.proof = None] IN
          q \in WidgetSessions /\ q.state = r.state /\ q.proof = None /\ q.contact = 0
    BY <2>1, Zenon DEF WidgetSessions
  <2> QED
    BY <1>1, <1>4, <2>1, <2>2
<1> QED
  BY <1>1, <1>3, <1>4, SameSession, ZenonT(30) DEF SessionFine

(* The contact that the backfill links a row to is live, new, or was       *)
(* erased since it was looked up.                                          *)
LEMMA FilledIs ==
  ASSUME Typed, NEW p \in Procs, BackfillLink(p)
  PROVE  \/ UNCHANGED <<data, happened>>
         \/ \E c \in Ids :
              /\ contact'[c].state = "live" \/ "stale" \in happened'
              /\ session' = IF job[p].session # None /\ StillUnlinked(session[job[p].session])
                            THEN [session EXCEPT ![job[p].session].contact = c,
                                    ![job[p].session].email =
                                       IF job[p].had THEN @ ELSE job[p].email,
                                    ![job[p].session].proof = IF job[p].had THEN @ ELSE None]
                            ELSE session
              /\ ticket' = IF job[p].ticket # 0 /\ StillUnlinked(ticket[job[p].ticket])
                           THEN [ticket EXCEPT ![job[p].ticket].contact = c] ELSE ticket
              /\ UNCHANGED msgs
<1>1. ASSUME NEW c \in Filled(p),
             Alive(c) \/ contact[c].state = "unborn",
             contact' = IF contact[c].state # "unborn" THEN contact
                        ELSE [contact EXCEPT ![c] =
                               [state |-> "live", ext |-> job[p].user, verified |-> FALSE,
                                email |-> IF job[p].user THEN None ELSE job[p].email]],
             FaultIf(Erased(c), "stale")
      PROVE  c \in Ids /\ (contact'[c].state = "live" \/ "stale" \in happened')
  <2>1. c \in Ids
    <3>1. job[p].contact \in 0 .. MaxContacts
      BY Zenon DEF BackfillLink, Typed, JobHeld, Jobs
    <3>2. job[p].contact # 0 => job[p].contact \in Ids
      BY <3>1, ContactsAssumption DEF Ids
    <3> DEFINE now == Known(job[p].user, job[p].email)
    <3>3. now \in SUBSET Nat /\ now \subseteq Ids
      BY HoldersAre, TypedContacts DEF Known
    <3>4. now # {} => FirstOf(now) \in Ids
      BY <3>3, FirstIsIn
    <3>5. Unborn # {} => FirstOf(Unborn) \in Ids
      BY FirstIsIn, HoldersAre, TypedContacts
    <3>6. \/ c = job[p].contact /\ job[p].contact # 0
          \/ now # {} /\ c = FirstOf(now)
          \/ Unborn # {} /\ c = FirstOf(Unborn)
      BY <1>1 DEF Filled
    <3> HIDE DEF now
    <3> QED
      BY <3>2, <3>4, <3>5, <3>6, Zenon
  <2>2. CASE contact[c].state = "unborn"
    BY <1>1, <2>1, <2>2 DEF Typed, TypeOK
  <2>3. CASE contact[c].state = "live"
    BY <1>1, <2>1, <2>3
  <2>4. CASE contact[c].state = "erased"
    <3>1. c # 0
      BY <2>1, ContactsAssumption DEF Ids
    <3> QED
      BY <1>1, <2>1, <2>4, <3>1, Zenon DEF FaultIf, Erased
  <2> QED
    BY <1>1, <2>1, <2>2, <2>3, <2>4 DEF Alive
<1> QED
  BY <1>1, Zenon DEF BackfillLink

(* Its session keeps the proof it has, or none if it had no address.       *)
LEMMA BackfillFine ==
  ASSUME Typed, NEW p \in Procs, BackfillLink(p), NEW s \in Sessions
  PROVE  SessionFine(s)
<1>1. /\ session[s] \in WidgetSessions
      /\ session[s].state \in {"unborn", "anonymous", "identified"}
  BY DEF Typed, TypeOK, WidgetSessions
<1>2. job[p].email \in Emails
  BY Zenon DEF BackfillLink, Typed, JobHeld, Jobs
<1>3. CASE UNCHANGED <<data, happened>>
  BY <1>3, SameSession DEF data
<1>4. ASSUME NEW c \in Ids, contact'[c].state = "live" \/ "stale" \in happened',
             session' = IF job[p].session # None /\ StillUnlinked(session[job[p].session])
                        THEN [session EXCEPT ![job[p].session].contact = c,
                                ![job[p].session].email =
                                   IF job[p].had THEN @ ELSE job[p].email,
                                ![job[p].session].proof = IF job[p].had THEN @ ELSE None]
                        ELSE session
      PROVE  SessionFine(s)
  <2>1. \/ session'[s] = session[s]
        \/ \E e \in Emails, pr \in {None, session[s].proof} :
             session'[s] = [session[s] EXCEPT !.contact = c, !.email = e, !.proof = pr]
    <3>1. CASE session' = session
      BY <3>1
    <3>2. CASE session' # session /\ s # job[p].session
      BY <1>4, <3>2 DEF Typed, TypeOK
    <3>3. CASE session' # session /\ s = job[p].session
      <4>1. session' = [session EXCEPT ![s].contact = c,
                          ![s].email = IF job[p].had THEN @ ELSE job[p].email,
                          ![s].proof = IF job[p].had THEN @ ELSE None]
        BY <1>4, <3>3, Zenon
      <4>2. session'[s] = [session[s] EXCEPT !.contact = c,
                             !.email = IF job[p].had THEN session[s].email ELSE job[p].email,
                             !.proof = IF job[p].had THEN session[s].proof ELSE None]
        BY <1>1, <4>1 DEF Typed, TypeOK
      <4>3. session[s].email \in Emails
        BY <1>1 DEF WidgetSessions
      <4> QED
        BY <1>2, <4>2, <4>3
    <3> QED
      BY <3>1, <3>2, <3>3, Zenon
  <2>2. ASSUME NEW e \in Emails, NEW pr \in {None, session[s].proof},
               session'[s] = [session[s] EXCEPT !.contact = c, !.email = e, !.proof = pr]
        PROVE  /\ session'[s] \in WidgetSessions /\ session'[s].state = session[s].state
               /\ session'[s].proof = pr /\ session'[s].contact = c
    <3>1. c \in 0 .. MaxContacts /\ pr \in Emails
      BY <1>1, ContactsAssumption DEF Ids, WidgetSessions, Emails
    <3>2. \A r \in WidgetSessions :
            LET q == [r EXCEPT !.contact = c, !.email = e, !.proof = pr] IN
            q \in WidgetSessions /\ q.state = r.state /\ q.proof = pr /\ q.contact = c
      BY <3>1 DEF WidgetSessions
    <3> QED
      BY <1>1, <2>2, <3>2
  <2>3. "stale" \in happened' => ~Without({"stale"})'
    BY DEF Without
  <2> QED
    BY <1>1, <1>4, <2>1, <2>2, <2>3, SameSession, Zenon DEF SessionFine
<1> QED
  BY <1>3, <1>4, FilledIs, Zenon

(* Deleting a contact, or erasing it, unlinks its sessions.                *)
LEMMA UnlinkFine ==
  ASSUME Typed, NEW c \in Ids, DeleteContact(c) \/ Anonymize(c), NEW s \in Sessions
  PROVE  SessionFine(s)
<1>1. /\ session[s] \in WidgetSessions
      /\ session[s].state \in {"unborn", "anonymous", "identified"}
  BY DEF Typed, TypeOK, WidgetSessions
<1>2. \/ session'[s] = session[s]
      \/ session'[s] = [session[s] EXCEPT !.contact = 0]
      \/ session'[s] = UnlinkedSession
  BY DEF DeleteContact, Anonymize
<1>3. LET q == [session[s] EXCEPT !.contact = 0] IN
      /\ q \in WidgetSessions /\ q.state = session[s].state /\ q.contact = 0
      /\ q.proof = session[s].proof
  BY <1>1, ContactsAssumption DEF WidgetSessions
<1>4. /\ UnlinkedSession \in WidgetSessions /\ UnlinkedSession.state = "anonymous"
      /\ UnlinkedSession.proof = None /\ UnlinkedSession.contact = 0
  BY ContactsAssumption DEF UnlinkedSession, WidgetSessions, Emails
<1> QED
  BY <1>1, <1>2, <1>3, <1>4, SameSession, Zenon DEF SessionFine

(* Every step keeps the sessions right.                                    *)
LEMMA SessionMoves ==
  ASSUME Typed, [Next]_vars, NEW s \in Sessions
  PROVE  SessionFine(s)
<1>1. UNCHANGED session => SessionFine(s)
  BY SameSession
<1> QED
  BY <1>1, SessionSteps, EnterFine, SaveFine, LinkFine, MoveFine, BackfillFine, UnlinkFine, Zenon
  DEF SessionStep

(* They stay a function.                                                   *)
LEMMA SessionsAreFunctions == Typed /\ [Next]_vars => session' = [s \in Sessions |-> session'[s]]
<1> SUFFICES ASSUME Typed, [Next]_vars PROVE session' = [s \in Sessions |-> session'[s]]
  OBVIOUS
<1>1. session = [s \in Sessions |-> session[s]]
  BY DEF Typed, TypeOK
<1>2. UNCHANGED session => session' = [s \in Sessions |-> session'[s]]
  BY <1>1
<1>3. ASSUME NEW p \in Procs, NEW s \in Sessions, NEW e, NEW signed,
             WidgetSession(p, s, e, signed)
      PROVE  session' = [r \in Sessions |-> session'[r]]
  BY <1>1, <1>3 DEF WidgetSession, Visit, UpdateSession, Login, Enter, data
<1>4. ASSUME NEW p \in Procs, Save(p) \/ Move(p)
      PROVE  session' = [r \in Sessions |-> session'[r]]
  BY <1>1, <1>4, ZenonT(30) DEF Save, Move, data
<1>5. ASSUME NEW p \in Procs, BackfillLink(p)
      PROVE  session' = [r \in Sessions |-> session'[r]]
  BY <1>1, <1>5, FilledIs DEF data
<1>6. ASSUME NEW p \in Procs, Link(p)
      PROVE  session' = [r \in Sessions |-> session'[r]]
  <2>1. ASSUME NEW c, LinkTo(p, c) PROVE session' = [r \in Sessions |-> session'[r]]
    <3> DEFINE row(r) ==
          [session[r] EXCEPT
             !.contact = IF \/ r = job[p].session /\ job[p].contact # c
                            \/ @ \in Absorbed(job[p].user, c, job[p].email, job[p].proved)
                         THEN c ELSE @,
             !.proof = IF /\ r = job[p].session
                          /\ job[p].proved
                          /\ Linked(job[p].user, c, job[p].email, job[p].proved).email
                               = job[p].email
                          /\ RecordProof(job[p].session, job[p].email)
                       THEN job[p].email ELSE @]
    <3>1. session' = [r \in Sessions |-> row(r)]
      BY <2>1, Zenon DEF LinkTo
    <3> HIDE DEF row
    <3> QED
      BY <3>1
  <2> QED
    BY <1>1, <1>6, <2>1, LinkIs
<1>7. ASSUME NEW c, DeleteContact(c) \/ Anonymize(c)
      PROVE  session' = [r \in Sessions |-> session'[r]]
  BY <1>7 DEF DeleteContact, Anonymize
<1> QED
  BY <1>2, <1>3, <1>4, <1>5, <1>6, <1>7, SessionSteps, Zenon DEF SessionStep

(* Every step keeps their types.                                           *)
LEMMA SessionsTyped == Typed /\ [Next]_vars => session' \in [Sessions -> WidgetSessions]
  BY SessionMoves, SessionsAreFunctions DEF SessionFine

-----------------------------------------------------------------------------

(* The tickets                                                             *)

TicketStep(p) ==
  Link(p) \/ Move(p) \/ OpenTicket(p) \/ AttachForm(p) \/ BackfillLink(p)

(* The steps that change a ticket.                                         *)
LEMMA TicketSteps ==
  ASSUME [Next]_vars
  PROVE  \/ UNCHANGED ticket
         \/ \E p \in Procs : TicketStep(p)
         \/ \E p \in Procs, e \in Addrs, ext \in BOOLEAN : SubmitForm(p, e, ext)
         \/ \E e \in Addrs : MailTicket(e)
         \/ BackfillTickets
         \/ \E c \in Ids : DeleteContact(c) \/ Anonymize(c)
         \/ \E t \in Tickets, c \in 0 .. MaxContacts : SetContact(t, c)
<1>1. ASSUME NEW p, NEW s, NEW e, NEW signed, WidgetSession(p, s, e, signed)
      PROVE  UNCHANGED ticket
  BY <1>1 DEF WidgetSession, Visit, UpdateSession, Login, data
<1>2. ASSUME NEW p, NEW s, \/ VerifyCode(p, s) \/ FirstMessage(p, s)
                           \/ \E t \in Tickets : MessageOn(p, s, t)
      PROVE  UNCHANGED ticket
  BY <1>2 DEF VerifyCode, FirstMessage, MessageOn, data
<1>3. ASSUME NEW p, NEW e, \/ \E s \in Sessions : BackfillSession(p, s, e)
                           \/ \E t \in Tickets : BackfillTicket(p, t, e)
      PROVE  UNCHANGED ticket
  BY <1>3 DEF BackfillSession, BackfillTicket, Backfill, data
<1>4. ASSUME NEW p, NEW claim, OpenLink(p, claim) \/ PostLink(p, claim)
      PROVE  UNCHANGED ticket
  BY <1>4 DEF OpenLink, PostLink, FollowLink, data
<1>5. ASSUME NEW p, \/ FormContact(p) \/ MarkProven(p) \/ Post(p) \/ Save(p)
                    \/ DeleteEmptied(p) \/ Write(p)
      PROVE  UNCHANGED ticket
  BY <1>5, Zenon DEF FormContact, MarkProven, Post, Save, DeleteEmptied, Write
<1>6. ASSUME NEW s, SendCode(s) PROVE UNCHANGED ticket
  BY <1>6 DEF SendCode, data
<1>7. ASSUME NEW t, MailLink(t) PROVE UNCHANGED ticket
  BY <1>7 DEF MailLink, data
<1>8. UNCHANGED vars => UNCHANGED ticket
  BY DEF vars
<1>9. ASSUME NEW c, NEW e, EditEmail(c, e) PROVE UNCHANGED ticket
  BY <1>9 DEF EditEmail
<1> QED
  BY <1>1, <1>2, <1>3, <1>4, <1>5, <1>6, <1>7, <1>8, <1>9, Zenon
  DEF Next, Free, TicketStep

(* The request that opens a ticket, and what its session had proved.       *)
OpenedBy(p, t) ==
  /\ pc[p] = "open" /\ ticket'[t].session = job[p].session /\ UNCHANGED session
  /\ wrote'[t] = proofs[job[p].session] \cup (IF job[p].user THEN {User} ELSE {})

LandsOn(t) ==
  \/ ticket'[t].contact = 0
  \/ contact'[ticket'[t].contact].state = "live"
  \/ ~Without({"stale"})'

TicketOpened(t) ==
  /\ ticket'[t] \in TicketRows
  /\ ticket'[t].session # None => \E p \in Procs : OpenedBy(p, t)
  /\ LandsOn(t)

(* A ticket is moved by a login, which says so for good, or scrubbed; its  *)
(* contact is live, or it is scrubbed, unless a request's was erased.      *)
TicketKept(t) ==
  /\ ticket'[t] \in TicketRows
  /\ \/ ticket'[t].session = ticket[t].session
     \/ ticket'[t].session = None /\ msgs'[t] = {}
     \/ ticket'[t].pre /\ \E p \in Procs : Move(p)
  /\ ticket[t].pre => ticket'[t].pre
  /\ ticket'[t].since => ticket[t].since
  /\ ticket'[t].personal => ticket[t].personal
  /\ \/ ticket'[t].contact = ticket[t].contact
     \/ ~ticket'[t].personal /\ msgs'[t] = {}
     \/ LandsOn(t)

TicketFine(t) ==
  /\ ticket[t] = None => ticket'[t] = None \/ TicketOpened(t)
  /\ ticket[t] # None => TicketKept(t)

(* A ticket that stays as it is.                                           *)
LEMMA SameTicket ==
  ASSUME Typed, NEW t \in Tickets, ticket'[t] = ticket[t]
  PROVE  TicketFine(t)
<1>1. ticket[t] # None => ticket[t] \in TicketRows
  BY DEF Typed, TypeOK
<1> QED
  BY <1>1, Zenon DEF TicketFine, TicketKept

(* An open ticket that changes contact alone, to a live one or none.       *)
LEMMA Rehomed ==
  ASSUME Typed, NEW t \in Open, NEW c \in 0 .. MaxContacts,
         ticket'[t] = [ticket[t] EXCEPT !.contact = c],
         \/ c = 0 \/ c = ticket[t].contact
         \/ contact'[c].state = "live" \/ ~Without({"stale"})'
  PROVE  TicketFine(t)
<1>1. ticket[t] \in TicketRows /\ ticket[t] # None
  BY DEF Open, Typed, TypeOK
<1>2. \A r \in TicketRows : LET q == [r EXCEPT !.contact = c] IN
        /\ q \in TicketRows /\ q.session = r.session /\ q.pre = r.pre /\ q.since = r.since
        /\ q.personal = r.personal /\ q.contact = c
  BY DEF TicketRows
<1>3. /\ ticket'[t] \in TicketRows /\ ticket'[t].session = ticket[t].session
      /\ ticket'[t].pre = ticket[t].pre /\ ticket'[t].since = ticket[t].since
      /\ ticket'[t].personal = ticket[t].personal /\ ticket'[t].contact = c
  BY <1>1, <1>2
<1> QED
  BY <1>1, <1>3, Zenon DEF TicketFine, TicketKept, LandsOn

(* A link moves tickets to its contact, and dates what its session proved. *)
LEMMA LinkTicket ==
  ASSUME Typed, NEW p \in Procs, Link(p), NEW t \in Tickets
  PROVE  TicketFine(t)
<1>1. CASE UNCHANGED ticket
  BY <1>1, SameTicket
<1>2. ASSUME NEW c \in Ids, LinkTo(p, c) PROVE TicketFine(t)
  <2> DEFINE s == job[p].session
             e == job[p].email
             absorbed == Absorbed(job[p].user, c, e, job[p].proved)
             linked == Linked(job[p].user, c, e, job[p].proved)
             moved == MoveTickets(s, c, job[p].contact, absorbed)
             proves == job[p].proved /\ linked.email = e /\ RecordProof(s, e)
  <2>1. ticket'[t] = IF t \in Open /\ ticket[t].session = s /\ proves
                     THEN [moved[t] EXCEPT !.since = FALSE] ELSE moved[t]
    BY <1>2, Zenon DEF LinkTo
  <2>2. \/ moved[t] = ticket[t]
        \/ t \in Open /\ moved[t] = [ticket[t] EXCEPT !.contact = c]
    BY DEF MoveTickets
  <2>3. contact'[c].state = "live"
    <3>1. contact'[c] = linked
      BY <1>2, Zenon DEF LinkTo
    <3> QED
      BY <3>1 DEF Linked
  <2>4. c \in 0 .. MaxContacts
    BY DEF Ids
  <2> HIDE DEF moved, proves
  <2>5. CASE t \notin Open
    BY <2>1, <2>2, <2>5, SameTicket
  <2>6. CASE t \in Open /\ ticket'[t] = moved[t]
    BY <2>2, <2>3, <2>4, <2>6, SameTicket, Rehomed
  <2>7. CASE t \in Open /\ ticket'[t] = [moved[t] EXCEPT !.since = FALSE]
    <3>1. ticket[t] \in TicketRows /\ ticket[t] # None
      BY <2>7 DEF Open, Typed, TypeOK
    <3>2. \A r \in TicketRows : LET q == [r EXCEPT !.contact = c] IN
            /\ q \in TicketRows /\ q.session = r.session /\ q.pre = r.pre
            /\ q.personal = r.personal /\ q.contact = c
      BY <2>4 DEF TicketRows
    <3>3. /\ moved[t] \in TicketRows /\ moved[t].session = ticket[t].session
          /\ moved[t].pre = ticket[t].pre /\ moved[t].personal = ticket[t].personal
          /\ moved[t].contact \in {c, ticket[t].contact}
      BY <2>2, <3>1, <3>2
    <3>4. \A r \in TicketRows : LET q == [r EXCEPT !.since = FALSE] IN
            /\ q \in TicketRows /\ q.session = r.session /\ q.pre = r.pre
            /\ q.personal = r.personal /\ q.contact = r.contact /\ q.since = FALSE
      BY DEF TicketRows
    <3>5. /\ ticket'[t] \in TicketRows /\ ticket'[t].session = ticket[t].session
          /\ ticket'[t].pre = ticket[t].pre /\ ticket'[t].personal = ticket[t].personal
          /\ ticket'[t].contact \in {c, ticket[t].contact} /\ ticket'[t].since = FALSE
      BY <2>7, <3>3, <3>4
    <3> QED
      BY <2>3, <3>1, <3>5, Zenon DEF TicketFine, TicketKept, LandsOn
  <2> QED
    BY <2>1, <2>5, <2>6, <2>7, Zenon
<1> QED
  BY <1>1, <1>2, LinkIs, Zenon

(* A login moves tickets to its session and contact.                       *)
LEMMA MoveTicket ==
  ASSUME Typed, NEW p \in Procs, Move(p), NEW t \in Tickets
  PROVE  TicketFine(t)
<1> DEFINE s == job[p].session
           c == job[p].contact
<1>1. s \in Sessions /\ c \in 0 .. MaxContacts
  BY Zenon DEF Move, Typed, JobHeld, Jobs
<1>2. CASE UNCHANGED data
  BY <1>2, SameTicket DEF data
<1>3. CASE ~(c # 0 /\ ~Alive(c))
  <2>1. /\ ticket'[t] = IF t \notin {u \in Open : ticket[u].session = job[p].from}
                        THEN ticket[t]
                        ELSE [ticket[t] EXCEPT !.session = s, !.ext = TRUE,
                                !.contact = IF c # 0 THEN c ELSE @, !.pre = TRUE]
        /\ FaultIf(Erased(c) \/ session[s].state # "identified", "stale")
        /\ UNCHANGED contact
    BY <1>3, Zenon DEF Move, WrittenBefore
  <2>2. CASE ticket'[t] = ticket[t]
    BY <2>2, SameTicket
  <2>3. CASE /\ t \in Open
             /\ ticket'[t] = [ticket[t] EXCEPT !.session = s, !.ext = TRUE,
                                !.contact = IF c # 0 THEN c ELSE @, !.pre = TRUE]
    <3>1. ticket[t] \in TicketRows /\ ticket[t] # None
      BY <2>3 DEF Open, Typed, TypeOK
    <3>2. PICK d \in {c, ticket[t].contact} :
            /\ ticket'[t] = [ticket[t] EXCEPT !.session = s, !.ext = TRUE,
                                              !.contact = d, !.pre = TRUE]
            /\ d # ticket[t].contact => d = c /\ c # 0
      BY <2>3
    <3>3. d \in 0 .. MaxContacts
      BY <1>1, <3>1 DEF TicketRows
    <3> HIDE DEF s, c
    <3>4. \A r \in TicketRows :
            LET q == [r EXCEPT !.session = s, !.ext = TRUE, !.contact = d, !.pre = TRUE] IN
            /\ q \in TicketRows /\ q.pre = TRUE /\ q.since = r.since
            /\ q.personal = r.personal /\ q.contact = d
      BY <1>1, <3>3 DEF TicketRows
    <3>5. /\ ticket'[t] \in TicketRows /\ ticket'[t].pre = TRUE
          /\ ticket'[t].since = ticket[t].since
          /\ ticket'[t].personal = ticket[t].personal /\ ticket'[t].contact = d
      BY <3>1, <3>2, <3>4
    <3>6. d = ticket[t].contact \/ LandsOn(t)
      <4>1. CASE d # ticket[t].contact /\ Erased(c)
        <5>1. "stale" \in happened'
          BY <2>1, <4>1 DEF FaultIf
        <5> QED
          BY <5>1 DEF LandsOn, Without
      <4>2. CASE d # ticket[t].contact /\ ~Erased(c)
        <5>1. c # 0 /\ Alive(c) /\ d = c
          BY <1>3, <3>2, <4>2
        <5>2. contact'[c].state = "live"
          BY <2>1, <4>2, <5>1 DEF Alive, Erased
        <5> QED
          BY <3>5, <5>1, <5>2 DEF LandsOn
      <4> QED
        BY <4>1, <4>2
    <3> QED
      BY <3>1, <3>5, <3>6, Zenon DEF TicketFine, TicketKept
  <2> QED
    BY <2>1, <2>2, <2>3, Zenon
<1> QED
  BY <1>2, <1>3, ZenonT(30) DEF Move

(* A new ticket, of a session or of none.                                  *)
LEMMA NewIs ==
  ASSUME NEW s \in Sessions \cup {None}, NEW c \in 0 .. MaxContacts, NEW user \in BOOLEAN
  PROVE  /\ NewTicket(s, c, user) \in TicketRows
         /\ NewTicket(s, c, user).session = s /\ NewTicket(s, c, user).contact = c
         /\ ~NewTicket(s, c, user).pre
  BY DEF NewTicket, TicketRows

(* Only the ticket opened changes.                                         *)
LEMMA NewTicketFine ==
  ASSUME Typed, Open # Tickets, NEW row, ticket' = [ticket EXCEPT ![NextTicket] = row],
         TicketOpened(NextTicket), NEW t \in Tickets
  PROVE  TicketFine(t)
<1>1. CASE t = NextTicket
  BY <1>1, NextIsFree, Zenon DEF TicketFine
<1>2. CASE t # NextTicket
  BY <1>2, SameTicket DEF Typed, TypeOK
<1> QED
  BY <1>1, <1>2

(* A session's first message opens one on the contact it is linked to.     *)
LEMMA OpenFine ==
  ASSUME Typed, NEW p \in Procs, OpenTicket(p), NEW t \in Tickets
  PROVE  TicketFine(t)
<1> DEFINE s == job[p].session
           c == IF Alive(job[p].contact) THEN job[p].contact ELSE 0
           n == NextTicket
<1>1. s \in Sessions /\ job[p].contact \in 0 .. MaxContacts /\ job[p].user \in BOOLEAN
      /\ pc[p] = "open"
  BY DEF OpenTicket, Typed, JobHeld, Jobs
<1>2. CASE Open = Tickets
  BY <1>2, SameTicket DEF OpenTicket
<1>3. CASE Open # Tickets
  <2>1. /\ ticket' = [ticket EXCEPT ![n] = NewTicket(s, c, job[p].user)]
        /\ wrote' = [wrote EXCEPT ![n] = proofs[s] \cup
                       (IF job[p].user THEN {User} ELSE {})]
        /\ FaultIf(Erased(c), "stale") /\ UNCHANGED contact
    BY <1>3, Zenon DEF OpenTicket
  <2>2. n \in Tickets /\ ticket[n] = None
    BY <1>3, NextIsFree
  <2>3. c \in 0 .. MaxContacts
    BY <1>1, ContactsAssumption
  <2>4. ticket'[n] = NewTicket(s, c, job[p].user)
    BY <2>1, <2>2 DEF Typed, TypeOK
  <2>5. ticket'[n] \in TicketRows /\ ticket'[n].session = s /\ ticket'[n].contact = c
    <3> HIDE DEF s, c, n
    <3> QED
      BY <1>1, <2>3, <2>4, NewIs
  <2>6. OpenedBy(p, n)
    <3>1. wrote'[n] = proofs[s] \cup (IF job[p].user THEN {User} ELSE {})
      BY <2>1, <2>2 DEF Typed, TypeOK
    <3> QED
      BY <1>1, <2>5, <3>1 DEF OpenedBy, OpenTicket
  <2>7. LandsOn(n)
    <3>1. CASE Erased(c)
      <4>1. "stale" \in happened'
        BY <2>1, <3>1 DEF FaultIf
      <4> QED
        BY <4>1 DEF LandsOn, Without
    <3>2. CASE ~Erased(c)
      <4>1. c = 0 \/ contact[c].state = "live"
        BY <3>2 DEF Alive, Erased
      <4> QED
        BY <2>1, <2>5, <4>1 DEF LandsOn
    <3> QED
      BY <3>1, <3>2
  <2>8. TicketOpened(n)
    BY <2>5, <2>6, <2>7, Zenon DEF TicketOpened
  <2> HIDE DEF s, c
  <2> QED
    BY <1>3, <2>1, <2>8, NewTicketFine
<1> QED
  BY <1>2, <1>3

(* A form's has no contact yet, a mail's is on its sender's.               *)
LEMMA FormFine ==
  ASSUME Typed, NEW p \in Procs, NEW e, NEW ext \in BOOLEAN, SubmitForm(p, e, ext),
         NEW t \in Tickets
  PROVE  TicketFine(t)
<1>1. Open # Tickets /\ ticket' = [ticket EXCEPT ![NextTicket] = NewTicket(None, 0, ext)]
  BY DEF SubmitForm
<1>2. ticket'[NextTicket] = NewTicket(None, 0, ext)
  BY <1>1, NextIsFree DEF Typed, TypeOK
<1>3. 0 \in 0 .. MaxContacts
  BY ContactsAssumption
<1>4. TicketOpened(NextTicket)
  BY <1>2, <1>3, NewIs DEF TicketOpened, LandsOn
<1> QED
  BY <1>1, <1>4, NewTicketFine

(* A mail's.                                                               *)
LEMMA MailFine ==
  ASSUME Typed, NEW e \in Addrs, MailTicket(e), NEW t \in Tickets
  PROVE  TicketFine(t)
<1> DEFINE c == FirstOf(ContactFor(e))
<1>1. /\ Open # Tickets /\ ticket' = [ticket EXCEPT ![NextTicket] = NewTicket(None, c, FALSE)]
      /\ ContactFor(e) # {} /\ Declare(c, e)
  BY DEF MailTicket
<1>2. PICK row : Fits(c, row, {}) /\ Gives(c, row, {})
  BY <1>1, DeclareGives, TypedContacts
<1>3. c \in Ids /\ c \in 0 .. MaxContacts /\ contact'[c].state = "live"
  BY <1>2 DEF Fits, Gives, Ids
<1> HIDE DEF c
<1>4. ticket'[NextTicket] = NewTicket(None, c, FALSE)
  BY <1>1, NextIsFree DEF Typed, TypeOK
<1>5. /\ NewTicket(None, c, FALSE) \in TicketRows
      /\ NewTicket(None, c, FALSE).session = None /\ NewTicket(None, c, FALSE).contact = c
  BY <1>3, NewIs
<1>6. TicketOpened(NextTicket)
  BY <1>3, <1>4, <1>5, Zenon DEF TicketOpened, LandsOn
<1> QED
  BY <1>1, <1>6, NewTicketFine

(* A form's takes the contact found, if it is still there.                 *)
LEMMA AttachFine ==
  ASSUME Typed, NEW p \in Procs, AttachForm(p), NEW t \in Tickets
  PROVE  TicketFine(t)
<1> DEFINE c == job[p].contact
           n == job[p].ticket
<1>1. c \in 0 .. MaxContacts /\ n \in Open
  BY DEF AttachForm, Typed, JobHeld, Jobs
<1>2. CASE ticket'[t] = ticket[t]
  BY <1>2, SameTicket
<1>3. CASE ticket'[t] # ticket[t]
  <2>1. Alive(c) /\ ticket' = [ticket EXCEPT ![n].contact = c]
    BY <1>3 DEF AttachForm
  <2>2. t = n /\ ticket'[t] = [ticket[t] EXCEPT !.contact = c]
    BY <1>3, <2>1 DEF Typed, TypeOK
  <2>3. contact'[c].state = "live" \/ ~Without({"stale"})'
    <3>1. CASE Erased(c)
      BY <3>1 DEF AttachForm, FaultIf, Without
    <3>2. CASE ~Erased(c)
      BY <2>1, <3>2 DEF AttachForm, Alive, Erased
    <3> QED
      BY <3>1, <3>2
  <2> QED
    BY <1>1, <2>2, <2>3, Rehomed
<1> QED
  BY <1>2, <1>3

(* The backfill links one that has none.                                   *)
LEMMA BackfillTicketFine ==
  ASSUME Typed, NEW p \in Procs, BackfillLink(p), NEW t \in Tickets
  PROVE  TicketFine(t)
<1>1. CASE ticket'[t] = ticket[t]
  BY <1>1, SameTicket
<1>2. CASE ticket'[t] # ticket[t]
  <2>1. PICK c \in Ids :
          /\ contact'[c].state = "live" \/ "stale" \in happened'
          /\ job[p].ticket # 0 /\ ticket' = [ticket EXCEPT ![job[p].ticket].contact = c]
    BY <1>2, FilledIs, Zenon DEF data
  <2>2. t = job[p].ticket /\ ticket'[t] = [ticket[t] EXCEPT !.contact = c]
    <3>1. ticket = [r \in Tickets |-> ticket[r]]
      BY Zenon DEF Typed, TypeOK
    <3> QED
      BY <1>2, <2>1, <3>1
  <2>3. t \in Open
    BY <2>1, <2>2, Zenon DEF BackfillLink, Typed, JobHeld
  <2>4. c \in 0 .. MaxContacts
    BY DEF Ids
  <2>5. contact'[c].state = "live" \/ ~Without({"stale"})'
    BY <2>1 DEF Without
  <2> QED
    BY <2>2, <2>3, <2>4, <2>5, Rehomed, Zenon
<1> QED
  BY <1>1, <1>2

(* So does it those of the sessions that it linked.                        *)
LEMMA BackfillTicketsFine ==
  ASSUME Typed, BackfillTickets, NEW t \in Tickets
  PROVE  TicketFine(t)
<1>1. CASE ticket'[t] = ticket[t]
  BY <1>1, SameTicket
<1>2. CASE ticket'[t] # ticket[t]
  <2> DEFINE c == session[ticket[t].session].contact
  <2>1. t \in Open /\ c \in Live /\ ticket'[t] = [ticket[t] EXCEPT !.contact = c]
    BY <1>2 DEF BackfillTickets
  <2>2. c \in 0 .. MaxContacts /\ contact'[c].state = "live"
    BY <2>1 DEF BackfillTickets, Live, Ids
  <2> HIDE DEF c
  <2> QED
    BY <2>1, <2>2, Rehomed
<1> QED
  BY <1>1, <1>2

(* An agent links one to a live contact, or to none.                       *)
LEMMA SetFine ==
  ASSUME Typed, NEW u \in Tickets, NEW c \in 0 .. MaxContacts, SetContact(u, c), NEW t \in Tickets
  PROVE  TicketFine(t)
<1>1. CASE t # u
  BY <1>1, SameTicket DEF SetContact, Typed, TypeOK
<1>2. CASE t = u
  <2>1. t \in Open /\ ticket'[t] = [ticket[t] EXCEPT !.contact = c]
    BY <1>2 DEF SetContact, Typed, TypeOK
  <2>2. c = 0 \/ contact'[c].state = "live"
    BY DEF SetContact, Live
  <2> QED
    BY <2>1, <2>2, Rehomed
<1> QED
  BY <1>1, <1>2

(* A contact deleted leaves its tickets; one erased, nothing in them.      *)
LEMMA EraseFine ==
  ASSUME Typed, NEW c \in Ids, DeleteContact(c) \/ Anonymize(c), NEW t \in Tickets
  PROVE  TicketFine(t)
<1>1. CASE DeleteContact(c)
  <2>1. \/ ticket'[t] = ticket[t]
        \/ t \in Open /\ ticket'[t] = [ticket[t] EXCEPT !.contact = 0]
    BY <1>1 DEF DeleteContact
  <2>2. 0 \in 0 .. MaxContacts
    BY ContactsAssumption
  <2> QED
    BY <2>1, <2>2, Rehomed, SameTicket
<1>2. CASE Anonymize(c)
  <2>1. CASE t \notin TicketsOf(c)
    BY <1>2, <2>1, SameTicket DEF Anonymize
  <2>2. CASE t \in TicketsOf(c)
    <3>1. t \in Open /\ ticket'[t] = ScrubbedTicket(c, t) /\ msgs'[t] = {}
      BY <1>2, <2>2 DEF Anonymize, TicketsOf, ScrubbedMessages
    <3>2. ticket[t] \in TicketRows /\ ticket[t] # None
      BY <3>1 DEF Open, Typed, TypeOK
    <3>3. PICK d \in {0, c} :
            ticket'[t] = [ticket[t] EXCEPT !.session = None, !.ext = FALSE,
                                           !.personal = FALSE, !.contact = d]
      BY <3>1 DEF ScrubbedTicket
    <3>4. d \in 0 .. MaxContacts
      BY ContactsAssumption DEF Ids
    <3>5. \A r \in TicketRows :
            LET q == [r EXCEPT !.session = None, !.ext = FALSE,
                               !.personal = FALSE, !.contact = d] IN
            /\ q \in TicketRows /\ q.session = None /\ q.pre = r.pre /\ q.since = r.since
            /\ q.personal = FALSE
      BY <3>4 DEF TicketRows
    <3>6. /\ ticket'[t] \in TicketRows /\ ticket'[t].session = None
          /\ ticket'[t].pre = ticket[t].pre /\ ticket'[t].since = ticket[t].since
          /\ ticket'[t].personal = FALSE
      BY <3>2, <3>3, <3>5
    <3> QED
      BY <3>1, <3>2, <3>6, Zenon DEF TicketFine, TicketKept
  <2> QED
    BY <2>1, <2>2
<1> QED
  BY <1>1, <1>2

(* Every step keeps the tickets right.                                     *)
LEMMA TicketMoves ==
  ASSUME Typed, [Next]_vars, NEW t \in Tickets
  PROVE  TicketFine(t)
<1>1. UNCHANGED ticket => TicketFine(t)
  BY SameTicket
<1> QED
  BY <1>1, TicketSteps, LinkTicket, MoveTicket, OpenFine, FormFine, MailFine, AttachFine,
     BackfillTicketFine, BackfillTicketsFine, SetFine, EraseFine, Zenon DEF TicketStep

(* They stay a function.                                                   *)
LEMMA TicketsAreFunctions == Typed /\ [Next]_vars => ticket' = [t \in Tickets |-> ticket'[t]]
<1> SUFFICES ASSUME Typed, [Next]_vars PROVE ticket' = [t \in Tickets |-> ticket'[t]]
  OBVIOUS
<1>1. ticket = [t \in Tickets |-> ticket[t]]
  BY DEF Typed, TypeOK
<1>2. UNCHANGED ticket => ticket' = [t \in Tickets |-> ticket'[t]]
  BY <1>1
<1>3. ASSUME NEW n, NEW row, ticket' = [ticket EXCEPT ![n] = row]
      PROVE  ticket' = [t \in Tickets |-> ticket'[t]]
  BY <1>1, <1>3, SMTT(30)
<1>4. ASSUME NEW p \in Procs, Move(p) PROVE ticket' = [t \in Tickets |-> ticket'[t]]
  <2>1. CASE UNCHANGED data
    BY <1>1, <2>1, SMTT(30) DEF data
  <2>2. CASE ~(job[p].contact # 0 /\ ~Alive(job[p].contact))
    BY <1>4, <2>2 DEF Move
  <2> QED
    BY <1>4, <2>1, <2>2 DEF Move
<1>5. ASSUME NEW p \in Procs, Link(p) PROVE ticket' = [t \in Tickets |-> ticket'[t]]
  <2>1. ASSUME NEW c, LinkTo(p, c) PROVE ticket' = [t \in Tickets |-> ticket'[t]]
    BY <2>1 DEF LinkTo
  <2> QED
    BY <1>1, <1>5, <2>1, LinkIs
<1>6. ASSUME NEW p \in Procs, OpenTicket(p) \/ AttachForm(p)
      PROVE  ticket' = [t \in Tickets |-> ticket'[t]]
  BY <1>1, <1>6 DEF OpenTicket, AttachForm
<1>7. ASSUME NEW p \in Procs, BackfillLink(p) PROVE ticket' = [t \in Tickets |-> ticket'[t]]
  BY <1>1, <1>7, FilledIs, Zenon DEF data
<1>8. ASSUME NEW p, NEW e, NEW x, \/ SubmitForm(p, e, x) \/ MailTicket(e) \/ SetContact(p, x)
      PROVE  ticket' = [t \in Tickets |-> ticket'[t]]
  BY <1>1, <1>8 DEF SubmitForm, MailTicket, SetContact
<1>9. ASSUME NEW c, DeleteContact(c) \/ Anonymize(c) \/ BackfillTickets
      PROVE  ticket' = [t \in Tickets |-> ticket'[t]]
  BY <1>9 DEF DeleteContact, Anonymize, BackfillTickets
<1> QED
  BY <1>2, <1>4, <1>5, <1>6, <1>7, <1>8, <1>9, TicketSteps, Zenon DEF TicketStep

(* Every step keeps their types, and no ticket is closed.                  *)
LEMMA TicketsTyped ==
  ASSUME Typed, [Next]_vars
  PROVE  ticket' \in [Tickets -> TicketRows \cup {None}] /\ Open \subseteq Open'
<1>1. \A t \in Tickets : ticket'[t] \in TicketRows \cup {None}
  BY TicketMoves DEF TicketFine, TicketOpened, TicketKept
<1>2. \A t \in Tickets : ticket[t] # None => ticket'[t] # None
  BY TicketMoves, NoneAssumption DEF TicketFine, TicketKept
<1> QED
  BY <1>1, <1>2, TicketsAreFunctions DEF Open

-----------------------------------------------------------------------------

(* The requests                                                            *)

(* What a request holds at a step, when those tickets are open and those   *)
(* contacts were born.                                                     *)
JobFine(step, j, open, born) ==
  step # "idle" =>
    /\ j \in Jobs
    /\ step \in {"save", "link", "move", "open", "write"} => j.session \in Sessions
    /\ step = "move" => j.from \in Sessions
    /\ step \in {"write", "post", "form", "attach"} => j.ticket \in open
    /\ step = "form" => j.email \in Addrs
    /\ step = "backfill" =>
         /\ j.ticket # 0 => j.ticket \in open
         /\ j.contact # 0 => j.contact \in born

Born == {c \in Ids : contact[c].state # "unborn"}
AllSteps == {"idle", "save", "link", "move", "empty", "open", "write",
             "prove", "post", "backfill", "form", "attach"}

(* It is what the types say, of every request.                             *)
LEMMA JobsHeld ==
  ASSUME Typed, NEW p \in Procs
  PROVE  JobFine(pc[p], job[p], Open, Born)
<1>1. pc[p] # "idle" => job[p] \in Jobs
  BY DEF Typed, JobHeld
<1>2. \A j \in Jobs : j.contact # 0 => j.contact \in Ids
  BY ContactsAssumption DEF Jobs, Ids
<1> QED
  BY <1>1, <1>2, Zenon DEF Typed, JobHeld, JobFine, Born

(* What a request says that its session proved, it did; an address whose   *)
(* link it follows was mailed there; and whoever it says writes, does.     *)
Shown(p, step, j) ==
  /\ step \in {"save", "link"} /\ j.proved =>
       (pc[p] = "save" /\ j = job[p]) \/ j.email \in proofs'[j.session]
  /\ step = "prove" => j.email \in opened'
  /\ step = "open" => /\ session[j.session].state # "unborn"
                      /\ session[j.session].state = "identified" => j.user

(* A step of a request to one of its steps.                                *)
Requests(p, step, j) ==
  /\ Goto(p, step, j) /\ step \in AllSteps /\ j \in Jobs \cup {None}
  /\ JobFine(step, j, Open', Born') /\ Shown(p, step, j)

(* Whoever was born stays born.                                            *)
LEMMA BornStay == Typed /\ [Next]_vars => Born \subseteq Born' /\ Open \subseteq Open'
  BY ContactsNext, TicketsTyped DEF Born

(* So what a request held it holds.                                        *)
LEMMA JobStays ==
  ASSUME Typed, [Next]_vars, NEW step, NEW j, JobFine(step, j, Open, Born)
  PROVE  JobFine(step, j, Open', Born')
  BY BornStay, Zenon DEF JobFine

(* A job of a session, as it is loaded.                                    *)
LEMMA NewJobIs ==
  ASSUME Typed, NEW s \in Sessions
  PROVE  /\ NewJob(s) \in Jobs /\ NewJob(s).session = s
         /\ NewJob(s).email = session[s].email
         /\ session[s].state = "identified" => NewJob(s).user
<1>1. session[s] \in WidgetSessions
  BY DEF Typed, TypeOK
<1>2. /\ session[s].email \in Emails /\ session[s].contact \in 0 .. MaxContacts
      /\ (session[s].proof # None) \in BOOLEAN
      /\ (session[s].state = "identified") \in BOOLEAN
      /\ s \in Sessions \cup {None} /\ None \in Sessions \cup {None}
      /\ 0 \in 0 .. MaxTickets /\ {} \in SUBSET Ids
  BY <1>1, ContactsAssumption DEF WidgetSessions
<1> QED
  BY <1>2 DEF NewJob, Jobs

(* A job that is changed stays one.                                        *)
LEMMA JobChanges ==
  ASSUME NEW j \in Jobs
  PROVE  /\ \A c \in 0 .. MaxContacts : LET q == [j EXCEPT !.contact = c] IN
              /\ q \in Jobs /\ q.session = j.session /\ q.contact = c
              /\ q.ticket = j.ticket /\ q.from = j.from
         /\ \A E \in SUBSET Ids : [j EXCEPT !.left = E] \in Jobs
<1>1. \A c \in 0 .. MaxContacts : LET q == [j EXCEPT !.contact = c] IN
        /\ q \in Jobs /\ q.session = j.session /\ q.contact = c
        /\ q.ticket = j.ticket /\ q.from = j.from
  BY DEF Jobs
<1>2. \A E \in SUBSET Ids : [j EXCEPT !.left = E] \in Jobs
  BY DEF Jobs
<1> QED
  BY <1>1, <1>2, Zenon

(* One of no session: of a form, of a link, of a ticket.                   *)
LEMMA NoSessionJob ==
  ASSUME NEW e \in Emails, NEW c \in 0 .. MaxContacts, NEW h \in BOOLEAN, NEW u \in BOOLEAN,
         NEW t \in 0 .. MaxTickets
  PROVE  LET q == [session |-> None, email |-> e, contact |-> c, had |-> h, user |-> u,
                   proved |-> FALSE, from |-> None, ticket |-> t, left |-> {}] IN
         q \in Jobs /\ q.email = e /\ q.ticket = t
  BY DEF Jobs

Runs == \E p \in Procs : \E step, j : Requests(p, step, j)

(* A request that ends holds nothing.                                      *)
LEMMA Ends == ASSUME NEW p \in Procs, Return(p) PROVE Runs
<1>1. Goto(p, "idle", None) /\ "idle" \in AllSteps /\ None \in Jobs \cup {None}
  BY DEF Return, AllSteps
<1>2. JobFine("idle", None, Open', Born') /\ Shown(p, "idle", None)
  BY DEF JobFine, Shown
<1> QED
  BY <1>1, <1>2, Zenon DEF Runs, Requests

(* One that goes on holds what it should already.                          *)
LEMMA GoesOn ==
  ASSUME Typed, [Next]_vars, NEW p \in Procs, NEW step \in AllSteps, NEW j \in Jobs,
         Goto(p, step, j), JobFine(step, j, Open, Born), Shown(p, step, j)
  PROVE  Runs
<1>1. JobFine(step, j, Open', Born')
  BY JobStays
<1> QED
  BY <1>1, Zenon DEF Runs, Requests

(* The widget's begin, with the session's.                                 *)
LEMMA WidgetRuns ==
  ASSUME Typed, [Next]_vars, NEW p \in Procs, NEW s \in Sessions, NEW e \in Emails,
         NEW signed \in Signatures(e), WidgetSession(p, s, e, signed)
  PROVE  Runs
<1>1. signed \in BOOLEAN /\ NewJob(s) \in Jobs /\ NewJob(s).session = s
  BY NewJobIs DEF Signatures
<1> DEFINE Told(j) == j.session = s /\ j.email = e /\ j.proved = signed
<1>2. Prove(s, e, signed)
  BY DEF WidgetSession, Visit, UpdateSession, Login
<1>3. signed => e \in proofs'[s]
  BY <1>2 DEF Prove, Typed, TypeOK
<1>4. ASSUME NEW step \in {"link", "save"}, NEW j \in Jobs, Told(j), Begin(p, step, j)
      PROVE  Runs
  <2>1. Goto(p, step, j)
    BY <1>4 DEF Begin, Goto
  <2>2. JobFine(step, j, Open, Born) /\ step \in AllSteps
    BY <1>4 DEF JobFine, AllSteps
  <2>3. Shown(p, step, j)
    BY <1>3, <1>4 DEF Shown
  <2> QED
    BY <2>1, <2>2, <2>3, GoesOn
<1>5. ASSUME NEW kind, NEW j \in Jobs, Told(j), Enter(p, s, kind, j) PROVE Runs
  BY <1>4, <1>5 DEF Enter
<1>6. CASE Visit(p, s, e, signed) \/ UpdateSession(p, s, e, signed)
  <2> DEFINE j == [NewJob(s) EXCEPT !.email = e, !.proved = signed]
  <2>1. j \in Jobs /\ Told(j)
    <3>1. \A q \in Jobs : LET r == [q EXCEPT !.email = e, !.proved = signed] IN
            r \in Jobs /\ r.session = q.session /\ r.email = e /\ r.proved = signed
      BY <1>1 DEF Jobs
    <3> QED
      BY <1>1, <3>1
  <2>2. Enter(p, s, "anonymous", j) \/ Begin(p, "save", j)
    BY <1>6, Zenon DEF Visit, UpdateSession
  <2> HIDE DEF j, Told
  <2> QED
    BY <1>4, <1>5, <2>1, <2>2
<1>7. ASSUME NEW from \in Sessions \cup {None}, Login(p, s, from, e, signed) PROVE Runs
  <2> DEFINE j == [NewJob(s) EXCEPT !.email = e, !.user = TRUE, !.proved = signed,
                                    !.from = from]
  <2>1. j \in Jobs /\ Told(j)
    <3>1. \A q \in Jobs :
            LET r == [q EXCEPT !.email = e, !.user = TRUE, !.proved = signed, !.from = from] IN
            r \in Jobs /\ r.session = q.session /\ r.email = e /\ r.proved = signed
      BY <1>1 DEF Jobs
    <3> QED
      BY <1>1, <3>1
  <2>2. Enter(p, s, "identified", j)
    BY <1>7, Zenon DEF Login
  <2> HIDE DEF j, Told
  <2> QED
    BY <1>5, <2>1, <2>2
<1> QED
  BY <1>6, <1>7, Zenon DEF WidgetSession

(* A code's, and a message's.                                              *)
LEMMA SessionRuns ==
  ASSUME Typed, [Next]_vars, NEW p \in Procs, NEW s \in Sessions,
         \/ VerifyCode(p, s) \/ FirstMessage(p, s) \/ \E t \in Tickets : MessageOn(p, s, t)
  PROVE  Runs
<1>1. /\ NewJob(s) \in Jobs /\ NewJob(s).session = s /\ NewJob(s).email = session[s].email
      /\ session[s].state = "identified" => NewJob(s).user
  BY NewJobIs
<1>2. CASE VerifyCode(p, s)
  <2> DEFINE j == [NewJob(s) EXCEPT !.proved = TRUE]
  <2>1. j \in Jobs /\ j.session = s /\ j.email = session[s].email
    <3>1. \A q \in Jobs : LET r == [q EXCEPT !.proved = TRUE] IN
            r \in Jobs /\ r.session = q.session /\ r.email = q.email
      BY DEF Jobs
    <3> QED
      BY <1>1, <3>1
  <2>2. Goto(p, "link", j)
    BY <1>2 DEF VerifyCode, Begin, Goto
  <2> HIDE DEF j
  <2>3. JobFine("link", j, Open, Born) /\ "link" \in AllSteps
    BY <2>1 DEF JobFine, AllSteps
  <2>4. session[s].email \in proofs'[s]
    BY <1>2 DEF VerifyCode, Prove, Typed, TypeOK
  <2>5. Shown(p, "link", j)
    BY <2>1, <2>4 DEF Shown
  <2> QED
    BY <2>1, <2>2, <2>3, <2>5, GoesOn
<1>3. CASE FirstMessage(p, s)
  <2>1. Goto(p, "open", NewJob(s))
    BY <1>3 DEF FirstMessage, Begin, Goto
  <2>2. JobFine("open", NewJob(s), Open, Born) /\ "open" \in AllSteps
    BY <1>1 DEF JobFine, AllSteps
  <2>3. Shown(p, "open", NewJob(s))
    BY <1>1, <1>3 DEF Shown, FirstMessage
  <2> QED
    BY <1>1, <2>1, <2>2, <2>3, GoesOn
<1>4. ASSUME NEW t \in Tickets, MessageOn(p, s, t) PROVE Runs
  <2> DEFINE j == [NewJob(s) EXCEPT !.ticket = t, !.from = ticket[t].session]
  <2>1. t \in Open /\ ticket[t] \in TicketRows
    BY <1>4 DEF MessageOn, Open, Typed, TypeOK
  <2>2. t \in 0 .. MaxTickets /\ ticket[t].session \in Sessions \cup {None}
    BY <2>1 DEF TicketRows, Tickets
  <2>3. j \in Jobs /\ j.session = s /\ j.ticket = t
    <3>1. \A q \in Jobs : LET r == [q EXCEPT !.ticket = t, !.from = ticket[t].session] IN
            r \in Jobs /\ r.session = q.session /\ r.ticket = t
      BY <2>2 DEF Jobs
    <3> QED
      BY <1>1, <3>1
  <2>4. Goto(p, "write", j)
    BY <1>4 DEF MessageOn, Begin, Goto
  <2> HIDE DEF j
  <2>5. JobFine("write", j, Open, Born) /\ Shown(p, "write", j)
        /\ "write" \in AllSteps
    BY <2>1, <2>3 DEF JobFine, AllSteps, Shown
  <2> QED
    BY <2>3, <2>4, <2>5, GoesOn
<1> QED
  BY <1>2, <1>3, <1>4

(* The backfill's: the contact that it finds is live.                      *)
LEMMA BackfillRuns ==
  ASSUME Typed, [Next]_vars, NEW p \in Procs, NEW e \in Emails,
         \/ \E s \in Sessions : BackfillSession(p, s, e)
         \/ \E t \in Tickets : BackfillTicket(p, t, e)
  PROVE  Runs
<1>1. ASSUME NEW j \in Jobs, j.ticket # 0 => j.ticket \in Open, Backfill(p, j) PROVE Runs
  <2> DEFINE known == Known(j.user, j.email)
             c == IF known = {} THEN 0 ELSE FirstOf(known)
             q == [j EXCEPT !.contact = c]
  <2>1. known \subseteq Live
    BY HoldersAre, TypedContacts DEF Known
  <2>2. known # {} => FirstOf(known) \in Live
    BY <2>1, FirstIsIn, HoldersAre, TypedContacts
  <2>3. c = 0 \/ c \in Live
    BY <2>2
  <2>4. c \in 0 .. MaxContacts /\ (c # 0 => c \in Born)
    BY <2>3, ContactsAssumption DEF Live, Born, Ids
  <2>5. Goto(p, "backfill", q)
    BY <1>1 DEF Backfill, Begin, Goto
  <2> HIDE DEF c
  <2>6. q \in Jobs /\ q.ticket = j.ticket /\ q.contact = c
    BY <2>4, JobChanges
  <2> HIDE DEF q
  <2>7. JobFine("backfill", q, Open, Born) /\ Shown(p, "backfill", q)
        /\ "backfill" \in AllSteps
    BY <1>1, <2>4, <2>6 DEF JobFine, AllSteps, Shown
  <2> QED
    BY <2>5, <2>6, <2>7, GoesOn
<1>2. ASSUME NEW s \in Sessions, BackfillSession(p, s, e) PROVE Runs
  <2> DEFINE h == session[s].email # None
             j == [NewJob(s) EXCEPT !.email = e, !.had = h]
  <2>1. h \in BOOLEAN /\ NewJob(s) \in Jobs /\ NewJob(s).ticket = 0
    BY NewJobIs DEF NewJob
  <2>2. Backfill(p, j)
    BY <1>2 DEF BackfillSession
  <2> HIDE DEF h
  <2>3. j \in Jobs /\ j.ticket = 0
    <3>1. \A q \in Jobs : LET r == [q EXCEPT !.email = e, !.had = h] IN
            r \in Jobs /\ r.ticket = q.ticket
      BY <2>1 DEF Jobs
    <3> QED
      BY <2>1, <3>1
  <2> HIDE DEF j
  <2> QED
    BY <1>1, <2>2, <2>3
<1>3. ASSUME NEW t \in Tickets, BackfillTicket(p, t, e) PROVE Runs
  <2> DEFINE u == Vouched(t)
             j == [session |-> None, email |-> e, contact |-> 0, had |-> TRUE,
                   user |-> u, proved |-> FALSE, from |-> None, ticket |-> t, left |-> {}]
  <2>1. t \in Open /\ t \in 0 .. MaxTickets /\ 0 \in 0 .. MaxContacts
    BY <1>3, ContactsAssumption DEF BackfillTicket, Tickets
  <2>2. u \in BOOLEAN
    <3>1. ticket[t] \in TicketRows
      BY <2>1 DEF Open, Typed, TypeOK
    <3> QED
      BY <3>1, Zenon DEF Vouched
  <2>3. Backfill(p, j)
    BY <1>3, Zenon DEF BackfillTicket
  <2> HIDE DEF u
  <2>4. j \in Jobs /\ j.ticket = t
    BY <2>1, <2>2, NoSessionJob
  <2> HIDE DEF j
  <2> QED
    BY <1>1, <2>1, <2>3, <2>4
<1> QED
  BY <1>2, <1>3

(* A form's, with the ticket it opened.                                    *)
LEMMA FormRuns ==
  ASSUME Typed, [Next]_vars, NEW p \in Procs, NEW e \in Addrs, NEW ext \in BOOLEAN,
         SubmitForm(p, e, ext)
  PROVE  Runs
<1> DEFINE n == NextTicket
           j == [session |-> None, email |-> e, contact |-> 0, had |-> FALSE,
                 user |-> ext, proved |-> FALSE, from |-> None, ticket |-> n, left |-> {}]
<1>1. Open # Tickets /\ ticket' = [ticket EXCEPT ![n] = NewTicket(None, 0, ext)]
  BY DEF SubmitForm
<1>2. n \in Tickets
  BY <1>1, NextIsFree
<1>3. n \in 0 .. MaxTickets /\ 0 \in 0 .. MaxContacts /\ e \in Emails
  BY <1>2, ContactsAssumption DEF Tickets, Emails
<1>4. ticket'[n] \in TicketRows
  <2>1. ticket'[n] = NewTicket(None, 0, ext)
    BY <1>1, <1>2 DEF Typed, TypeOK
  <2> QED
    BY <1>3, <2>1, NewIs
<1>5. n \in Open'
  BY <1>2, <1>4, NoneAssumption DEF Open
<1>6. Goto(p, "form", j)
  BY DEF SubmitForm, Begin, Goto
<1> HIDE DEF n
<1>7. j \in Jobs /\ j.email = e /\ j.ticket = n
  BY <1>3, NoSessionJob
<1> HIDE DEF j
<1>8. JobFine("form", j, Open', Born') /\ Shown(p, "form", j) /\ "form" \in AllSteps
  BY <1>5, <1>7, Zenon DEF JobFine, AllSteps, Shown
<1> QED
  BY <1>6, <1>7, <1>8, Zenon DEF Runs, Requests

(* A mailed link's.                                                        *)
LEMMA LinkRuns ==
  ASSUME Typed, [Next]_vars, NEW p \in Procs, NEW claim \in links,
         OpenLink(p, claim) \/ PostLink(p, claim)
  PROVE  Runs
<1>1. claim \in Claims
  BY DEF Typed, TypeOK
<1>2. ASSUME NEW step \in {"prove", "post"}, FollowLink(p, step, claim),
             step = "prove" => claim.email \in opened'
      PROVE  Runs
  <2> DEFINE e == claim.email
             c == claim.contact
             t == claim.ticket
             j == [session |-> None, email |-> e, contact |-> c, had |-> FALSE,
                   user |-> FALSE, proved |-> FALSE, from |-> None, ticket |-> t, left |-> {}]
  <2>1. e \in Emails /\ c \in 0 .. MaxContacts /\ t \in 0 .. MaxTickets /\ t \in Open
    BY <1>1, <1>2, ContactsAssumption
    DEF FollowLink, Opens, Open, Claims, Emails, Ids, Tickets
  <2>2. Goto(p, step, j)
    BY <1>2 DEF FollowLink, Begin, Goto
  <2> HIDE DEF e, c, t
  <2>3. j \in Jobs /\ j.ticket = t /\ j.email = e
    BY <2>1, NoSessionJob
  <2>4. step = "prove" => e \in opened'
    BY <1>2 DEF e
  <2> HIDE DEF j
  <2>5. JobFine(step, j, Open, Born) /\ Shown(p, step, j) /\ step \in AllSteps
    BY <1>2, <2>1, <2>3, <2>4 DEF JobFine, AllSteps, Shown
  <2> QED
    BY <2>2, <2>3, <2>5, GoesOn
<1> QED
  BY <1>2 DEF OpenLink, PostLink

(* Then a request goes on, from step to step.                              *)
LEMMA StepRuns ==
  ASSUME Typed, [Next]_vars, NEW p \in Procs, Save(p) \/ FormContact(p) \/ Link(p) \/ Move(p)
  PROVE  Runs
<1>1. CASE Save(p)
  <2>1. job[p] \in Jobs /\ job[p].session \in Sessions /\ Goto(p, "link", job[p])
    BY <1>1 DEF Save, Typed, JobHeld
  <2>2. JobFine("link", job[p], Open, Born) /\ Shown(p, "link", job[p]) /\ "link" \in AllSteps
    BY <1>1, <2>1 DEF JobFine, AllSteps, Shown, Save
  <2> QED
    BY <2>1, <2>2, GoesOn
<1>2. CASE FormContact(p)
  <2>1. job[p] \in Jobs /\ job[p].email \in Addrs /\ job[p].ticket \in Open
    BY <1>2 DEF FormContact, Typed, JobHeld
  <2>2. CASE Return(p)
    BY <2>2, Ends
  <2>3. CASE ~Return(p)
    <3> DEFINE c == FirstOf(ContactFor(job[p].email))
               j == [job[p] EXCEPT !.contact = c]
    <3>1. ContactFor(job[p].email) # {} /\ Goto(p, "attach", j)
      BY <1>2, <2>3 DEF FormContact
    <3>2. c \in Ids
      <4>1. ContactFor(job[p].email) \in SUBSET Nat /\ ContactFor(job[p].email) \subseteq Ids
        BY HoldersAre, TypedContacts DEF ContactFor
      <4> QED
        BY <3>1, <4>1, FirstIsIn
    <3>3. c \in 0 .. MaxContacts
      BY <3>2 DEF Ids
    <3> HIDE DEF c
    <3>4. j \in Jobs /\ j.ticket = job[p].ticket
      BY <2>1, <3>3, JobChanges
    <3> HIDE DEF j
    <3>5. JobFine("attach", j, Open, Born) /\ Shown(p, "attach", j)
        /\ "attach" \in AllSteps
      BY <2>1, <3>4 DEF JobFine, AllSteps, Shown
    <3> QED
      BY <3>1, <3>4, <3>5, GoesOn
  <2> QED
    BY <2>2, <2>3
<1>3. CASE Link(p)
  <2>1. job[p] \in Jobs /\ job[p].session \in Sessions
    BY <1>3, LinkIs
  <2>2. ASSUME NEW c \in 0 .. MaxContacts, GoOn(p, c) PROVE Runs
    <3> DEFINE j == [job[p] EXCEPT !.contact = c]
    <3>1. j \in Jobs /\ j.session = job[p].session /\ j.from = job[p].from
      BY <2>1, <2>2, JobChanges
    <3>2. CASE job[p].from = None
      BY <2>2, <3>2, Ends DEF GoOn
    <3>3. CASE job[p].from # None
      <4>1. Goto(p, "move", j) /\ job[p].from \in Sessions
        BY <2>1, <2>2, <3>3 DEF GoOn, Jobs
      <4> HIDE DEF j
      <4>2. JobFine("move", j, Open, Born) /\ Shown(p, "move", j)
        /\ "move" \in AllSteps
        BY <2>1, <3>1, <4>1 DEF JobFine, AllSteps, Shown
      <4> QED
        BY <3>1, <4>1, <4>2, GoesOn
    <3> QED
      BY <3>2, <3>3
  <2>3. GoOn(p, 0) \/ \E c \in Ids : GoOn(p, c)
    BY <1>3, LinkIs, Zenon DEF LinkTo
  <2>4. 0 \in 0 .. MaxContacts /\ Ids \subseteq 0 .. MaxContacts
    BY ContactsAssumption DEF Ids
  <2> QED
    BY <2>2, <2>3, <2>4
<1>4. CASE Move(p)
  <2> DEFINE a == job[p].from
             c == job[p].contact
             mine == {t \in Open : ticket[t].session = a}
             E == ({session[a].contact} \cup {ticket[t].contact : t \in mine}) \ {0, c}
             j == [job[p] EXCEPT !.left = E]
  <2>1. job[p] \in Jobs /\ a \in Sessions
    BY <1>4, Zenon DEF Move, Typed, JobHeld
  <2>2. Return(p) \/ Goto(p, "empty", j)
    BY <1>4, Zenon DEF Move
  <2>3. E \in SUBSET Ids
    <3>1. session[a].contact \in 0 .. MaxContacts
      BY <2>1 DEF Typed, TypeOK, WidgetSessions
    <3>2. \A t \in mine : ticket[t].contact \in 0 .. MaxContacts
      BY DEF Typed, TypeOK, TicketRows, Open
    <3>3. \A d \in 0 .. MaxContacts : d # 0 => d \in Ids
      BY ContactsAssumption DEF Ids
    <3> HIDE DEF a, c, mine
    <3> QED
      BY <3>1, <3>2, <3>3
  <2> HIDE DEF E
  <2>4. j \in Jobs
    BY <2>1, <2>3, JobChanges
  <2> HIDE DEF j
  <2>5. JobFine("empty", j, Open, Born) /\ Shown(p, "empty", j)
        /\ "empty" \in AllSteps
    BY <2>4 DEF JobFine, AllSteps, Shown
  <2> QED
    BY <2>2, <2>4, <2>5, Ends, GoesOn
<1> QED
  BY <1>1, <1>2, <1>3, <1>4

(* A ticket opened is written on.                                          *)
LEMMA OpenRuns ==
  ASSUME Typed, [Next]_vars, NEW p \in Procs, OpenTicket(p)
  PROVE  Runs
<1> DEFINE s == job[p].session
           n == NextTicket
           j == [job[p] EXCEPT !.ticket = n, !.from = s]
<1>1. job[p] \in Jobs /\ s \in Sessions
  BY DEF OpenTicket, Typed, JobHeld
<1>2. CASE Open = Tickets
  BY <1>2, Ends DEF OpenTicket
<1>3. CASE Open # Tickets
  <2>1. PICK c \in {0, job[p].contact} :
          ticket' = [ticket EXCEPT ![n] = NewTicket(s, c, job[p].user)]
    BY <1>3, Zenon DEF OpenTicket
  <2>2. n \in Tickets
    BY <1>3, NextIsFree
  <2>3. ticket'[n] # None
    <3>1. c \in 0 .. MaxContacts /\ job[p].user \in BOOLEAN /\ s \in Sessions \cup {None}
      BY <1>1, ContactsAssumption DEF Jobs
    <3>2. ticket'[n] = NewTicket(s, c, job[p].user)
      BY <2>1, <2>2 DEF Typed, TypeOK
    <3> HIDE DEF s, n
    <3> QED
      BY <3>1, <3>2, NewIs, NoneAssumption
  <2>4. n \in Open' /\ n \in 0 .. MaxTickets /\ s \in Sessions \cup {None}
    BY <1>1, <2>2, <2>3 DEF Open, Tickets
  <2>5. Goto(p, "write", j)
    BY <1>3, Zenon DEF OpenTicket
  <2> HIDE DEF n, s
  <2>6. j \in Jobs /\ j.session = job[p].session /\ j.ticket = n
    <3>1. \A q \in Jobs : LET r == [q EXCEPT !.ticket = n, !.from = s] IN
            r \in Jobs /\ r.session = q.session /\ r.ticket = n
      BY <2>4, Zenon DEF Jobs
    <3> QED
      BY <1>1, <3>1
  <2> HIDE DEF j
  <2>7. JobFine("write", j, Open', Born') /\ Shown(p, "write", j)
        /\ "write" \in AllSteps
    BY <1>1, <2>4, <2>6, Zenon DEF JobFine, AllSteps, Shown, s
  <2> QED
    BY <2>5, <2>6, <2>7, Zenon DEF Runs, Requests
<1> QED
  BY <1>2, <1>3

(* Every step leaves the requests, or takes one to a step of its own.      *)
LEMMA RequestMoves ==
  ASSUME Typed, [Next]_vars
  PROVE  UNCHANGED <<pc, job>> \/ Runs
<1> DEFINE Fine == UNCHANGED <<pc, job>> \/ Runs
<1>1. ASSUME NEW p \in Procs, NEW e \in Addrs, NEW ext \in BOOLEAN, SubmitForm(p, e, ext)
      PROVE  Fine
  BY <1>1, FormRuns
<1>2. ASSUME NEW p \in Procs, \/ AttachForm(p) \/ BackfillLink(p) \/ MarkProven(p) \/ Post(p)
                              \/ DeleteEmptied(p) \/ Write(p)
      PROVE  Fine
  <2>1. Return(p)
    BY <1>2, Zenon DEF AttachForm, BackfillLink, MarkProven, Post, DeleteEmptied, Write
  <2> QED
    BY <2>1, Ends
<1>3. ASSUME NEW s, NEW e, SendCode(s) \/ MailTicket(e) PROVE Fine
  BY <1>3 DEF SendCode, MailTicket, Edit
<1>4. ASSUME NEW t, NEW c, MailLink(t) \/ SetContact(t, c) PROVE Fine
  BY <1>4 DEF MailLink, SetContact, Edit
<1>5. ASSUME NEW c, NEW e, DeleteContact(c) \/ Anonymize(c) \/ EditEmail(c, e) PROVE Fine
  BY <1>5 DEF DeleteContact, Anonymize, EditEmail, Edit
<1>6. BackfillTickets \/ UNCHANGED vars => Fine
  BY DEF BackfillTickets, Edit, vars
<1>7. Runs => Fine
  OBVIOUS
<1> HIDE DEF Fine
<1>8. Fine
  BY <1>1, <1>2, <1>3, <1>4, <1>5, <1>6, <1>7, WidgetRuns, SessionRuns, BackfillRuns, LinkRuns,
     StepRuns, OpenRuns, Zenon DEF Next, Free
<1> QED
  BY <1>8 DEF Fine

(* Every step keeps what the requests hold.                                *)
LEMMA JobsTyped ==
  ASSUME Typed, [Next]_vars
  PROVE  /\ pc' \in [Procs -> AllSteps] /\ job' \in [Procs -> Jobs \cup {None}]
         /\ JobHeld'
<1>1. pc \in [Procs -> AllSteps] /\ job \in [Procs -> Jobs \cup {None}]
  BY DEF Typed, TypeOK, AllSteps
<1>2. \A q \in Procs : JobFine(pc[q], job[q], Open', Born')
  BY JobsHeld, JobStays
<1>3. /\ pc' \in [Procs -> AllSteps] /\ job' \in [Procs -> Jobs \cup {None}]
      /\ \A q \in Procs : JobFine(pc'[q], job'[q], Open', Born')
  <2>1. CASE UNCHANGED <<pc, job>>
    BY <1>1, <1>2, <2>1
  <2>2. ASSUME NEW p \in Procs, NEW step, NEW j, Requests(p, step, j)
        PROVE  /\ pc' \in [Procs -> AllSteps] /\ job' \in [Procs -> Jobs \cup {None}]
               /\ \A q \in Procs : JobFine(pc'[q], job'[q], Open', Born')
    <3>1. /\ pc' = [pc EXCEPT ![p] = step] /\ job' = [job EXCEPT ![p] = j]
          /\ step \in AllSteps /\ j \in Jobs \cup {None} /\ JobFine(step, j, Open', Born')
      BY <2>2 DEF Requests, Goto
    <3>2. pc' \in [Procs -> AllSteps] /\ job' \in [Procs -> Jobs \cup {None}]
      BY <1>1, <3>1
    <3>3. \A q \in Procs : \/ pc'[q] = step /\ job'[q] = j
                           \/ pc'[q] = pc[q] /\ job'[q] = job[q]
      BY <1>1, <3>1
    <3> QED
      BY <1>2, <3>1, <3>2, <3>3, Zenon
  <2> QED
    BY <2>1, <2>2, RequestMoves, Zenon DEF Runs
<1>4. JobHeld'
  <2> SUFFICES ASSUME NEW q \in Procs, pc'[q] # "idle"
               PROVE  /\ job'[q] \in Jobs
                      /\ pc'[q] \in {"save", "link", "move", "open", "write"} =>
                           job'[q].session \in Sessions
                      /\ pc'[q] = "move" => job'[q].from \in Sessions
                      /\ pc'[q] \in {"write", "post", "form", "attach"} =>
                           job'[q].ticket \in Open'
                      /\ pc'[q] = "form" => job'[q].email \in Addrs
                      /\ pc'[q] = "backfill" =>
                           /\ job'[q].ticket # 0 => job'[q].ticket \in Open'
                           /\ job'[q].contact # 0 =>
                                contact'[job'[q].contact].state # "unborn"
    BY Zenon DEF JobHeld
  <2>1. JobFine(pc'[q], job'[q], Open', Born')
    BY <1>3
  <2>2. \A d \in Born' : contact'[d].state # "unborn"
    BY DEF Born
  <2> QED
    BY <2>1, <2>2, Zenon DEF JobFine
<1> QED
  BY <1>3, <1>4

-----------------------------------------------------------------------------

(* The messages, the counts and the histories                              *)

Sent == [session : Sessions \cup {None}, own : BOOLEAN]

(* What a step may add to a ticket's messages, or make of them.            *)
MessageStep(p) == Move(p) \/ Write(p) \/ Post(p)

(* The steps that change messages.                                         *)
LEMMA MessageSteps ==
  ASSUME [Next]_vars
  PROVE  \/ UNCHANGED msgs
         \/ \E p \in Procs : MessageStep(p)
         \/ \E c \in Ids : Anonymize(c)
<1>1. ASSUME NEW p, NEW s, NEW e, NEW signed, WidgetSession(p, s, e, signed)
      PROVE  UNCHANGED msgs
  BY <1>1 DEF WidgetSession, Visit, UpdateSession, Login, data
<1>2. ASSUME NEW p, NEW s, \/ VerifyCode(p, s) \/ FirstMessage(p, s)
                           \/ \E t \in Tickets : MessageOn(p, s, t)
      PROVE  UNCHANGED msgs
  BY <1>2 DEF VerifyCode, FirstMessage, MessageOn, data
<1>3. ASSUME NEW p, NEW e, \/ \E s \in Sessions : BackfillSession(p, s, e)
                           \/ \E t \in Tickets : BackfillTicket(p, t, e)
      PROVE  UNCHANGED msgs
  BY <1>3 DEF BackfillSession, BackfillTicket, Backfill, data
<1>4. ASSUME NEW p, NEW e, NEW ext, SubmitForm(p, e, ext) PROVE UNCHANGED msgs
  BY <1>4 DEF SubmitForm
<1>5. ASSUME NEW p, NEW claim, OpenLink(p, claim) \/ PostLink(p, claim)
      PROVE  UNCHANGED msgs
  BY <1>5 DEF OpenLink, PostLink, FollowLink, data
<1>6. ASSUME NEW p, \/ FormContact(p) \/ AttachForm(p) \/ MarkProven(p) \/ Save(p) \/ Link(p)
                    \/ BackfillLink(p) \/ DeleteEmptied(p) \/ OpenTicket(p)
      PROVE  UNCHANGED msgs
  BY <1>6, Zenon DEF FormContact, AttachForm, MarkProven, Save, Link, BackfillLink, DeleteEmptied,
              OpenTicket, data
<1>7. ASSUME NEW s, SendCode(s) PROVE UNCHANGED msgs
  BY <1>7 DEF SendCode, data
<1>8. ASSUME NEW e, MailTicket(e) PROVE UNCHANGED msgs
  BY <1>8 DEF MailTicket
<1>9. ASSUME NEW t, NEW c, MailLink(t) \/ SetContact(t, c) PROVE UNCHANGED msgs
  BY <1>9 DEF MailLink, SetContact, data
<1>10. BackfillTickets \/ UNCHANGED vars => UNCHANGED msgs
  BY DEF BackfillTickets, vars
<1>11. ASSUME NEW c, NEW e, EditEmail(c, e) \/ DeleteContact(c) PROVE UNCHANGED msgs
  BY <1>11 DEF EditEmail, DeleteContact
<1> QED
  BY <1>1, <1>2, <1>3, <1>4, <1>5, <1>6, <1>7, <1>8, <1>9, <1>10, <1>11, Zenon
  DEF Next, Free, MessageStep

(* A message of a session that a login moves is of the user's.             *)
Moved(m, a, s) == [m EXCEPT !.session = IF @ = a THEN s ELSE @]

(* What each of them does.                                                 *)
LEMMA MoveMessages ==
  ASSUME Typed, NEW p \in Procs, Move(p), ~UNCHANGED data
  PROVE  /\ job[p].session \in Sessions /\ job[p].from \in Sessions
         /\ msgs' = [t \in Tickets |->
              {Moved(m, job[p].from, job[p].session) : m \in msgs[t]}]
         /\ \A t \in Tickets : ticket'[t] # None /\ ticket[t] # None =>
              ticket'[t].session = IF ticket[t].session = job[p].from THEN job[p].session
                                   ELSE ticket[t].session
<1>1. job[p].session \in Sessions /\ job[p].from \in Sessions
  BY ZenonT(30) DEF Move, Typed, JobHeld
<1>2. ~(job[p].contact # 0 /\ ~Alive(job[p].contact))
  BY DEF Move
<1> DEFINE mine == {t \in Open : ticket[t].session = job[p].from}
<1>3. /\ ticket' = [t \in Tickets |->
           IF t \notin mine THEN ticket[t]
           ELSE [ticket[t] EXCEPT !.session = job[p].session, !.ext = TRUE,
                   !.contact = IF job[p].contact # 0 THEN job[p].contact ELSE @,
                   !.pre = WrittenBefore(t)]]
      /\ msgs' = [t \in Tickets |->
           {[m EXCEPT !.session = IF @ = job[p].from THEN job[p].session ELSE @] :
              m \in msgs[t]}]
  BY <1>2, Zenon DEF Move
<1>4. msgs' = [t \in Tickets |-> {Moved(m, job[p].from, job[p].session) : m \in msgs[t]}]
  BY <1>3, Zenon DEF Moved
<1>5. ASSUME NEW t \in Tickets, ticket[t] # None
      PROVE  ticket'[t].session = IF ticket[t].session = job[p].from THEN job[p].session
                                  ELSE ticket[t].session
  <2>1. CASE t \notin mine
    BY <1>3, <1>5, <2>1 DEF Open
  <2>2. CASE t \in mine
    <3>1. ticket[t] \in TicketRows
      BY <1>5 DEF Typed, TypeOK
    <3>2. PICK d \in {job[p].contact, ticket[t].contact} :
            ticket'[t] = [ticket[t] EXCEPT !.session = job[p].session, !.ext = TRUE,
                                           !.contact = d, !.pre = TRUE]
      BY <1>3, <2>2 DEF WrittenBefore
    <3>3. ticket'[t].session = job[p].session
      BY <3>1, <3>2 DEF TicketRows
    <3> QED
      BY <2>2, <3>3
  <2> QED
    BY <2>1, <2>2
<1> QED
  BY <1>1, <1>4, <1>5, ZenonT(30)

(* A message written is on its ticket's session, or not its own.           *)
LEMMA WriteMessages ==
  ASSUME Typed, NEW p \in Procs, Write(p) \/ Post(p), msgs' # msgs
  PROVE  /\ UNCHANGED <<contact, session, ticket, happened>>
         /\ \E m \in Sent : \E t \in Open :
              /\ msgs' = [msgs EXCEPT ![t] = @ \cup {m}]
              /\ m.own => m.session = ticket[t].session
              /\ ~Erased(ticket[t].contact)
<1>1. CASE Write(p)
  <2> DEFINE t == job[p].ticket
             m == [session |-> MessageSession(p), own |-> (job[p].from = job[p].session)]
  <2>1. msgs' = [msgs EXCEPT ![t] = @ \cup {m}] /\ ~Erased(ticket[t].contact)
    BY <1>1 DEF Write, TakesMessages
  <2>2. t \in Open /\ job[p].session \in Sessions
    BY <1>1 DEF Write, Typed, JobHeld
  <2>3. ticket[t] \in TicketRows
    BY <2>2 DEF Typed, TypeOK, Open
  <2>4. MessageSession(p) \in Sessions \cup {None}
    BY <2>2, <2>3 DEF MessageSession, TicketRows
  <2>5. m \in Sent /\ (m.own => m.session = ticket[t].session)
    <3>1. m.own => m.session = ticket[t].session
      BY Zenon DEF MessageSession
    <3>2. m \in Sent
      BY <2>4 DEF Sent
    <3> QED
      BY <3>1, <3>2
  <2> QED
    BY <1>1, <2>1, <2>2, <2>5, Zenon DEF Write
<1>2. CASE Post(p)
  <2> DEFINE t == job[p].ticket
             row == ticket[t]
             theirs == row.session # None /\ session[row.session].contact = row.contact
             m == [session |-> IF theirs THEN row.session ELSE None, own |-> theirs]
  <2>1. /\ msgs' = [msgs EXCEPT ![t] = @ \cup {m}]
        /\ Opens([ticket |-> t, contact |-> job[p].contact, email |-> job[p].email])
    BY <1>2, ZenonT(30) DEF Post
  <2>2. t \in Open
    BY <1>2, Zenon DEF Post, Typed, JobHeld
  <2>3. ticket[t] \in TicketRows
    BY <2>2 DEF Typed, TypeOK, Open
  <2>4. m \in Sent /\ (m.own => m.session = ticket[t].session)
    <3>1. row.session \in Sessions \cup {None} /\ theirs \in BOOLEAN
      BY <2>3 DEF TicketRows
    <3>2. m.own => m.session = ticket[t].session
      BY Zenon
    <3>3. (IF theirs THEN row.session ELSE None) \in Sessions \cup {None}
      BY <3>1
    <3> HIDE DEF theirs, row, t
    <3>4. m \in Sent
      BY <3>1, <3>3 DEF Sent
    <3> QED
      BY <3>2, <3>4 DEF t
  <2>5. ~Erased(ticket[t].contact)
    <3>1. contact[ticket[t].contact].state = "live"
      <4> DEFINE claim == [ticket |-> t, contact |-> job[p].contact, email |-> job[p].email]
      <4>1. claim.ticket = t /\ claim.contact = job[p].contact
        OBVIOUS
      <4>2. /\ ticket[claim.ticket].contact = claim.contact
            /\ contact[claim.contact].state = "live"
        BY <2>1, Zenon DEF Opens
      <4> HIDE DEF claim, t
      <4> QED
        BY <4>1, <4>2
    <3> QED
      BY <3>1 DEF Erased
  <2> QED
    BY <1>2, <2>1, <2>2, <2>4, <2>5, Zenon DEF Post
<1> QED
  BY <1>1, <1>2

(* Every step keeps the messages' types.                                   *)
LEMMA MessagesTyped ==
  ASSUME Typed, [Next]_vars
  PROVE  msgs' \in [Tickets -> SUBSET Sent]
<1>1. msgs \in [Tickets -> SUBSET Sent]
  BY DEF Typed, TypeOK, Sent
<1>2. ASSUME NEW p \in Procs, Move(p), msgs' # msgs PROVE msgs' \in [Tickets -> SUBSET Sent]
  <2> ~UNCHANGED data
    BY <1>2 DEF data
  <2>1. \A m \in Sent : Moved(m, job[p].from, job[p].session) \in Sent
    BY <1>2, MoveMessages DEF Sent, Moved
  <2> QED
    BY <1>1, <1>2, <2>1, MoveMessages
<1>3. ASSUME NEW p \in Procs, Write(p) \/ Post(p), msgs' # msgs
      PROVE  msgs' \in [Tickets -> SUBSET Sent]
  BY <1>1, <1>3, WriteMessages
<1>4. ASSUME NEW c \in Ids, Anonymize(c) PROVE msgs' \in [Tickets -> SUBSET Sent]
  BY <1>1, <1>4 DEF Anonymize, ScrubbedMessages
<1> QED
  BY <1>1, <1>2, <1>3, <1>4, MessageSteps DEF MessageStep

(* Every step counts within the bounds.                                    *)
LEMMA CountsTyped ==
  ASSUME Typed, [Next]_vars
  PROVE  requests' \in 0 .. MaxRequests /\ edits' \in 0 .. MaxEdits
<1> DEFINE Fine == requests' \in 0 .. MaxRequests /\ edits' \in 0 .. MaxEdits
<1>1. requests \in 0 .. MaxRequests /\ edits \in 0 .. MaxEdits
  BY DEF Typed, TypeOK
<1>2. UNCHANGED counts => Fine
  BY <1>1 DEF counts
<1>3. ASSUME NEW p, NEW step, NEW j, Begin(p, step, j) PROVE Fine
  BY <1>1, <1>3, ContactsAssumption DEF Begin
<1>4. Edit => Fine
  BY <1>1, ContactsAssumption DEF Edit
<1> HIDE DEF Fine
<1>5. ASSUME NEW p, NEW s, NEW e, NEW signed, WidgetSession(p, s, e, signed) PROVE Fine
  BY <1>3, <1>5 DEF WidgetSession, Visit, UpdateSession, Login, Enter
<1>6. ASSUME NEW p, NEW s, \/ VerifyCode(p, s) \/ FirstMessage(p, s)
                           \/ \E t \in Tickets : MessageOn(p, s, t)
      PROVE  Fine
  BY <1>3, <1>6 DEF VerifyCode, FirstMessage, MessageOn
<1>7. ASSUME NEW p, NEW e, \/ \E s \in Sessions : BackfillSession(p, s, e)
                           \/ \E t \in Tickets : BackfillTicket(p, t, e)
      PROVE  Fine
  BY <1>3, <1>7 DEF BackfillSession, BackfillTicket, Backfill
<1>8. ASSUME NEW p, NEW e, NEW ext, SubmitForm(p, e, ext) PROVE Fine
  BY <1>3, <1>8 DEF SubmitForm
<1>9. ASSUME NEW p, NEW claim, OpenLink(p, claim) \/ PostLink(p, claim) PROVE Fine
  BY <1>3, <1>9 DEF OpenLink, PostLink, FollowLink
<1>10. ASSUME NEW p, \/ FormContact(p) \/ AttachForm(p) \/ BackfillLink(p) \/ MarkProven(p)
                     \/ Post(p) \/ Save(p) \/ Link(p) \/ Move(p) \/ DeleteEmptied(p)
                     \/ OpenTicket(p) \/ Write(p)
       PROVE  Fine
  <2>1. UNCHANGED counts
    BY <1>10, Zenon DEF FormContact, AttachForm, BackfillLink, MarkProven, Post, Save, Link, Move,
                 DeleteEmptied, OpenTicket, Write
  <2> QED
    BY <1>2, <2>1
<1>11. ASSUME NEW s, SendCode(s) PROVE Fine
  BY <1>1, <1>11, ContactsAssumption DEF SendCode, AskCode, Fine
<1>12. ASSUME NEW t, MailLink(t) PROVE Fine
  BY <1>1, <1>12, ContactsAssumption DEF MailLink, Fine
<1>13. ASSUME NEW e, MailTicket(e) PROVE Fine
  BY <1>4, <1>13 DEF MailTicket
<1>14. ASSUME NEW t, NEW c, SetContact(t, c) PROVE Fine
  BY <1>4, <1>14 DEF SetContact
<1>15. BackfillTickets => Fine
  BY <1>4 DEF BackfillTickets
<1>16. ASSUME NEW c, NEW e, DeleteContact(c) \/ Anonymize(c) \/ EditEmail(c, e) PROVE Fine
  BY <1>4, <1>16 DEF DeleteContact, Anonymize, EditEmail
<1>17. UNCHANGED vars => Fine
  BY <1>2 DEF vars, counts
<1>18. Fine
  BY <1>5, <1>6, <1>7, <1>8, <1>9, <1>10, <1>11, <1>12, <1>13, <1>14, <1>15, <1>16, <1>17, Zenon
  DEF Next, Free
<1> QED
  BY <1>18 DEF Fine

(* The links mailed are of a contact that has the address, and the codes   *)
(* of a session that has it.                                               *)
LEMMA MailedTyped ==
  ASSUME Typed, [Next]_vars
  PROVE  links' \in SUBSET Claims /\ codes' \in SUBSET (Sessions \X Addrs)
<1> DEFINE Fine == links' \in SUBSET Claims /\ codes' \in SUBSET (Sessions \X Addrs)
<1>1. links \in SUBSET Claims /\ codes \in SUBSET (Sessions \X Addrs)
  BY DEF Typed, TypeOK
<1>2. links' = links /\ codes' \subseteq codes => Fine
  BY <1>1
<1>3. UNCHANGED <<links, codes>> => Fine
  BY <1>1
<1>4. ASSUME NEW s \in Sessions, SendCode(s) PROVE Fine
  <2>1. session[s].email \in Addrs
    BY <1>4 DEF SendCode, Typed, TypeOK, WidgetSessions, Emails
  <2>2. links' = links /\ codes' = codes \cup {<<s, session[s].email>>}
    BY <1>4 DEF SendCode
  <2> QED
    BY <1>1, <2>1, <2>2
<1>5. ASSUME NEW t, MailLink(t) PROVE Fine
  <2>1. t \in Tickets /\ ticket[t].contact \in Ids
    BY <1>5 DEF MailLink, Open, Live
  <2>2. contact[ticket[t].contact].email \in Addrs
    BY <1>5, <2>1 DEF MailLink, LinkOf, Typed, TypeOK, Contacts, Emails
  <2>3. LinkOf(t) \in Claims
    BY <2>1, <2>2 DEF LinkOf, Claims
  <2> QED
    BY <1>1, <1>5, <2>3 DEF MailLink
<1> HIDE DEF Fine
<1>6. ASSUME NEW p, NEW s, NEW e, NEW signed, WidgetSession(p, s, e, signed) PROVE Fine
  <2>1. UNCHANGED <<links, codes>>
    BY <1>6, Zenon DEF WidgetSession, Visit, UpdateSession, Login, Prove
  <2> QED
    BY <1>3, <2>1
<1>7. ASSUME NEW p, NEW s, VerifyCode(p, s) PROVE Fine
  <2>1. links' = links /\ codes' \subseteq codes
    BY <1>7 DEF VerifyCode, Prove
  <2> QED
    BY <1>2, <2>1
<1>8. ASSUME NEW p, NEW s, FirstMessage(p, s) \/ \E t \in Tickets : MessageOn(p, s, t) PROVE Fine
  BY <1>3, <1>8 DEF FirstMessage, MessageOn, mailed
<1>9. ASSUME NEW p, NEW e, \/ \E s \in Sessions : BackfillSession(p, s, e)
                           \/ \E t \in Tickets : BackfillTicket(p, t, e)
      PROVE  Fine
  BY <1>3, <1>9 DEF BackfillSession, BackfillTicket, Backfill, mailed
<1>10. ASSUME NEW p, NEW e, NEW ext, SubmitForm(p, e, ext) PROVE Fine
  BY <1>3, <1>10 DEF SubmitForm, mailed
<1>11. ASSUME NEW p, NEW claim, OpenLink(p, claim) \/ PostLink(p, claim) PROVE Fine
  BY <1>3, <1>11 DEF OpenLink, PostLink, FollowLink, mailed
<1>12. ASSUME NEW p, \/ FormContact(p) \/ AttachForm(p) \/ BackfillLink(p) \/ MarkProven(p)
                     \/ Post(p) \/ Save(p) \/ Link(p) \/ Move(p) \/ DeleteEmptied(p)
                     \/ OpenTicket(p) \/ Write(p)
       PROVE  Fine
  <2>1. UNCHANGED mailed
    BY <1>12, Zenon DEF FormContact, AttachForm, BackfillLink, MarkProven, Post, Save, Link, Move,
                 DeleteEmptied, OpenTicket, Write
  <2> QED
    BY <1>3, <2>1 DEF mailed
<1>13. ASSUME NEW t, NEW e, NEW c, MailTicket(e) \/ SetContact(t, c) \/ DeleteContact(c)
                                   \/ EditEmail(c, e)
       PROVE  Fine
  BY <1>3, <1>13 DEF MailTicket, SetContact, DeleteContact, EditEmail, Edit
<1>14. BackfillTickets \/ UNCHANGED vars => Fine
  BY <1>3 DEF BackfillTickets, Edit, vars
<1>15. ASSUME NEW c, Anonymize(c) PROVE Fine
  <2>1. links' = links /\ codes' \subseteq codes
    BY <1>15 DEF Anonymize, Edit
  <2> QED
    BY <1>2, <2>1
<1>16. Fine
  BY <1>4, <1>5, <1>6, <1>7, <1>8, <1>9, <1>10, <1>11, <1>12, <1>13, <1>14, <1>15, Zenon
  DEF Next, Free
<1> QED
  BY <1>16 DEF Fine

(* The proof that a session's request records.                             *)
ProvesNow(s, e) == e \in Addrs /\ proofs' = [proofs EXCEPT ![s] = @ \cup {e}]

(* The steps that change what was proved.                                  *)
LEMMA ProofSteps ==
  ASSUME Typed, [Next]_vars
  PROVE  UNCHANGED proofs \/ \E s \in Sessions, e \in Addrs : ProvesNow(s, e)
<1> DEFINE Fine == UNCHANGED proofs \/ \E s \in Sessions, e \in Addrs : ProvesNow(s, e)
<1>1. ASSUME NEW s \in Sessions, NEW e, NEW b, b => e \in Addrs, Prove(s, e, b) PROVE Fine
  BY <1>1 DEF Prove, ProvesNow
<1>2. UNCHANGED history => Fine
  BY DEF history
<1>3. UNCHANGED proofs => Fine
  OBVIOUS
<1> HIDE DEF Fine
<1>4. ASSUME NEW p, NEW s \in Sessions, NEW e \in Emails, NEW signed \in Signatures(e),
             WidgetSession(p, s, e, signed)
      PROVE  Fine
  <2>1. signed => e \in Addrs
    BY DEF Signatures, Emails
  <2>2. Prove(s, e, signed)
    BY <1>4 DEF WidgetSession, Visit, UpdateSession, Login
  <2> QED
    BY <1>1, <2>1, <2>2
<1>5. ASSUME NEW p, NEW s \in Sessions, VerifyCode(p, s) PROVE Fine
  <2>1. session[s].email \in Addrs
    BY <1>5 DEF VerifyCode, Typed, TypeOK
  <2>2. Prove(s, session[s].email, TRUE)
    BY <1>5 DEF VerifyCode
  <2> QED
    BY <1>1, <2>1, <2>2
<1>6. ASSUME NEW p, NEW s, FirstMessage(p, s) \/ \E t \in Tickets : MessageOn(p, s, t) PROVE Fine
  BY <1>2, <1>6 DEF FirstMessage, MessageOn
<1>7. ASSUME NEW p, NEW e, \/ \E s \in Sessions : BackfillSession(p, s, e)
                           \/ \E t \in Tickets : BackfillTicket(p, t, e)
      PROVE  Fine
  BY <1>2, <1>7 DEF BackfillSession, BackfillTicket, Backfill
<1>8. ASSUME NEW p, NEW e, NEW ext, SubmitForm(p, e, ext) PROVE Fine
  BY <1>2, <1>8 DEF SubmitForm
<1>9. ASSUME NEW p, NEW claim, OpenLink(p, claim) \/ PostLink(p, claim) PROVE Fine
  BY <1>3, <1>9 DEF OpenLink, PostLink, FollowLink
<1>10. ASSUME NEW p, \/ FormContact(p) \/ AttachForm(p) \/ BackfillLink(p) \/ MarkProven(p)
                     \/ Post(p) \/ Save(p) \/ Link(p) \/ Move(p) \/ DeleteEmptied(p)
                     \/ OpenTicket(p) \/ Write(p)
       PROVE  Fine
  <2>1. UNCHANGED proofs
    BY <1>10, Zenon DEF FormContact, AttachForm, BackfillLink, MarkProven, Post, Save, Link, Move,
                 DeleteEmptied, OpenTicket, Write, history
  <2> QED
    BY <1>3, <2>1
<1>11. ASSUME NEW s, NEW t, SendCode(s) \/ MailLink(t) PROVE Fine
  BY <1>2, <1>11 DEF SendCode, MailLink
<1>12. ASSUME NEW t, NEW e, NEW c, \/ MailTicket(e) \/ SetContact(t, c) \/ DeleteContact(c)
                                   \/ EditEmail(c, e) \/ Anonymize(c)
       PROVE  Fine
  BY <1>2, <1>12 DEF MailTicket, SetContact, DeleteContact, EditEmail, Anonymize, Edit
<1>13. BackfillTickets \/ UNCHANGED vars => Fine
  BY <1>2 DEF BackfillTickets, Edit, vars, history
<1>14. Fine
  BY <1>4, <1>5, <1>6, <1>7, <1>8, <1>9, <1>10, <1>11, <1>12, <1>13, Zenon DEF Next, Free
<1> QED
  BY <1>14 DEF Fine

(* What was proved stays so.                                               *)
LEMMA ProofsGrow ==
  ASSUME Typed, [Next]_vars
  PROVE  /\ proofs' \in [Sessions -> SUBSET Addrs]
         /\ \A s \in Sessions : proofs[s] \subseteq proofs'[s]
  BY ProofSteps DEF Typed, TypeOK, ProvesNow

(* Of the links, those opened are kept; of a ticket, what wrote it had     *)
(* proved as it was opened.                                                *)
LEMMA HistoryGrows ==
  ASSUME Typed, [Next]_vars
  PROVE  /\ opened' \in SUBSET Addrs /\ opened \subseteq opened'
         /\ wrote' \in [Tickets -> SUBSET (Addrs \cup {User})]
         /\ \A t \in Open : wrote'[t] = wrote[t]
<1> DEFINE Fine == /\ opened' \in SUBSET Addrs /\ opened \subseteq opened'
                   /\ wrote' \in [Tickets -> SUBSET (Addrs \cup {User})]
                   /\ \A t \in Open : wrote'[t] = wrote[t]
<1>1. opened \in SUBSET Addrs /\ wrote \in [Tickets -> SUBSET (Addrs \cup {User})]
  BY DEF Typed, TypeOK
<1>2. UNCHANGED <<opened, wrote>> => Fine
  BY <1>1
<1>3. UNCHANGED history => Fine
  BY <1>1 DEF history
<1>4. ASSUME NEW p, NEW claim \in links, OpenLink(p, claim) PROVE Fine
  <2>1. claim.email \in Addrs
    BY DEF Typed, TypeOK, Claims
  <2> QED
    BY <1>1, <1>4, <2>1 DEF OpenLink, FollowLink
<1>5. ASSUME NEW p \in Procs, OpenTicket(p) PROVE Fine
  <2>1. CASE Open = Tickets
    BY <1>2, <1>5, <2>1 DEF OpenTicket
  <2>2. CASE Open # Tickets
    <3> DEFINE v == proofs[job[p].session] \cup (IF job[p].user THEN {User} ELSE {})
    <3>1. job[p].session \in Sessions
      BY <1>5 DEF OpenTicket, Typed, JobHeld
    <3>2. v \subseteq Addrs \cup {User}
      BY <3>1 DEF Typed, TypeOK
    <3>3. opened' = opened /\ wrote' = [wrote EXCEPT ![NextTicket] = v]
      BY <1>5, <2>2, Zenon DEF OpenTicket
    <3>4. NextTicket \in Tickets /\ NextTicket \notin Open
      BY <2>2, NextIsFree DEF Open
    <3> HIDE DEF v
    <3> QED
      BY <1>1, <3>2, <3>3, <3>4
  <2> QED
    BY <2>1, <2>2
<1> HIDE DEF Fine
<1>6. ASSUME NEW p, NEW s, NEW e, NEW signed, WidgetSession(p, s, e, signed) PROVE Fine
  <2>1. UNCHANGED <<opened, wrote>>
    BY <1>6, Zenon DEF WidgetSession, Visit, UpdateSession, Login, Prove
  <2> QED
    BY <1>2, <2>1
<1>7. ASSUME NEW p, NEW s, VerifyCode(p, s) PROVE Fine
  BY <1>2, <1>7 DEF VerifyCode, Prove
<1>8. ASSUME NEW p, NEW s, FirstMessage(p, s) \/ \E t \in Tickets : MessageOn(p, s, t) PROVE Fine
  BY <1>3, <1>8 DEF FirstMessage, MessageOn
<1>9. ASSUME NEW p, NEW e, \/ \E s \in Sessions : BackfillSession(p, s, e)
                           \/ \E t \in Tickets : BackfillTicket(p, t, e)
      PROVE  Fine
  BY <1>3, <1>9 DEF BackfillSession, BackfillTicket, Backfill
<1>10. ASSUME NEW p, NEW e, NEW ext, SubmitForm(p, e, ext) PROVE Fine
  BY <1>3, <1>10 DEF SubmitForm
<1>11. ASSUME NEW p, NEW claim, PostLink(p, claim) PROVE Fine
  BY <1>2, <1>11 DEF PostLink, FollowLink
<1>12. ASSUME NEW p, \/ FormContact(p) \/ AttachForm(p) \/ BackfillLink(p) \/ MarkProven(p)
                     \/ Post(p) \/ Save(p) \/ Link(p) \/ Move(p) \/ DeleteEmptied(p)
                     \/ Write(p)
       PROVE  Fine
  <2>1. UNCHANGED history
    BY <1>12, Zenon DEF FormContact, AttachForm, BackfillLink, MarkProven, Post, Save, Link, Move,
                 DeleteEmptied, Write
  <2> QED
    BY <1>3, <2>1
<1>13. ASSUME NEW s, NEW t, SendCode(s) \/ MailLink(t) PROVE Fine
  BY <1>3, <1>13 DEF SendCode, MailLink
<1>14. ASSUME NEW t, NEW e, NEW c, \/ MailTicket(e) \/ SetContact(t, c) \/ DeleteContact(c)
                                   \/ EditEmail(c, e) \/ Anonymize(c)
       PROVE  Fine
  BY <1>3, <1>14 DEF MailTicket, SetContact, DeleteContact, EditEmail, Anonymize, Edit
<1>15. BackfillTickets \/ UNCHANGED vars => Fine
  BY <1>3 DEF BackfillTickets, Edit, vars, history
<1>16. Fine
  BY <1>4, <1>5, <1>6, <1>7, <1>8, <1>9, <1>10, <1>11, <1>12, <1>13, <1>14, <1>15, Zenon
  DEF Next, Free
<1> QED
  BY <1>16 DEF Fine

(* What happened is a fault that may happen, and stays.                    *)
LEMMA FaultsGrow ==
  ASSUME Typed, [Next]_vars
  PROVE  happened' \in SUBSET Faults /\ happened \subseteq happened'
<1> DEFINE Fine == happened' \in SUBSET Faults /\ happened \subseteq happened'
<1>1. UNCHANGED happened => Fine
  BY DEF Typed, TypeOK
<1>2. ASSUME NEW cond, FaultIf(cond, "stale") PROVE Fine
  BY <1>1, <1>2 DEF FaultIf, Typed, TypeOK
<1> HIDE DEF Fine
<1>3. ASSUME NEW p, NEW s, NEW e, NEW signed, WidgetSession(p, s, e, signed) PROVE Fine
  <2>1. UNCHANGED happened
    BY <1>3, Zenon DEF WidgetSession, Visit, UpdateSession, Login
  <2> QED
    BY <1>1, <2>1
<1>4. ASSUME NEW p, NEW s, \/ VerifyCode(p, s) \/ FirstMessage(p, s)
                           \/ \E t \in Tickets : MessageOn(p, s, t)
      PROVE  Fine
  BY <1>1, <1>4 DEF VerifyCode, FirstMessage, MessageOn
<1>5. ASSUME NEW p, NEW e, \/ \E s \in Sessions : BackfillSession(p, s, e)
                           \/ \E t \in Tickets : BackfillTicket(p, t, e)
      PROVE  Fine
  BY <1>1, <1>5 DEF BackfillSession, BackfillTicket, Backfill
<1>6. ASSUME NEW p, NEW e, NEW ext, SubmitForm(p, e, ext) PROVE Fine
  BY <1>1, <1>6 DEF SubmitForm
<1>7. ASSUME NEW p, NEW claim, OpenLink(p, claim) \/ PostLink(p, claim) PROVE Fine
  BY <1>1, <1>7 DEF OpenLink, PostLink, FollowLink
<1>8. ASSUME NEW p, FormContact(p) \/ MarkProven(p) \/ Post(p) \/ Save(p) \/ Link(p)
                    \/ DeleteEmptied(p) \/ Write(p)
      PROVE  Fine
  BY <1>1, <1>8, Zenon DEF FormContact, MarkProven, Post, Save, Link, DeleteEmptied, Write
<1>9. ASSUME NEW p, AttachForm(p) PROVE Fine
  BY <1>2, <1>9 DEF AttachForm
<1>10. ASSUME NEW p, BackfillLink(p) PROVE Fine
  BY <1>1, <1>2, <1>10, Zenon DEF BackfillLink
<1>11. ASSUME NEW p, Move(p) PROVE Fine
  BY <1>1, <1>2, <1>11, Zenon DEF Move
<1>12. ASSUME NEW p, OpenTicket(p) PROVE Fine
  BY <1>1, <1>2, <1>12, Zenon DEF OpenTicket
<1>13. ASSUME NEW s, NEW t, SendCode(s) \/ MailLink(t) PROVE Fine
  BY <1>1, <1>13 DEF SendCode, MailLink
<1>14. ASSUME NEW t, NEW e, NEW c, \/ MailTicket(e) \/ SetContact(t, c) \/ DeleteContact(c)
                                   \/ EditEmail(c, e) \/ Anonymize(c)
       PROVE  Fine
  BY <1>1, <1>14 DEF MailTicket, SetContact, DeleteContact, EditEmail, Anonymize, Edit
<1>15. BackfillTickets \/ UNCHANGED vars => Fine
  BY <1>1 DEF BackfillTickets, Edit, vars
<1>16. Fine
  BY <1>3, <1>4, <1>5, <1>6, <1>7, <1>8, <1>9, <1>10, <1>11, <1>12, <1>13, <1>14, <1>15, Zenon
  DEF Next, Free
<1> QED
  BY <1>16 DEF Fine

-----------------------------------------------------------------------------

(* The types                                                               *)

(* They hold at first.                                                     *)
LEMMA InitTyped == Init => Typed
<1> SUFFICES ASSUME Init PROVE Typed
  OBVIOUS
<1>1. ContactsTyped
  BY InitContacts
<1>2. session \in [Sessions -> WidgetSessions]
  BY ContactsAssumption DEF Init, WidgetSessions, Emails
<1>3. ticket \in [Tickets -> TicketRows \cup {None}] /\ msgs \in [Tickets -> SUBSET Sent]
  BY DEF Init
<1>4. pc \in [Procs -> AllSteps] /\ job \in [Procs -> Jobs \cup {None}]
  BY DEF Init, AllSteps
<1>5. requests \in 0 .. MaxRequests /\ edits \in 0 .. MaxEdits
  BY ContactsAssumption DEF Init
<1>6. /\ links \in SUBSET Claims /\ codes \in SUBSET (Sessions \X Addrs)
      /\ proofs \in [Sessions -> SUBSET Addrs] /\ opened \in SUBSET Addrs
      /\ wrote \in [Tickets -> SUBSET (Addrs \cup {User})] /\ happened \in SUBSET Faults
  BY DEF Init
<1>7. TypeOK
  BY <1>1, <1>2, <1>3, <1>4, <1>5, <1>6, Zenon
  DEF TypeOK, ContactsTyped, Unique, Sent, AllSteps
<1>8. JobHeld
  BY DEF Init, JobHeld
<1> QED
  BY <1>1, <1>7, <1>8 DEF Typed, ContactsTyped

(* And every step keeps them.                                              *)
LEMMA TypedNext == Typed /\ [Next]_vars => Typed'
<1> SUFFICES ASSUME Typed, [Next]_vars PROVE Typed'
  OBVIOUS
<1>1. ContactsTyped'
  BY ContactsNext
<1>2. session' \in [Sessions -> WidgetSessions]
  BY SessionsTyped
<1>3. ticket' \in [Tickets -> TicketRows \cup {None}] /\ msgs' \in [Tickets -> SUBSET Sent]
  BY TicketsTyped, MessagesTyped
<1>4. /\ pc' \in [Procs -> AllSteps] /\ job' \in [Procs -> Jobs \cup {None}]
      /\ JobHeld'
  BY JobsTyped
<1>5. requests' \in 0 .. MaxRequests /\ edits' \in 0 .. MaxEdits
  BY CountsTyped
<1>6. /\ links' \in SUBSET Claims /\ codes' \in SUBSET (Sessions \X Addrs)
      /\ proofs' \in [Sessions -> SUBSET Addrs] /\ opened' \in SUBSET Addrs
      /\ wrote' \in [Tickets -> SUBSET (Addrs \cup {User})] /\ happened' \in SUBSET Faults
  BY MailedTyped, ProofsGrow, HistoryGrows, FaultsGrow
<1>7. TypeOK'
  BY <1>1, <1>2, <1>3, <1>4, <1>5, <1>6, Zenon
  DEF TypeOK, ContactsTyped, Unique, Sent, AllSteps
<1> QED
  BY <1>1, <1>4, <1>7 DEF Typed, ContactsTyped

(* The types, among them that one contact has the id, and one an address,  *)
(* whatever is declared, linked, absorbed, edited and erased together.     *)
THEOREM TypeCorrect == Spec => []TypeOK
<1>1. Typed => TypeOK
  BY DEF Typed
<1> QED
  BY InitTyped, TypedNext, <1>1, PTL DEF Spec

-----------------------------------------------------------------------------

(* Where messages go                                                       *)

(* And a ticket that isn't open yet has none.                              *)
Conversing ==
  \A t \in Tickets :
    /\ ticket[t] = None => msgs[t] = {}
    /\ \A m \in msgs[t] : m.own => m.session = ticket[t].session

(* Every step keeps messages on their ticket's session.                    *)
LEMMA ConversingNext == Typed /\ Conversing /\ [Next]_vars => Conversing'
<1> SUFFICES ASSUME Typed, Conversing, [Next]_vars, NEW t \in Tickets
             PROVE  /\ ticket'[t] = None => msgs'[t] = {}
                    /\ \A m \in msgs'[t] : m.own => m.session = ticket'[t].session
  BY DEF Conversing
<1>1. TicketFine(t)
  BY TicketMoves
<1>2. msgs \in [Tickets -> SUBSET Sent] /\ None \notin TicketRows
  BY NoneAssumption DEF Typed, TypeOK, Sent
<1>3. CASE msgs'[t] = {}
  BY <1>3
<1>4. ticket[t] = None => msgs[t] = {}
  BY DEF Conversing
<1>5. CASE msgs'[t] = msgs[t] /\ (ticket[t] # None => ticket'[t].session = ticket[t].session)
  <2>1. ticket[t] # None => ticket'[t] # None
    BY <1>1, <1>2 DEF TicketFine, TicketKept
  <2> QED
    BY <1>4, <1>5, <2>1 DEF Conversing
<1>6. ASSUME NEW p \in Procs, Move(p), ~UNCHANGED data
      PROVE  /\ ticket'[t] = None => msgs'[t] = {}
             /\ \A m \in msgs'[t] : m.own => m.session = ticket'[t].session
  <2> DEFINE a == job[p].from
             s == job[p].session
  <2>1. /\ msgs' = [u \in Tickets |-> {Moved(m, a, s) : m \in msgs[u]}]
        /\ ticket'[t] # None /\ ticket[t] # None =>
             ticket'[t].session = IF ticket[t].session = a THEN s ELSE ticket[t].session
    BY <1>6, MoveMessages
  <2>2. CASE ticket[t] = None
    BY <1>3, <1>4, <2>1, <2>2
  <2>3. CASE ticket[t] # None
    <3>1. ticket'[t] # None
      BY <1>1, <1>2, <2>3 DEF TicketFine, TicketKept
    <3>2. ASSUME NEW m \in msgs[t], Moved(m, a, s).own
          PROVE  Moved(m, a, s).session = ticket'[t].session
      <4>1. m \in Sent
        BY <1>2
      <4>2. /\ Moved(m, a, s).own = m.own
            /\ Moved(m, a, s).session = IF m.session = a THEN s ELSE m.session
        BY <4>1 DEF Moved, Sent
      <4> QED
        BY <2>1, <2>3, <3>1, <3>2, <4>2 DEF Conversing
    <3> QED
      BY <2>1, <3>1, <3>2
  <2> QED
    BY <2>2, <2>3
<1>7. ASSUME NEW p \in Procs, Write(p) \/ Post(p), msgs' # msgs
      PROVE  /\ ticket'[t] = None => msgs'[t] = {}
             /\ \A m \in msgs'[t] : m.own => m.session = ticket'[t].session
  <2>1. PICK m \in Sent, u \in Open :
          msgs' = [msgs EXCEPT ![u] = @ \cup {m}] /\ (m.own => m.session = ticket[u].session)
    BY <1>7, WriteMessages
  <2>2. UNCHANGED ticket
    BY <1>7, WriteMessages
  <2> QED
    BY <1>2, <2>1, <2>2 DEF Conversing, Open
<1>8. ASSUME NEW c \in Ids, Anonymize(c)
      PROVE  \/ msgs'[t] = {}
             \/ msgs'[t] = msgs[t] /\ ticket'[t] = ticket[t]
  BY <1>8 DEF Anonymize, ScrubbedMessages
<1>9. CASE UNCHANGED data
  BY <1>5, <1>9 DEF data
<1>10. CASE UNCHANGED msgs /\ \A p \in Procs : ~Move(p)
  <2>1. \/ ticket[t] = None \/ ticket'[t].session = ticket[t].session \/ msgs'[t] = {}
    BY <1>1, <1>10, Zenon DEF TicketFine, TicketKept
  <2> QED
    BY <1>3, <1>5, <1>10, <2>1
<1> QED
  BY <1>3, <1>5, <1>6, <1>7, <1>8, <1>9, <1>10, MessageSteps, Zenon DEF MessageStep

(* A login moves a conversation whole, whoever is writing meanwhile.       *)
THEOREM OneConversationCorrect == Spec => []OneConversation
<1>1. Init => Conversing
  BY DEF Init, Conversing
<1>2. Conversing => OneConversation
  BY DEF Conversing, OneConversation, Open
<1> QED
  BY <1>1, <1>2, InitTyped, TypedNext, ConversingNext, PTL DEF Spec

-----------------------------------------------------------------------------

(* What is proved                                                          *)

(* A session's proof, and that of a request about to record one, were      *)
(* proved by that session; a contact is verified on an address that        *)
(* somebody proved, or whose link was opened.                              *)
ProofHeld ==
  /\ \A s \in Sessions : session[s].proof # None => session[s].proof \in proofs[s]
  /\ \A p \in Procs :
       /\ pc[p] \in {"save", "link"} /\ job[p].proved =>
            job[p].email \in proofs[job[p].session]
       /\ pc[p] = "prove" => job[p].email \in opened
  /\ \A c \in Ids :
       contact[c].verified => contact[c].email \in opened \cup UNION {proofs[s] : s \in Sessions}

(* A request stays as it is, or says only what is so.                      *)
LEMMA JobsShown ==
  ASSUME Typed, [Next]_vars, NEW p \in Procs
  PROVE  (pc'[p] = pc[p] /\ job'[p] = job[p]) \/ Shown(p, pc'[p], job'[p])
<1>1. pc \in [Procs -> AllSteps] /\ job \in [Procs -> Jobs \cup {None}]
  BY DEF Typed, TypeOK, AllSteps
<1>2. ASSUME NEW q \in Procs, NEW step, NEW j, Requests(q, step, j)
      PROVE  (pc'[p] = pc[p] /\ job'[p] = job[p]) \/ Shown(p, pc'[p], job'[p])
  <2>1. \/ pc'[p] = pc[p] /\ job'[p] = job[p]
        \/ p = q /\ pc'[p] = step /\ job'[p] = j
    BY <1>1, <1>2 DEF Requests, Goto
  <2> QED
    BY <1>2, <2>1, Zenon DEF Requests
<1> QED
  BY <1>2, RequestMoves, Zenon DEF Runs

(* Nothing is proved at first, and every step keeps it so.                 *)
LEMMA ProofHeldInit == Init => ProofHeld
<1> SUFFICES ASSUME Init PROVE ProofHeld
  OBVIOUS
<1>1. \A c \in Ids : ~contact[c].verified
  BY DEF Init, NoContact
<1>2. /\ \A s \in Sessions : session[s].proof = None
      /\ \A p \in Procs : pc[p] = "idle"
  BY DEF Init
<1> QED
  BY <1>1, <1>2 DEF ProofHeld

(* It is kept, while codes are checked, links opened and contacts edited.  *)
LEMMA ProofHeldNext == Typed /\ ProofHeld /\ [Next]_vars => ProofHeld'
<1> SUFFICES ASSUME Typed, ProofHeld, [Next]_vars PROVE ProofHeld'
  OBVIOUS
<1>1. \A s \in Sessions : proofs[s] \subseteq proofs'[s]
  BY ProofsGrow
<1>2. opened \subseteq opened'
  BY HistoryGrows
<1>3. ASSUME NEW s \in Sessions, session'[s].proof # None PROVE session'[s].proof \in proofs'[s]
  <2>1. SessionFine(s)
    BY SessionMoves
  <2>2. CASE session'[s].proof = session[s].proof
    BY <1>1, <1>3, <2>2 DEF ProofHeld
  <2>3. ASSUME NEW p \in Procs, ProvedBy(p, s) PROVE session'[s].proof \in proofs'[s]
    BY <1>1, <2>3 DEF ProvedBy, ProofHeld
  <2> QED
    BY <1>3, <2>1, <2>2, <2>3 DEF SessionFine
<1>4. ASSUME NEW p \in Procs
      PROVE  /\ pc'[p] \in {"save", "link"} /\ job'[p].proved =>
                  job'[p].email \in proofs'[job'[p].session]
             /\ pc'[p] = "prove" => job'[p].email \in opened'
  <2>1. CASE pc'[p] = pc[p] /\ job'[p] = job[p]
    <3>1. pc[p] \in {"save", "link"} => job[p].session \in Sessions
      BY DEF Typed, JobHeld
    <3> QED
      BY <1>1, <1>2, <2>1, <3>1 DEF ProofHeld
  <2>2. CASE Shown(p, pc'[p], job'[p])
    <3>1. pc[p] = "save" => job[p].session \in Sessions
      BY DEF Typed, JobHeld
    <3> QED
      BY <1>1, <2>2, <3>1, Zenon DEF Shown, ProofHeld
  <2> QED
    BY <2>1, <2>2, JobsShown
<1>5. ASSUME NEW c \in Ids, contact'[c].verified
      PROVE  contact'[c].email \in opened' \cup UNION {proofs'[s] : s \in Sessions}
  <2> DEFINE Backed(e) == e \in opened \/ \E s \in Sessions : e \in proofs[s]
  <2>1. \A d \in Ids : contact[d].verified => Backed(contact[d].email)
    BY DEF ProofHeld
  <2>2. Backed(contact'[c].email)
    <3>1. CASE UNCHANGED contact
      BY <1>5, <2>1, <3>1
    <3>2. ASSUME NEW E, NEW k, Removed(E, k) PROVE Backed(contact'[c].email)
      <4>1. Blank(Emptied(k))
        BY <3>2, EmptiedIs DEF Removed
      <4>2. contact'[c] = Emptied(k) \/ contact'[c] = contact[c]
        BY <3>2 DEF Removed, Empties
      <4> QED
        BY <1>5, <2>1, <4>1, <4>2, Zenon DEF Blank
    <3>3. ASSUME NEW d \in Ids, NEW row, NEW E, Given(d, row, E)
          PROVE  Backed(contact'[c].email)
      <4>1. Blank(Emptied("merged"))
        BY EmptiedIs DEF Kinds
      <4>2. \/ contact'[c] = Emptied("merged") \/ contact'[c] = contact[c]
            \/ c = d /\ contact'[c] = row
        BY <3>3 DEF Given, Gives
      <4>3. CASE c = d /\ contact'[c] = row
        <5>1. \/ contact[c].verified /\ contact[c].email = row.email
              \/ \E p \in Procs : Proving(p, row.email)
          BY <1>5, <3>3, <4>3, Zenon DEF Given
        <5>2. ASSUME NEW p \in Procs, Proving(p, row.email) PROVE Backed(row.email)
          <6>1. pc[p] = "link" => job[p].session \in Sessions
            BY DEF Typed, JobHeld
          <6> QED
            BY <5>2, <6>1 DEF Proving, ProofHeld
        <5> QED
          BY <2>1, <4>3, <5>1, <5>2
      <4> QED
        BY <1>5, <2>1, <4>1, <4>2, <4>3, Zenon DEF Blank
    <3> QED
      BY <3>1, <3>2, <3>3, ContactMoves
  <2> QED
    BY <1>1, <1>2, <2>2
<1> QED
  BY <1>3, <1>4, <1>5 DEF ProofHeld

(* What a session is shown, and who is told of it, agree.                  *)
LEMMA ShownToWhoSees ==
  ASSUME Typed, NEW t \in Open
  PROVE  ShownTo(t) = {s \in Sessions : Sees(s, t)}
<1>1. ASSUME NEW s \in Sessions, HistoryOpens(s), ticket[t].contact = session[s].contact
      PROVE  /\ ticket[t].contact \in Live
             /\ IF session[s].state = "identified" THEN contact[ticket[t].contact].ext
                ELSE /\ contact[ticket[t].contact].email # None
                     /\ session[s].proof = contact[ticket[t].contact].email
  <2> DEFINE c == session[s].contact
  <2>1. c \in Ids
    <3>1. c \in 0 .. MaxContacts /\ c # 0
      BY <1>1 DEF HistoryOpens, Typed, TypeOK, WidgetSessions
    <3> QED
      BY <3>1, ContactsAssumption DEF Ids
  <2>2. IF session[s].state = "identified" THEN contact[c].ext
        ELSE contact[c].email # None /\ session[s].proof = contact[c].email
    BY <1>1 DEF HistoryOpens, ProofHolds
  <2>3. contact[c].ext \/ contact[c].email # None
    BY <2>2
  <2>4. c \in Live
    BY <2>1, <2>3, Zenon DEF Live, Typed, OnlyLiveHold, Blank
  <2> HIDE DEF c
  <2> QED
    BY <1>1, <2>2, <2>4 DEF c
<1> QED
  BY <1>1 DEF ShownTo, Sees

(* No conversation but one's own is shown without a proof of its address,  *)
(* by whom it is shown to: whatever was changed while it was checked.      *)
THEOREM ProofsRealCorrect == Spec => []ProofsReal
<1>1. Typed /\ ProofHeld => ProofsReal
  <2> SUFFICES ASSUME Typed, ProofHeld PROVE ProofsReal
    OBVIOUS
  <2>1. ASSUME NEW s \in Sessions, HistoryOpens(s), session[s].state = "anonymous"
        PROVE  contact[session[s].contact].email \in proofs[s]
    BY <2>1 DEF HistoryOpens, ProofHolds, ProofHeld
  <2>2. \A c \in Live : contact[c].verified =>
          contact[c].email \in opened \cup UNION {proofs[s] : s \in Sessions}
    BY DEF ProofHeld, Live
  <2>3. \A t \in Open : ShownTo(t) = {s \in Sessions : Sees(s, t)}
    BY ShownToWhoSees
  <2> QED
    BY <2>1, <2>2, <2>3 DEF ProofsReal
<1> QED
  BY <1>1, InitTyped, TypedNext, ProofHeldInit, ProofHeldNext, PTL DEF Spec

(* Who wrote a ticket that no login moved had proved, by then, what its    *)
(* session proves now, unless it proved that since.                        *)
SenderHeld ==
  /\ \A p \in Procs : pc[p] = "open" =>
       /\ session[job[p].session].state # "unborn"
       /\ session[job[p].session].state = "identified" => job[p].user
  /\ \A t \in Open : ticket[t].session # None /\ ~ticket[t].pre =>
       /\ session[ticket[t].session].state # "unborn"
       /\ session[ticket[t].session].state = "identified" => User \in wrote[t]
       /\ ticket[t].since /\ session[ticket[t].session].proof # None =>
            session[ticket[t].session].proof \in wrote[t]

(* It is kept, while sessions prove, are linked, and are moved.            *)
LEMMA SenderHeldNext == Typed /\ ProofHeld /\ SenderHeld /\ [Next]_vars => SenderHeld'
<1> SUFFICES ASSUME Typed, ProofHeld, SenderHeld, [Next]_vars PROVE SenderHeld'
  OBVIOUS
<1>1. ASSUME NEW s \in Sessions
      PROVE  /\ SessionFine(s)
             /\ session[s].state # "unborn" => session'[s].state # "unborn"
             /\ session[s].state # "unborn" /\ session'[s].state = "identified" =>
                  session[s].state = "identified"
  BY SessionMoves DEF SessionFine
<1>2. ASSUME NEW p \in Procs, pc'[p] = "open"
      PROVE  /\ session'[job'[p].session].state # "unborn"
             /\ session'[job'[p].session].state = "identified" => job'[p].user
  <2>1. job'[p].session \in Sessions
    BY <1>2, JobsTyped DEF JobHeld
  <2>2. /\ session[job'[p].session].state # "unborn"
        /\ session[job'[p].session].state = "identified" => job'[p].user
    <3>1. CASE pc'[p] = pc[p] /\ job'[p] = job[p]
      BY <1>2, <3>1 DEF SenderHeld
    <3>2. CASE Shown(p, pc'[p], job'[p])
      BY <1>2, <3>2, Zenon DEF Shown
    <3> QED
      BY <3>1, <3>2, JobsShown
  <2> QED
    BY <1>1, <2>1, <2>2
<1>3. ASSUME NEW t \in Open', ticket'[t].session # None, ~ticket'[t].pre
      PROVE  /\ session'[ticket'[t].session].state # "unborn"
             /\ session'[ticket'[t].session].state = "identified" => User \in wrote'[t]
             /\ ticket'[t].since /\ session'[ticket'[t].session].proof # None =>
                  session'[ticket'[t].session].proof \in wrote'[t]
  <2> DEFINE s == ticket'[t].session
  <2>1. t \in Tickets /\ ticket'[t] # None /\ TicketFine(t)
    BY <1>3, TicketMoves DEF Open
  <2>2. s \in Sessions
    <3>1. ticket'[t] \in TicketRows
      BY <2>1, TicketsTyped
    <3> QED
      BY <1>3, <3>1 DEF TicketRows
  <2>3. CASE ticket[t] = None
    <3>1. PICK p \in Procs : OpenedBy(p, t)
      BY <1>3, <2>1, <2>3 DEF TicketFine, TicketOpened
    <3>2. /\ session[s].state # "unborn"
          /\ session[s].state = "identified" => job[p].user
      BY <3>1 DEF OpenedBy, SenderHeld
    <3>3. session'[s] = session[s] /\ proofs[s] \subseteq wrote'[t]
          /\ (job[p].user => User \in wrote'[t])
      BY <3>1 DEF OpenedBy
    <3>4. session[s].proof # None => session[s].proof \in proofs[s]
      BY <2>2 DEF ProofHeld
    <3> QED
      BY <3>2, <3>3, <3>4
  <2>4. CASE ticket[t] # None
    <3>1. t \in Open /\ TicketKept(t) /\ wrote'[t] = wrote[t]
      BY <2>1, <2>4, HistoryGrows DEF TicketFine, Open
    <3>2. /\ ticket[t].session = s /\ ~ticket[t].pre
          /\ ticket'[t].since => ticket[t].since
      BY <1>3, <3>1, Zenon DEF TicketKept
    <3>3. /\ session[s].state # "unborn"
          /\ session[s].state = "identified" => User \in wrote[t]
          /\ ticket[t].since /\ session[s].proof # None => session[s].proof \in wrote[t]
      BY <1>3, <3>1, <3>2 DEF SenderHeld
    <3>4. ticket'[t].since => session'[s].proof \in {None, session[s].proof}
      <4>1. ASSUME NEW p \in Procs, ProvedBy(p, s) PROVE ~ticket'[t].since
        BY <3>1, <3>2, <4>1, Zenon DEF ProvedBy
      <4> QED
        BY <1>1, <2>2, <4>1, Zenon DEF SessionFine
    <3> HIDE DEF s
    <3> QED
      BY <1>1, <2>2, <3>1, <3>2, <3>3, <3>4 DEF s
  <2> QED
    BY <2>3, <2>4
<1> QED
  BY <1>2, <1>3, Zenon DEF SenderHeld

(* Agents are told that a sender is verified only if whoever wrote the     *)
(* ticket had proved it, whatever was proved, moved or edited since.       *)
THEOREM SenderProvedCorrect == Spec => []SenderProved
<1>1. Init => SenderHeld
  BY DEF Init, SenderHeld, Open
<1>2. Typed /\ SenderHeld => SenderProved
  <2> SUFFICES ASSUME Typed, SenderHeld, NEW t \in Open, SenderVerified(t)
               PROVE  wrote[t] \cap {User, contact[ticket[t].contact].email} # {}
    BY DEF SenderProved
  <2> DEFINE s == ticket[t].session
             c == ticket[t].contact
  <2>1. s # None /\ ~ticket[t].pre
    BY DEF SenderVerified
  <2>2. CASE session[s].state = "identified"
    BY <2>1, <2>2 DEF SenderHeld
  <2>3. CASE ProofHolds(s, c) /\ ticket[t].since
    BY <2>1, <2>3 DEF SenderHeld, ProofHolds
  <2> QED
    BY <2>2, <2>3 DEF SenderVerified
<1> QED
  BY <1>1, <1>2, InitTyped, TypedNext, ProofHeldInit, ProofHeldNext, SenderHeldNext, PTL DEF Spec

-----------------------------------------------------------------------------

(* What is erased, and what is absorbed                                    *)

(* A contact is erased by its erasure only.                                *)
LEMMA ErasedBy ==
  ASSUME Typed, [Next]_vars, NEW c \in Ids, contact'[c].state = "erased"
  PROVE  contact[c].state = "erased" \/ Anonymize(c)
<1>1. ASSUME NEW E, NEW k, Removed(E, k) PROVE contact[c].state = "erased" \/ Anonymize(c)
  <2>1. Emptied(k).state = k
    BY <1>1, EmptiedIs DEF Removed
  <2>2. contact'[c] = IF c \in E THEN Emptied(k) ELSE contact[c]
    BY <1>1 DEF Removed, Empties
  <2> QED
    BY <1>1, <2>1, <2>2 DEF Removed
<1>2. ASSUME NEW d \in Ids, NEW row, NEW E, Given(d, row, E) PROVE contact[c].state = "erased"
  <2>1. row.state = "live" /\ Emptied("merged").state = "merged"
    BY <1>2, EmptiedIs DEF Given, Fits, Kinds
  <2>2. contact'[c] \in {Emptied("merged"), row, contact[c]}
    BY <1>2 DEF Given, Gives
  <2> QED
    BY <2>1, <2>2
<1> QED
  BY <1>1, <1>2, ContactMoves

(* A ticket of an erased contact takes no message.                         *)
LEMMA NoMessage ==
  ASSUME Typed, [Next]_vars, NEW t \in Tickets, msgs[t] = {}, Erased(ticket[t].contact)
  PROVE  msgs'[t] = {}
<1>1. msgs \in [Tickets -> SUBSET Sent]
  BY DEF Typed, TypeOK, Sent
<1>2. ASSUME NEW p \in Procs, Move(p), msgs' # msgs PROVE msgs'[t] = {}
  <2> ~UNCHANGED data
    BY <1>2 DEF data
  <2> QED
    BY <1>2, MoveMessages
<1>3. ASSUME NEW p \in Procs, Write(p) \/ Post(p), msgs' # msgs PROVE msgs'[t] = {}
  BY <1>1, <1>3, WriteMessages
<1>4. ASSUME NEW c \in Ids, Anonymize(c) PROVE msgs'[t] = {}
  BY <1>4 DEF Anonymize, ScrubbedMessages
<1> QED
  BY <1>2, <1>3, <1>4, MessageSteps DEF MessageStep

(* What was erased stays so, unless a request wrote on it that had loaded  *)
(* it before: no session is linked to it, no ticket with anything in it.   *)
LEMMA StaysErasedNext == Typed /\ StaysErased /\ [Next]_vars => StaysErased'
<1> SUFFICES ASSUME Typed, StaysErased, [Next]_vars, Without({"stale"})'
             PROVE  /\ \A s \in Sessions : ~Erased(session[s].contact)'
                    /\ \A t \in Open' : Erased(ticket[t].contact)' =>
                                          ~ticket'[t].personal /\ msgs'[t] = {}
  BY Zenon DEF StaysErased
<1>1. /\ \A s \in Sessions : ~Erased(session[s].contact)
      /\ \A t \in Open : Erased(ticket[t].contact) => ~ticket[t].personal /\ msgs[t] = {}
  <2>1. Without({"stale"})
    BY FaultsGrow DEF Without
  <2> QED
    BY <2>1 DEF StaysErased
<1>2. ASSUME NEW c \in 0 .. MaxContacts, c # 0, contact'[c].state = "erased"
      PROVE  Erased(c) \/ Anonymize(c)
  <2>1. c \in Ids
    BY <1>2, ContactsAssumption DEF Ids
  <2> QED
    BY <1>2, <2>1, ErasedBy DEF Erased
<1>3. ASSUME NEW s \in Sessions, session'[s].contact # 0,
             contact'[session'[s].contact].state = "erased"
      PROVE  FALSE
  <2> DEFINE c == session'[s].contact
  <2>1. c = session[s].contact
    BY <1>3, SessionMoves DEF SessionFine
  <2>2. c \in 0 .. MaxContacts
    BY SessionsTyped DEF WidgetSessions
  <2>3. Anonymize(c)
    <3>1. Erased(c) \/ Anonymize(c)
      BY <1>2, <1>3, <2>2
    <3> QED
      BY <1>1, <2>1, <3>1
  <2>4. session'[s] = UnlinkedSession
    BY <2>1, <2>3 DEF Anonymize
  <2> QED
    BY <1>3, <2>4 DEF UnlinkedSession
<1>4. ASSUME NEW t \in Open', ticket'[t].contact # 0,
             contact'[ticket'[t].contact].state = "erased"
      PROVE  ~ticket'[t].personal /\ msgs'[t] = {}
  <2> DEFINE c == ticket'[t].contact
  <2>1. t \in Tickets /\ TicketFine(t) /\ ticket'[t] # None
    BY <1>4, TicketMoves DEF Open
  <2>2. ~LandsOn(t)
    BY <1>4 DEF LandsOn
  <2>3. CASE ticket[t] = None
    BY <2>1, <2>2, <2>3 DEF TicketFine, TicketOpened
  <2>4. CASE ticket[t] # None
    <3>1. TicketKept(t) /\ t \in Open
      BY <2>1, <2>4 DEF TicketFine, Open
    <3>2. CASE ticket'[t].contact # ticket[t].contact
      BY <2>2, <3>1, <3>2, Zenon DEF TicketKept
    <3>3. CASE ticket'[t].contact = ticket[t].contact
      <4>1. c \in 0 .. MaxContacts
        BY <2>1, TicketsTyped DEF TicketRows
      <4>2. Erased(c) \/ Anonymize(c)
        BY <1>2, <1>4, <4>1
      <4>3. CASE Erased(c)
        <5>1. ~ticket[t].personal /\ msgs[t] = {}
          BY <1>1, <3>1, <3>3, <4>3
        <5>2. msgs'[t] = {}
          BY <2>1, <3>3, <4>3, <5>1, NoMessage
        <5> QED
          BY <3>1, <5>1, <5>2, Zenon DEF TicketKept
      <4>4. CASE Anonymize(c)
        <5>1. t \in TicketsOf(c)
          BY <3>1, <3>3 DEF TicketsOf
        <5>2. ticket'[t] = ScrubbedTicket(c, t) /\ msgs'[t] = {}
          BY <2>1, <4>4, <5>1 DEF Anonymize, ScrubbedMessages
        <5>3. ticket[t] \in TicketRows
          BY <3>1 DEF Typed, TypeOK, Open
        <5> HIDE DEF c
        <5>4. ~ScrubbedTicket(c, t).personal
          BY <5>3 DEF ScrubbedTicket, TicketRows
        <5> QED
          BY <5>2, <5>4
      <4> QED
        BY <4>2, <4>3, <4>4
    <3> QED
      BY <3>2, <3>3
  <2> QED
    BY <2>3, <2>4
<1> QED
  BY <1>3, <1>4 DEF Erased

(* An erasure is for good, whatever was under way as it was done: but for  *)
(* what a request writes on the very rows it loaded before.                *)
THEOREM StaysErasedCorrect == Spec => []StaysErased
<1>1. Init => StaysErased
  BY DEF Init, StaysErased, Open, Erased
<1> QED
  BY <1>1, InitTyped, TypedNext, StaysErasedNext, PTL DEF Spec

(* What NothingLost says of a step.                                        *)
LosesNothing ==
  \A c \in Ids :
    contact[c].state = "live" /\ contact'[c].state = "merged" =>
      /\ \A t \in Open : ticket[t].contact = c => ticket'[t].contact # 0
      /\ \A s \in Sessions : session[s].contact = c => session'[s].contact # 0

(* A link takes what was on the contacts that it absorbs.                  *)
LEMMA AbsorbedIsKept ==
  ASSUME Typed, NEW p \in Procs, NEW c \in Ids, LinkTo(p, c), NEW d,
         d \in Absorbed(job[p].user, c, job[p].email, job[p].proved)
  PROVE  /\ \A t \in Open : ticket[t].contact = d => ticket'[t].contact = c
         /\ \A s \in Sessions : session[s].contact = d => session'[s].contact = c
<1> DEFINE e == job[p].email
           absorbed == Absorbed(job[p].user, c, e, job[p].proved)
           linked == Linked(job[p].user, c, e, job[p].proved)
           moved == MoveTickets(job[p].session, c, job[p].contact, absorbed)
           proves == job[p].proved /\ linked.email = e /\ RecordProof(job[p].session, e)
<1>1. ASSUME NEW t \in Open, ticket[t].contact = d PROVE ticket'[t].contact = c
  <2>1. t \in Tickets /\ ticket[t] \in TicketRows
    BY DEF Open, Typed, TypeOK
  <2>2. ticket'[t] \in {moved[t], [moved[t] EXCEPT !.since = FALSE]}
    BY <2>1, Zenon DEF LinkTo
  <2>3. moved[t] = [ticket[t] EXCEPT !.contact = c]
    BY <1>1, <2>1 DEF MoveTickets
  <2> HIDE DEF moved
  <2> QED
    BY <2>1, <2>2, <2>3 DEF TicketRows
<1>2. ASSUME NEW s \in Sessions, session[s].contact = d PROVE session'[s].contact = c
  <2>1. session'[s] = [session[s] EXCEPT
          !.contact = IF (s = job[p].session /\ job[p].contact # c) \/ @ \in absorbed
                      THEN c ELSE @,
          !.proof = IF s = job[p].session /\ proves THEN e ELSE @]
    BY Zenon DEF LinkTo
  <2>2. session[s] \in WidgetSessions
    BY DEF Typed, TypeOK
  <2>3. PICK pr : session'[s] = [session[s] EXCEPT !.contact = c, !.proof = pr]
    <3> HIDE DEF absorbed, proves, e
    <3>1. session[s].contact \in absorbed
      BY <1>2 DEF absorbed, e
    <3> QED
      BY <2>1, <3>1
  <2> QED
    BY <2>2, <2>3 DEF WidgetSessions
<1> QED
  BY <1>1, <1>2

(* Absorbing a contact, or deleting one left empty, takes nothing from     *)
(* anybody: what was on it goes to who absorbs it.                         *)
THEOREM NothingLostCorrect == Spec => NothingLost
<1>1. Typed /\ [Next]_vars => LosesNothing
  <2> SUFFICES ASSUME Typed, [Next]_vars, NEW c \in Ids, contact[c].state = "live",
                      contact'[c].state = "merged"
               PROVE  /\ \A t \in Open : ticket[t].contact = c => ticket'[t].contact # 0
                      /\ \A s \in Sessions : session[s].contact = c => session'[s].contact # 0
    BY DEF LosesNothing
  <2>1. ASSUME NEW E, NEW k, Removed(E, k) PROVE LeftEmpty(c)
    <3>1. Emptied(k).state = k
      BY <2>1, EmptiedIs DEF Removed
    <3>2. contact'[c] = IF c \in E THEN Emptied(k) ELSE contact[c]
      BY <2>1 DEF Removed, Empties
    <3> QED
      BY <2>1, <3>1, <3>2 DEF Removed
  <2>2. ASSUME NEW d \in Ids, NEW row, NEW E, Given(d, row, E)
        PROVE  \E p \in Procs : /\ LinkTo(p, d)
                                /\ c \in Absorbed(job[p].user, d, job[p].email, job[p].proved)
    <3>1. row.state = "live" /\ contact'[c] = IF c = d THEN row
                                              ELSE IF c \in E THEN Emptied("merged")
                                              ELSE contact[c]
      BY <2>2 DEF Given, Fits, Gives
    <3>2. c \in E
      BY <3>1
    <3> QED
      BY <2>2, <3>2, Zenon DEF Given
  <2>3. 0 \notin Ids
    BY ContactsAssumption DEF Ids
  <2>4. UNCHANGED contact => FALSE
    OBVIOUS
  <2>5. CASE LeftEmpty(c)
    BY <2>5 DEF LeftEmpty
  <2>6. ASSUME NEW d \in Ids, NEW p \in Procs, LinkTo(p, d),
               c \in Absorbed(job[p].user, d, job[p].email, job[p].proved)
        PROVE  /\ \A t \in Open : ticket[t].contact = c => ticket'[t].contact # 0
               /\ \A s \in Sessions : session[s].contact = c => session'[s].contact # 0
    BY <2>3, <2>6, AbsorbedIsKept
  <2> QED
    BY <2>1, <2>2, <2>4, <2>5, <2>6, ContactMoves, Zenon
<1> QED
  BY <1>1, InitTyped, TypedNext, PTL DEF Spec, NothingLost, LosesNothing

-----------------------------------------------------------------------------

(* What a proof opens                                                      *)

(* Only its linking takes a request from there.                            *)
LEMMA LinkOnly ==
  ASSUME Typed, [Next]_vars, NEW p \in Procs, pc[p] = "link", pc'[p] # "link"
  PROVE  Link(p)
<1> SUFFICES ASSUME ~Link(p) PROVE pc'[p] = pc[p]
  OBVIOUS
<1>1. pc \in [Procs -> AllSteps]
  BY DEF Typed, TypeOK, AllSteps
<1> DEFINE Fine == pc'[p] = pc[p]
<1>2. ASSUME NEW q, NEW step, NEW j, Begin(q, step, j) PROVE Fine
  BY <1>1, <1>2 DEF Begin
<1>3. ASSUME NEW q, q # p, NEW step, NEW j, Goto(q, step, j) PROVE Fine
  BY <1>1, <1>3 DEF Goto
<1>4. UNCHANGED pc => Fine
  OBVIOUS
<1> HIDE DEF Fine
<1>5. ASSUME NEW q, NEW s, NEW e, NEW signed, WidgetSession(q, s, e, signed) PROVE Fine
  BY <1>2, <1>5 DEF WidgetSession, Visit, UpdateSession, Login, Enter
<1>6. ASSUME NEW q, NEW s, \/ VerifyCode(q, s) \/ FirstMessage(q, s)
                           \/ \E t \in Tickets : MessageOn(q, s, t)
      PROVE  Fine
  BY <1>2, <1>6, ZenonT(30) DEF VerifyCode, FirstMessage, MessageOn
<1>7. ASSUME NEW q, NEW e, \/ \E s \in Sessions : BackfillSession(q, s, e)
                           \/ \E t \in Tickets : BackfillTicket(q, t, e)
      PROVE  Fine
  BY <1>2, <1>7 DEF BackfillSession, BackfillTicket, Backfill
<1>8. ASSUME NEW q, NEW e, NEW ext, SubmitForm(q, e, ext) PROVE Fine
  BY <1>2, <1>8 DEF SubmitForm
<1>9. ASSUME NEW q, NEW claim, OpenLink(q, claim) \/ PostLink(q, claim) PROVE Fine
  BY <1>2, <1>9 DEF OpenLink, PostLink, FollowLink
<1>10. ASSUME NEW q, \/ FormContact(q) \/ AttachForm(q) \/ BackfillLink(q) \/ MarkProven(q)
                     \/ Post(q) \/ Save(q) \/ DeleteEmptied(q) \/ Write(q)
       PROVE  Fine
  <2>1. q # p /\ \E step, j : Goto(q, step, j)
    BY <1>10, Zenon DEF FormContact, AttachForm, BackfillLink, MarkProven, Post, Save,
                        DeleteEmptied, Write, Return
  <2> QED
    BY <1>3, <2>1
<1>11. ASSUME NEW q, Link(q) PROVE Fine
  <2>1. q # p /\ \E step, j : Goto(q, step, j)
    <3>1. \E c : GoOn(q, c)
      BY <1>11, Zenon DEF Link, Resolve, LinkTo
    <3> QED
      BY <1>11, <3>1, Zenon DEF GoOn, Return
  <2> QED
    BY <1>3, <2>1
<1>12. ASSUME NEW q, Move(q) \/ OpenTicket(q) PROVE Fine
  <2>1. q # p /\ \E step, j : Goto(q, step, j)
    <3>1. q # p
      BY <1>12, Zenon DEF Move, OpenTicket
    <3>2. \E step, j : Goto(q, step, j)
      BY <1>12, Zenon DEF Move, OpenTicket, Return
    <3> QED
      BY <3>1, <3>2
  <2> QED
    BY <1>3, <2>1
<1>13. ASSUME NEW s, NEW t, SendCode(s) \/ MailLink(t) PROVE Fine
  BY <1>4, <1>13 DEF SendCode, MailLink
<1>14. ASSUME NEW t, NEW e, NEW c, \/ MailTicket(e) \/ SetContact(t, c) \/ DeleteContact(c)
                                   \/ EditEmail(c, e) \/ Anonymize(c)
       PROVE  Fine
  BY <1>4, <1>14 DEF MailTicket, SetContact, DeleteContact, EditEmail, Anonymize, Edit
<1>15. BackfillTickets \/ UNCHANGED vars => Fine
  BY <1>4 DEF BackfillTickets, Edit, vars
<1>16. Fine
  BY <1>5, <1>6, <1>7, <1>8, <1>9, <1>10, <1>11, <1>12, <1>13, <1>14, <1>15, Zenon
  DEF Next, Free
<1> QED
  BY <1>16 DEF Fine

(* A link to a contact, of a session that has not changed since: it is on  *)
(* the contact, and so are the contact's tickets.                          *)
LEMMA LinkLeads ==
  ASSUME Typed, NEW p \in Procs, NEW c \in Ids, LinkTo(p, c), job[p].session \in Sessions,
         session[job[p].session].contact = job[p].contact
  PROVE  LET s == job[p].session
             e == job[p].email
             linked == Linked(job[p].user, c, e, job[p].proved) IN
         /\ contact'[c] = linked
         /\ session'[s].contact = c /\ session'[s].state = session[s].state
         /\ session'[s].email = session[s].email
         /\ session[s].email = e /\ job[p].proved /\ linked.email = e =>
              session'[s].proof = e
         /\ \A t \in Open : ticket[t].contact = c => ticket'[t].contact = c
<1> DEFINE s == job[p].session
           e == job[p].email
           absorbed == Absorbed(job[p].user, c, e, job[p].proved)
           linked == Linked(job[p].user, c, e, job[p].proved)
           moved == MoveTickets(s, c, job[p].contact, absorbed)
           proves == job[p].proved /\ linked.email = e /\ RecordProof(s, e)
<1>1. contact'[c] = linked
  BY Zenon DEF LinkTo
<1>2. session'[s] = [session[s] EXCEPT
        !.contact = IF (s = s /\ job[p].contact # c) \/ @ \in absorbed THEN c ELSE @,
        !.proof = IF s = s /\ proves THEN e ELSE @]
  BY Zenon DEF LinkTo
<1>3. session[s] \in WidgetSessions
  BY DEF Typed, TypeOK
<1>4. PICK pr : /\ session'[s] = [session[s] EXCEPT !.contact = c, !.proof = pr]
                /\ pr = IF proves THEN e ELSE session[s].proof
  <2> HIDE DEF absorbed, proves, e, s
  <2>1. session[s].contact = job[p].contact
    BY DEF s
  <2> QED
    BY <1>2, <2>1
<1>5. /\ session'[s].contact = c /\ session'[s].state = session[s].state
      /\ session'[s].email = session[s].email /\ session'[s].proof = pr
  <2> HIDE DEF s, e, proves
  <2> QED
    BY <1>3, <1>4 DEF WidgetSessions
<1>6. session[s].email = e /\ job[p].proved /\ linked.email = e => pr = e
  BY <1>4 DEF RecordProof
<1>7. ASSUME NEW t \in Open, ticket[t].contact = c PROVE ticket'[t].contact = c
  <2>1. t \in Tickets /\ ticket[t] \in TicketRows
    BY DEF Open, Typed, TypeOK
  <2>2. ticket'[t] \in {moved[t], [moved[t] EXCEPT !.since = FALSE]}
    BY <2>1, Zenon DEF LinkTo
  <2>3. moved[t] \in {ticket[t], [ticket[t] EXCEPT !.contact = c]}
    BY <2>1 DEF MoveTickets
  <2> HIDE DEF moved
  <2> QED
    BY <1>7, <2>1, <2>2, <2>3 DEF TicketRows
<1> QED
  BY <1>1, <1>5, <1>6, <1>7, Zenon

(* Who a proof would be linked to: the contact that has the address, or    *)
(* the user, who absorbs it.                                               *)
LEMMA ProofReaches ==
  ASSUME Typed, NEW e \in Addrs, NEW c \in Ids, NEW c0 \in Holders(e), NEW user \in BOOLEAN,
         user /\ c0 \notin TheUsers =>
           ~contact[c0].ext /\ \A own \in TheUsers : contact[own].email = None,
         Target(user, e, TRUE, c)
  PROVE  /\ c = c0 \/ c0 \in Absorbed(user, c, e, TRUE)
         /\ ~user => c = c0 /\ Linked(user, c, e, TRUE).email = e
<1>1. e # None /\ \A d, f \in Holders(e) : d = f
  BY HoldersAre, TypedContacts, ContactsAssumption
<1>2. CASE ~user
  <2>1. c \in Holders(e)
    BY <1>2 DEF Target, Found
  <2>2. Linked(user, c, e, TRUE).email = e
    BY <1>2 DEF Linked
  <2> QED
    BY <1>1, <1>2, <2>1, <2>2
<1>3. CASE user /\ c0 \in TheUsers
  <2>1. c \in TheUsers
    BY <1>3 DEF Target, Found
  <2>2. c = c0
    BY <1>3, <2>1, HoldersAre, TypedContacts
  <2> QED
    BY <1>3, <2>2
<1>4. CASE user /\ c0 \notin TheUsers
  <2>1. c0 \in EmailOnly(e) /\ \A own \in TheUsers : contact[own].email = None
    BY <1>4 DEF EmailOnly
  <2>2. CASE TheUsers = {}
    <3>1. c \in EmailOnly(e)
      BY <1>4, <2>1, <2>2 DEF Target, Found
    <3>2. c = c0
      BY <1>1, <3>1 DEF EmailOnly
    <3> QED
      BY <1>4, <3>2
  <2>3. CASE TheUsers # {}
    <3>1. c \in TheUsers
      BY <1>4, <2>3 DEF Target, Found
    <3>2. contact[c].email = None /\ c # c0
      BY <1>4, <2>1, <3>1
    <3> QED
      BY <1>4, <2>1, <3>2 DEF Absorbed
  <2> QED
    BY <2>2, <2>3
<1> QED
  BY <1>2, <1>3, <1>4

(* What ProofOpens says of a step.                                         *)
OpensWhatItWould ==
  \A p \in Procs, s \in Sessions, e \in Addrs :
    /\ pc[p] = "link" /\ pc'[p] # "link"
    /\ job[p].session = s /\ job[p].email = e /\ job[p].proved
    /\ session[s].email = e /\ session[s].contact = job[p].contact /\ WouldOpen(s, e)
    /\ job[p].user <=> session[s].state = "identified"
    => \E t \in Open : ~Sees(s, t) /\ Sees(s, t)'

(* The check that lets a code be mailed, and the link that takes the       *)
(* proof, agree on whom it reaches.                                        *)
LEMMA OpensNext == Typed /\ [Next]_vars => OpensWhatItWould
<1> SUFFICES ASSUME Typed, [Next]_vars, NEW p \in Procs, NEW s \in Sessions, NEW e \in Addrs,
                    pc[p] = "link", pc'[p] # "link",
                    job[p].session = s, job[p].email = e, job[p].proved,
                    session[s].email = e, session[s].contact = job[p].contact,
                    WouldOpen(s, e), job[p].user <=> session[s].state = "identified"
             PROVE  \E t \in Open : ~Sees(s, t) /\ Sees(s, t)'
  BY Zenon DEF OpensWhatItWould
<1>1. PICK c0 \in Holders(e) : \E t \in Open :
        /\ session[s].state = "identified" /\ c0 \notin TheUsers =>
             ~contact[c0].ext /\ \A own \in TheUsers : contact[own].email = None
        /\ ticket[t].contact = c0 /\ ~Sees(s, t)
  BY Zenon DEF WouldOpen
<1>2. PICK t \in Open : ticket[t].contact = c0 /\ ~Sees(s, t)
  BY <1>1
<1>3. job[p].user \in BOOLEAN /\ job[p].proved = TRUE /\ e # None
  BY ContactsAssumption DEF Typed, JobHeld, Jobs
<1>4. PICK c \in Ids : Target(job[p].user, e, TRUE, c) /\ LinkTo(p, c)
  BY <1>3, LinkOnly, LinkIs
<1> DEFINE linked == Linked(job[p].user, c, e, TRUE)
<1>5. /\ c = c0 \/ c0 \in Absorbed(job[p].user, c, e, TRUE)
      /\ ~job[p].user => c = c0 /\ linked.email = e
  <2>1. job[p].user /\ c0 \notin TheUsers =>
          ~contact[c0].ext /\ \A own \in TheUsers : contact[own].email = None
    BY <1>1, Zenon
  <2> QED
    BY <1>3, <1>4, <2>1, ProofReaches, ZenonT(30)
<1>6. /\ contact'[c] = linked
      /\ session'[s].contact = c /\ session'[s].state = session[s].state
      /\ session'[s].email = e
      /\ linked.email = e => session'[s].proof = e
      /\ ticket[t].contact = c => ticket'[t].contact = c
  <2>1. linked = Linked(job[p].user, c, job[p].email, job[p].proved)
    BY <1>3, Zenon
  <2>2. job[p].session \in Sessions /\ session[job[p].session].contact = job[p].contact
    OBVIOUS
  <2> QED
    BY <1>2, <1>3, <1>4, <2>1, <2>2, LinkLeads, ZenonT(30)
<1>7. ticket'[t].contact = c
  BY <1>2, <1>3, <1>4, <1>5, <1>6, AbsorbedIsKept
<1>8. contact'[c].state = "live" /\ (job[p].user => contact'[c].ext)
  <2>1. linked.state = "live" /\ linked.ext = (contact[c].ext \/ job[p].user)
    BY DEF Linked
  <2> HIDE DEF linked
  <2> QED
    BY <1>6, <2>1, Zenon
<1>9. c # 0
  BY <1>4, ContactsAssumption DEF Ids
<1>10. HistoryOpens(s)'
  BY <1>3, <1>5, <1>6, <1>8, <1>9 DEF HistoryOpens, ProofHolds, Erased
<1>11. Sees(s, t)'
  BY <1>6, <1>7, <1>10 DEF Sees
<1> QED
  BY <1>2, <1>11

(* A proof that a code was mailed for, as it would open a conversation,    *)
(* opens one.                                                              *)
THEOREM ProofOpensCorrect == Spec => ProofOpens
<1>1. Typed /\ [Next]_vars => OpensWhatItWould
  BY OpensNext
<1> QED
  BY <1>1, InitTyped, TypedNext, PTL DEF Spec, ProofOpens, OpensWhatItWould

=============================================================================
