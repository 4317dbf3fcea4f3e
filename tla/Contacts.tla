------------------------------ MODULE Contacts ------------------------------
(***************************************************************************)
(* The contacts of one organization, its widget sessions and their tickets *)
(* (backend/apps/contacts/services.py, gdpr.py; tickets/views.py,          *)
(* access.py, messages.py).                                                *)
(*                                                                         *)
(* A visitor of the widget declares an address, or proves it by a code     *)
(* mailed there or by the host application's signature; one user is        *)
(* identified by a signed id. A session is linked to the contact that has  *)
(* the id or the address, and sees its tickets once that is proved. A      *)
(* login moves an anonymous session's conversations to the user's. Agents  *)
(* edit, delete and erase contacts meanwhile, and the command that links   *)
(* old rows to contacts runs (backfill.py).                                *)
(*                                                                         *)
(* Requests are under way at the same time, each with what it loaded. A    *)
(* transaction that holds its contact's lock is one action. What else a    *)
(* contact has (name, company, attributes, notes) is left out. So are how  *)
(* long a mailed link opens, how often a new one may be asked for, and a   *)
(* database error, that leaves a session unlinked until its next page.     *)
(***************************************************************************)
EXTENDS Integers, FiniteSets

CONSTANTS
  Addrs,        \* addresses people have
  Sessions,     \* widget sessions
  Procs,        \* requests under way
  MaxContacts,  \* bound on the contacts created
  MaxTickets,   \* bound on the tickets opened
  MaxRequests,  \* bound on the requests of the widget
  MaxEdits,     \* bound on the others' actions
  Faults,       \* what may happen, besides, once: a subset of FaultKinds
  MaxFaults,    \* how many of them, in all
  User,         \* the identified user: what its signed id proves
  None

FaultKinds ==
  {"stale"}  \* a request writes on a contact or ticket erased since loaded

ASSUME ContactsAssumption ==
  /\ MaxContacts \in Nat /\ MaxTickets \in Nat /\ MaxFaults \in Nat
  /\ MaxRequests \in Nat /\ MaxEdits \in Nat
  /\ Faults \subseteq FaultKinds
  /\ {User, None} \cap (Addrs \cup Sessions) = {} /\ User # None

VARIABLES
  contact,   \* Contact: its state, whether it has the user's id, its address,
             \* whether that is verified; the address of an erased one is none
  session,   \* WidgetSession: whether it is the user's, the address declared,
             \* its contact (0: none), the address its proof is of
  ticket,    \* Ticket: its session, contact, whether it has the user's id or was
             \* written before a login, whether it holds personal data, and
             \* whether it was opened since its session's proof
  msgs,      \* of each ticket, the sessions its requester's messages are on,
             \* and whether they were written from the ticket's own session
  links,     \* the links to a conversation that were mailed: the claim of each
  codes,     \* the codes mailed to a session's address, not used yet
  pc, job,   \* what each request does, and what it loaded
  requests,  \* how many there were, and
  edits,     \* how many actions of others
  proofs,    \* history: the addresses each session proved
  opened,    \* history: the addresses whose mailed link was opened
  wrote,     \* history: what the session that wrote a ticket had proved
  happened   \* the faults that happened

data == <<contact, session, ticket, msgs>>
mailed == <<links, codes>>
history == <<proofs, opened, wrote>>
counts == <<requests, edits>>
vars == <<contact, session, ticket, msgs, links, codes, pc, job, requests, edits,
          proofs, opened, wrote, happened>>

Ids == 1 .. MaxContacts
Tickets == 1 .. MaxTickets
Emails == Addrs \cup {None}

Contacts == [state : {"unborn", "live", "erased", "merged", "deleted"},
             ext : BOOLEAN, email : Emails, verified : BOOLEAN]

WidgetSessions == [state : {"unborn", "anonymous", "identified"}, email : Emails,
                   contact : 0 .. MaxContacts, proof : Emails]

TicketRows == [session : Sessions \cup {None}, contact : 0 .. MaxContacts,
               ext : BOOLEAN, pre : BOOLEAN, personal : BOOLEAN, since : BOOLEAN]

ASSUME NoneAssumption == None \notin TicketRows

Claims == [ticket : Tickets, contact : Ids, email : Addrs]

Jobs == [session : Sessions \cup {None}, email : Emails, contact : 0 .. MaxContacts,
         had : BOOLEAN, user : BOOLEAN, proved : BOOLEAN,
         from : Sessions \cup {None}, ticket : 0 .. MaxTickets, left : SUBSET Ids]

TypeOK ==
  /\ contact \in [Ids -> Contacts]
  /\ session \in [Sessions -> WidgetSessions]
  /\ ticket \in [Tickets -> TicketRows \cup {None}]
  /\ msgs \in [Tickets -> SUBSET [session : Sessions \cup {None}, own : BOOLEAN]]
  /\ pc \in [Procs -> {"idle", "save", "link", "move", "empty", "open", "write",
                     "prove", "post", "backfill", "form", "attach"}]
  /\ job \in [Procs -> Jobs \cup {None}]
  /\ requests \in 0 .. MaxRequests /\ edits \in 0 .. MaxEdits
  /\ links \in SUBSET Claims /\ codes \in SUBSET (Sessions \X Addrs)
  /\ proofs \in [Sessions -> SUBSET Addrs] /\ opened \in SUBSET Addrs
  /\ wrote \in [Tickets -> SUBSET (Addrs \cup {User})]
  /\ happened \in SUBSET Faults
  /\ \A c, d \in Ids :  \* the constraints of the database
       c # d => /\ contact[c].ext => ~contact[d].ext
                /\ contact[c].email # None => contact[c].email # contact[d].email

NoContact == [state |-> "unborn", ext |-> FALSE, email |-> None, verified |-> FALSE]

Init ==
  /\ contact = [c \in Ids |-> NoContact]
  /\ session = [s \in Sessions |-> [state |-> "unborn", email |-> None,
                                    contact |-> 0, proof |-> None]]
  /\ ticket = [t \in Tickets |-> None]
  /\ msgs = [t \in Tickets |-> {}]
  /\ links = {} /\ codes = {} /\ opened = {}
  /\ pc = [p \in Procs |-> "idle"] /\ job = [p \in Procs |-> None]
  /\ requests = 0 /\ edits = 0
  /\ proofs = [s \in Sessions |-> {}] /\ wrote = [t \in Tickets |-> {}]
  /\ happened = {}

-----------------------------------------------------------------------------

FaultIf(cond, f) ==
  IF ~cond THEN UNCHANGED happened
  ELSE /\ f \in Faults \ happened /\ Cardinality(happened) < MaxFaults
       /\ happened' = happened \cup {f}

Without(kinds) == happened \cap kinds = {}

NewJob(s) ==
  [session |-> s, email |-> session[s].email, contact |-> session[s].contact,
   had |-> session[s].proof # None, user |-> session[s].state = "identified",
   proved |-> FALSE, from |-> None, ticket |-> 0, left |-> {}]

Begin(p, step, j) ==
  /\ pc[p] = "idle" /\ requests < MaxRequests
  /\ requests' = requests + 1 /\ UNCHANGED edits
  /\ pc' = [pc EXCEPT ![p] = step] /\ job' = [job EXCEPT ![p] = j]

Goto(p, step, j) ==
  pc' = [pc EXCEPT ![p] = step] /\ job' = [job EXCEPT ![p] = j]

Return(p) == Goto(p, "idle", None)

Edit ==
  /\ edits < MaxEdits
  /\ edits' = edits + 1
  /\ UNCHANGED <<pc, job, requests, links, history, happened>>

Alive(c) == c # 0 /\ contact[c].state \in {"live", "erased"}
Erased(c) == c # 0 /\ contact[c].state = "erased"
Live == {c \in Ids : contact[c].state = "live"}
Unborn == {c \in Ids : contact[c].state = "unborn"}
Open == {t \in Tickets : ticket[t] # None}

(***************************************************************************)
(* What a session is shown                                                 *)
(***************************************************************************)

ProofHolds(s, c) ==
  /\ session[s].proof # None /\ session[s].proof = session[s].email
  /\ contact[c].email = session[s].email

(* contact_history_opens: may the session see all tickets of its contact?  *)
HistoryOpens(s) ==
  LET c == session[s].contact IN
  /\ c # 0 /\ ~Erased(c)
  /\ IF session[s].state = "identified" THEN contact[c].ext ELSE ProofHolds(s, c)

Sees(s, t) ==
  \/ ticket[t].session = s
  \/ session[s].state = "identified" /\ ticket[t].ext
  \/ HistoryOpens(s) /\ ticket[t].contact = session[s].contact

(* ticket_session_ids: the sessions on which a reply is announced.         *)
ShownTo(t) ==
  LET c == ticket[t].contact
      theirs == {s \in Sessions :
        \/ s = ticket[t].session
        \/ session[s].state = "identified" /\ ticket[t].ext
        \/ /\ c \in Live /\ session[s].contact = c
           /\ IF session[s].state = "identified" THEN contact[c].ext
              ELSE contact[c].email # None /\ session[s].proof = contact[c].email}
  IN {s \in theirs :
        \/ s = ticket[t].session
        \/ session[s].state = "identified" /\ ticket[t].ext
        \/ HistoryOpens(s)}

(* One opened by mail, whatever address its replies go to.                 *)
WritableFrom(s, t) ==
  LET opener == ticket[t].session IN
  \/ opener = s
  \/ opener = None /\ HistoryOpens(s) /\ ticket[t].contact = session[s].contact
  \/ /\ opener \notin {s, None}
     /\ \/ session[opener].contact = ticket[t].contact /\ HistoryOpens(opener)
        \/ session[s].state = "identified" /\ session[opener].state = "identified"

(* sender_verified, as agents are told.                                    *)
SenderVerified(t) ==
  LET s == ticket[t].session
      c == ticket[t].contact
  IN
  /\ s # None /\ c # 0 /\ ~ticket[t].pre
  /\ session[s].contact = c
  /\ session[s].state = "identified" \/ (ProofHolds(s, c) /\ ticket[t].since)

(***************************************************************************)
(* A session declares, or proves, its address                              *)
(***************************************************************************)

(* What the session proves from now on.                                    *)
Prove(s, e, proved) ==
  /\ proofs' = IF proved THEN [proofs EXCEPT ![s] = @ \cup {e}] ELSE proofs
  /\ UNCHANGED <<links, opened>>

(* It is created with the address sent; or loaded, to be saved.            *)
Enter(p, s, kind, j) ==
  IF session[s].state = "unborn"
  THEN /\ Begin(p, "link", j)
       /\ session' = [session EXCEPT ![s].state = kind, ![s].email = j.email]
  ELSE Begin(p, "save", j) /\ UNCHANGED session

(* verify_email_hash: a signature is of an address, and proves it.         *)
Signatures(e) == IF e = None THEN {FALSE} ELSE BOOLEAN

(* A page is opened: the session keeps the address it has, but for one     *)
(* that is signed. Whether a proof was a code or a signature, and so which *)
(* visits leave it behind with its session, is left out.                   *)
Visit(p, s, e, signed) ==
  /\ session[s].state # "identified"
  /\ IF session[s].email = None \/ signed THEN e \in Emails ELSE e = session[s].email
  /\ Enter(p, s, "anonymous", [NewJob(s) EXCEPT !.email = e, !.proved = signed])
  /\ Prove(s, e, signed)
  /\ UNCHANGED <<contact, ticket, msgs, codes, wrote, happened>>

(* _update_session: the visitor says who they are, or no more.             *)
UpdateSession(p, s, e, signed) ==
  /\ session[s].state # "unborn"
  /\ Begin(p, "save", [NewJob(s) EXCEPT !.email = e, !.proved = signed])
  /\ Prove(s, e, signed)
  /\ UNCHANGED <<data, codes, wrote, happened>>

(* A valid hash of the user's id: the user's session is the one that has   *)
(* it, or a new one; the anonymous session the browser had, if any, is     *)
(* replaced.                                                               *)
Login(p, s, from, e, signed) ==
  /\ \/ session[s].state = "identified"
     \/ /\ session[s].state = "unborn"
        /\ \A r \in Sessions : session[r].state # "identified"
  /\ from # None => session[from].state = "anonymous"
  /\ e \in Addrs \cup {session[s].email}
  /\ Enter(p, s, "identified",
           [NewJob(s) EXCEPT !.email = e, !.user = TRUE, !.proved = signed,
                             !.from = from])
  /\ Prove(s, e, signed)
  /\ UNCHANGED <<contact, ticket, msgs, codes, wrote, happened>>

(* widget_session, POST or PATCH.                                          *)
WidgetSession(p, s, e, signed) ==
  \/ Visit(p, s, e, signed) \/ UpdateSession(p, s, e, signed)
  \/ \E from \in Sessions \cup {None} : Login(p, s, from, e, signed)

(* _record_session_resume, _update_session: a proof of another address is  *)
(* dropped, if there was one as the session was loaded.                    *)
Save(p) ==
  LET s == job[p].session
      e == job[p].email
  IN
  /\ pc[p] = "save"
  /\ Goto(p, "link", job[p])
  /\ session' = [session EXCEPT ![s].email = e,
                    ![s].proof = IF job[p].had /\ @ # e THEN None ELSE @]
  /\ UNCHANGED <<contact, ticket, msgs, counts, mailed, history, happened>>

(***************************************************************************)
(* Linking it to a contact: one transaction                                *)
(***************************************************************************)

Holders(e) == {c \in Live : e # None /\ contact[c].email = e}
EmailOnly(e) == {c \in Holders(e) : ~contact[c].ext}
TheUsers == {c \in Ids : contact[c].ext}

FirstOf(S) == CHOOSE c \in S : \A d \in S : c <= d

(* Mutant of WouldOpen: an identified session is taken for an anonymous one. *)
WouldOpenAny(s, e) ==
  \E c \in Holders(e) : \E t \in Open : ticket[t].contact = c /\ ~Sees(s, t)

(* email_proof_would_open: the proof would reach the contact that has the  *)
(* address, and show a ticket that the session can't see.                  *)
WouldOpen(s, e) ==
  \E c \in Holders(e) :
    /\ session[s].state = "identified" /\ c \notin TheUsers =>
         ~contact[c].ext /\ \A own \in TheUsers : contact[own].email = None
    /\ \E t \in Open : ticket[t].contact = c /\ ~Sees(s, t)

(* widget_email_code: whatever is behind the address, a task is queued.    *)
AskCode == requests < MaxRequests /\ requests' = requests + 1

(* send_widget_email_code: of a session that has an address and no proof.  *)
(* One that sends nothing is left out: the request shows nothing of it.    *)
SendCode(s) ==
  LET e == session[s].email IN
  /\ AskCode
  /\ e # None /\ session[s].proof # e /\ <<s, e>> \notin codes
  /\ WouldOpen(s, e)
  /\ codes' = codes \cup {<<s, e>>}
  /\ UNCHANGED <<data, links, pc, job, edits, history, happened>>

(* widget_email_verify: the code mailed to the address it still has.       *)
VerifyCode(p, s) ==
  LET e == session[s].email IN
  /\ <<s, e>> \in codes /\ session[s].proof # e
  /\ codes' = codes \ {<<s, e>>}
  /\ Begin(p, "link", [NewJob(s) EXCEPT !.proved = TRUE])
  /\ Prove(s, e, TRUE)
  /\ UNCHANGED <<data, wrote, happened>>

(* The contact found: of an identified session, by the id first, then by a *)
(* proved address that no identified contact has.                          *)
Found(user, e, proved) ==
  IF ~user THEN Holders(e)
  ELSE IF TheUsers # {} THEN TheUsers
  ELSE IF proved THEN EmailOnly(e) ELSE {}

(* Mutant of Absorbed: the other contact keeps the address.                *)
AbsorbsNone(user, c, e, proved) == {}

(* _record_identified_email: an identified contact with no address takes   *)
(* the one proved, and with it the contact that only had that address.     *)
Absorbed(user, c, e, proved) ==
  IF user /\ proved /\ contact[c].email = None THEN EmailOnly(e) \ {c} ELSE {}

Linked(user, c, e, proved) ==
  LET given == IF ~user THEN e
               ELSE IF contact[c].email # None \/ ~proved THEN contact[c].email
               ELSE IF Holders(e) # EmailOnly(e) THEN None ELSE e
  IN [state |-> "live", ext |-> contact[c].ext \/ user, email |-> given,
      verified |-> \/ proved /\ given = e
                   \/ contact[c].verified /\ contact[c].email = given]

(* Mutant of MoveTickets: those of the contact absorbed are left.          *)
LeaveTickets(s, c, old, absorbed) ==
  [t \in Tickets |->
     IF t \in Open /\ ticket[t].contact \in absorbed THEN [ticket[t] EXCEPT !.contact = 0]
     ELSE ticket[t]]

(* Tickets follow the contact absorbed; the session's, if they have none,  *)
(* are linked as it changes contact.                                       *)
MoveTickets(s, c, old, absorbed) ==
  [t \in Tickets |->
     IF /\ t \in Open
        /\ \/ ticket[t].contact \in absorbed
           \/ c # old /\ ticket[t].session = s /\ ticket[t].contact = 0
     THEN [ticket[t] EXCEPT !.contact = c] ELSE ticket[t]]

(* _record_session_proof: only if the session still has that address, and  *)
(* isn't proved for it already.                                            *)
RecordProof(s, e) == session[s].email = e /\ session[s].proof # e

(* Then a login goes on, with the contact it knows of.                     *)
GoOn(p, c) ==
  IF job[p].from = None THEN Return(p)
  ELSE Goto(p, "move", [job[p] EXCEPT !.contact = c])

LinkTo(p, c) ==
  LET s == job[p].session
      e == job[p].email
      absorbed == Absorbed(job[p].user, c, e, job[p].proved)
      linked == Linked(job[p].user, c, e, job[p].proved)
      moved == MoveTickets(s, c, job[p].contact, absorbed)
      proves == job[p].proved /\ linked.email = e /\ RecordProof(s, e)
  IN
  /\ GoOn(p, c)
  /\ contact' = [d \in Ids |->
       IF d = c THEN linked
       ELSE IF d \in absorbed THEN [NoContact EXCEPT !.state = "merged"]
       ELSE contact[d]]
  /\ session' = [r \in Sessions |->
       [session[r] EXCEPT
          !.contact = IF (r = s /\ job[p].contact # c) \/ @ \in absorbed THEN c ELSE @,
          !.proof = IF r = s /\ proves THEN e ELSE @]]
  /\ ticket' = [t \in Tickets |->
       IF t \in Open /\ ticket[t].session = s /\ proves
       THEN [moved[t] EXCEPT !.since = FALSE] ELSE moved[t]]

(* Without an id and an address, the session is linked to none.            *)
Resolve(p) ==
  LET s == job[p].session
      found == Found(job[p].user, job[p].email, job[p].proved)
  IN
  \/ ~job[p].user /\ job[p].email = None
     /\ GoOn(p, 0)
     /\ session' = [session EXCEPT ![s].contact = IF job[p].contact # 0 THEN 0 ELSE @]
     /\ UNCHANGED <<contact, ticket>>
  \/ /\ job[p].user \/ job[p].email # None
     /\ IF found # {} THEN LinkTo(p, FirstOf(found))
        ELSE Unborn # {} /\ LinkTo(p, FirstOf(Unborn))

(* _link_session_contact.                                                  *)
Link(p) ==
  /\ pc[p] = "link"
  /\ Resolve(p)
  /\ UNCHANGED <<msgs, counts, mailed, history, happened>>

(***************************************************************************)
(* A login moves the anonymous session's conversations                     *)
(***************************************************************************)

(* Mutant of WrittenBefore: they aren't told from the user's own.          *)
WrittenByUser(t) == ticket[t].pre

WrittenBefore(t) == TRUE

(* A contact deleted since the session was linked fails the transaction.   *)
Move(p) ==
  LET s == job[p].session
      a == job[p].from
      c == job[p].contact
      mine == {t \in Open : ticket[t].session = a}
      left == {session[a].contact} \cup {ticket[t].contact : t \in mine}
  IN
  /\ pc[p] = "move"
  /\ IF c # 0 /\ ~Alive(c) THEN Return(p) /\ UNCHANGED <<data, happened>>
     ELSE /\ Goto(p, "empty", [job[p] EXCEPT !.left = left \ {0, c}])
          /\ ticket' = [t \in Tickets |->
               IF t \notin mine THEN ticket[t]
               ELSE [ticket[t] EXCEPT !.session = s, !.ext = TRUE,
                                      !.contact = IF c # 0 THEN c ELSE @,
                                      !.pre = WrittenBefore(t)]]
          /\ msgs' = [t \in Tickets |->
               {[m EXCEPT !.session = IF @ = a THEN s ELSE @] : m \in msgs[t]}]
          /\ session' = [session EXCEPT ![a].email = None, ![a].contact = 0,
                                        ![a].proof = None]
          /\ FaultIf(Erased(c) \/ session[s].state # "identified", "stale")
          /\ UNCHANGED contact
  /\ UNCHANGED <<counts, mailed, history>>

(* delete_contact_if_left_empty: or it is kept, for what agents entered.   *)
LeftEmpty(c) ==
  /\ c \in Live /\ ~contact[c].ext
  /\ \A t \in Open : ticket[t].contact # c
  /\ \A s \in Sessions : session[s].contact # c

DeleteEmptied(p) ==
  LET emptied == {c \in job[p].left : LeftEmpty(c)} IN
  /\ pc[p] = "empty"
  /\ Return(p)
  /\ \/ UNCHANGED contact
     \/ /\ emptied # {}
        /\ contact' = [c \in Ids |-> IF c \in emptied
                         THEN [NoContact EXCEPT !.state = "merged"] ELSE contact[c]]
  /\ UNCHANGED <<session, ticket, msgs, counts, mailed, history, happened>>

(***************************************************************************)
(* Tickets and messages                                                    *)
(***************************************************************************)

NewTicket(s, c, user) ==
  [session |-> s, contact |-> c, ext |-> user,
   pre |-> FALSE, personal |-> TRUE, since |-> TRUE]

NextTicket == CHOOSE t \in Tickets \ Open : \A u \in Tickets \ Open : t <= u

(* widget_message without a ticket: the session's contact is read ...      *)
FirstMessage(p, s) ==
  /\ session[s].state # "unborn" /\ Open # Tickets
  /\ Begin(p, "open", NewJob(s))
  /\ UNCHANGED <<data, mailed, history, happened>>

(* ... then locked, if it is still there, and the ticket is opened.        *)
OpenTicket(p) ==
  LET s == job[p].session
      c == IF Alive(job[p].contact) THEN job[p].contact ELSE 0
      t == NextTicket
  IN
  /\ pc[p] = "open"
  /\ IF Open = Tickets THEN Return(p) /\ UNCHANGED <<ticket, wrote, happened>>
     ELSE /\ ticket' = [ticket EXCEPT ![t] = NewTicket(s, c, job[p].user)]
          /\ wrote' = [wrote EXCEPT ![t] = proofs[s] \cup
               (IF job[p].user THEN {User} ELSE {})]
          /\ Goto(p, "write", [job[p] EXCEPT !.ticket = t, !.from = s])
          /\ FaultIf(Erased(c), "stale")
  /\ UNCHANGED <<contact, session, msgs, mailed, counts, proofs, opened>>

(* widget_submit: a form with the public token declares an address, and    *)
(* the user's id or not.                                                   *)
SubmitForm(p, e, ext) ==
  /\ Open # Tickets
  /\ Begin(p, "form", [session |-> None, email |-> e, contact |-> 0, had |-> FALSE,
                       user |-> ext, proved |-> FALSE, from |-> None,
                       ticket |-> NextTicket, left |-> {}])
  /\ ticket' = [ticket EXCEPT ![NextTicket] = NewTicket(None, 0, ext)]
  /\ UNCHANGED <<contact, session, msgs, mailed, history, happened>>

(* resolve_contact_for_email: the contact that has it, or a new one.       *)
ContactFor(e) == IF Holders(e) # {} THEN Holders(e) ELSE Unborn

Declare(c, e) == contact' = [contact EXCEPT ![c].state = "live", ![c].email = e]

FormContact(p) ==
  LET c == FirstOf(ContactFor(job[p].email)) IN
  /\ pc[p] = "form"
  /\ \/ Return(p) /\ UNCHANGED contact  \* it fails
     \/ /\ ContactFor(job[p].email) # {}
        /\ Declare(c, job[p].email)
        /\ Goto(p, "attach", [job[p] EXCEPT !.contact = c])
  /\ UNCHANGED <<session, ticket, msgs, counts, mailed, history, happened>>

(* The contact found is set, whatever became of the ticket, or of it: one  *)
(* deleted meanwhile is refused, and the ticket stays without.             *)
AttachForm(p) ==
  LET c == job[p].contact IN
  /\ pc[p] = "attach"
  /\ Return(p)
  /\ ticket' = IF Alive(c) THEN [ticket EXCEPT ![job[p].ticket].contact = c] ELSE ticket
  /\ FaultIf(Erased(c), "stale")
  /\ UNCHANGED <<contact, session, msgs, counts, mailed, history>>

(* A mail: its sender's address is only declared.                          *)
MailTicket(e) ==
  LET c == FirstOf(ContactFor(e)) IN
  /\ Open # Tickets /\ ContactFor(e) # {}
  /\ ticket' = [ticket EXCEPT ![NextTicket] = NewTicket(None, c, FALSE)]
  /\ Declare(c, e)
  /\ Edit
  /\ UNCHANGED <<session, msgs, codes>>

(* widget_message on a ticket the session sees.                            *)
MessageOn(p, s, t) ==
  /\ t \in Open /\ Sees(s, t) /\ WritableFrom(s, t)
  /\ Begin(p, "write", [NewJob(s) EXCEPT !.ticket = t, !.from = ticket[t].session])
  /\ UNCHANGED <<data, mailed, history, happened>>

(* Mutant of MessageSession: the session that found the ticket.            *)
MessageSessionAsLoaded(p) == job[p].session

(* create_user_message: the session the ticket is on by now, or the        *)
(* writer's if the ticket, as found, was another's.                        *)
MessageSession(p) ==
  IF job[p].from = job[p].session THEN ticket[job[p].ticket].session
  ELSE job[p].session

(* Mutant of TakesMessages: whatever became of its contact.                *)
TakesAnyMessage(t) == TRUE

TakesMessages(t) == ~Erased(ticket[t].contact)

Write(p) ==
  LET t == job[p].ticket
      s == MessageSession(p)
      own == job[p].from = job[p].session
      accepted == TakesMessages(t)
  IN
  /\ pc[p] = "write"
  /\ Return(p)
  /\ msgs' = IF accepted
             THEN [msgs EXCEPT ![t] = @ \cup {[session |-> s, own |-> own]}] ELSE msgs
  /\ UNCHANGED <<contact, session, ticket, counts, mailed, history, happened>>

(***************************************************************************)
(* The links mailed to a conversation                                      *)
(***************************************************************************)

(* conversation_url: only to the address the contact holds, never on a     *)
(* ticket that a login moved.                                              *)
LinkOf(t) == [ticket |-> t, contact |-> ticket[t].contact,
              email |-> contact[ticket[t].contact].email]

MailLink(t) ==
  /\ t \in Open /\ ticket[t].contact \in Live /\ ~ticket[t].pre
  /\ LinkOf(t).email # None /\ LinkOf(t) \notin links
  /\ links' = links \cup {LinkOf(t)}
  /\ edits < MaxEdits /\ edits' = edits + 1
  /\ UNCHANGED <<data, codes, pc, job, requests, history, happened>>

(* _opens, of a claim: what a link was mailed under is asked again.        *)
Opens(claim) ==
  LET row == ticket[claim.ticket] IN
  /\ row # None /\ row.contact = claim.contact /\ ~row.pre
  /\ contact[claim.contact].state = "live"
  /\ contact[claim.contact].email = claim.email

FollowLink(p, step, claim) ==
  /\ claim \in links /\ Opens(claim)
  /\ Begin(p, step, [session |-> None, email |-> claim.email, contact |-> claim.contact,
                     had |-> FALSE, user |-> FALSE, proved |-> FALSE, from |-> None,
                     ticket |-> claim.ticket, left |-> {}])
  /\ UNCHANGED <<data, mailed, proofs, wrote, happened>>

(* The page is loaded: of a contact verified already, nothing is proved.   *)
OpenLink(p, claim) ==
  /\ ~contact[claim.contact].verified
  /\ FollowLink(p, "prove", claim)
  /\ opened' = opened \cup {claim.email}

PostLink(p, claim) == FollowLink(p, "post", claim) /\ UNCHANGED opened

(* Mutant of Holds: the contact's address isn't compared again.            *)
HoldsAny(p) == job[p].contact \in Live

Holds(p) == job[p].contact \in Live /\ contact[job[p].contact].email = job[p].email

(* mark_email_proven, under the contact's lock.                            *)
MarkProven(p) ==
  LET c == job[p].contact IN
  /\ pc[p] = "prove"
  /\ Return(p)
  /\ contact' = IF Holds(p) THEN [contact EXCEPT ![c].verified = TRUE] ELSE contact
  /\ UNCHANGED <<session, ticket, msgs, counts, mailed, history, happened>>

(* _post, under the locks: the message is on the ticket's session, if that *)
(* is its contact's.                                                       *)
Post(p) ==
  LET t == job[p].ticket
      row == ticket[t]
      theirs == row.session # None /\ session[row.session].contact = row.contact
  IN
  /\ pc[p] = "post"
  /\ Return(p)
  /\ msgs' = IF Opens([ticket |-> t, contact |-> job[p].contact, email |-> job[p].email])
             THEN [msgs EXCEPT ![t] = @ \cup
               {[session |-> IF theirs THEN row.session ELSE None, own |-> theirs]}]
             ELSE msgs
  /\ UNCHANGED <<contact, session, ticket, counts, mailed, history, happened>>

(***************************************************************************)
(* manage.py backfill_contacts: rows that old code left without a contact  *)
(***************************************************************************)

(* _lookup: an erased contact has neither id nor address any more.         *)
Known(user, e) == IF user THEN TheUsers ELSE Holders(e)

(* The contact of a row is looked up: 0 if it's to be created. The row is  *)
(* one of a transaction that links them all; each is a step by itself.     *)
Backfill(p, j) ==
  LET known == Known(j.user, j.email) IN
  /\ Begin(p, "backfill", [j EXCEPT !.contact = IF known = {} THEN 0 ELSE FirstOf(known)])
  /\ UNCHANGED <<data, mailed, history, happened>>

(* _emails_from_tickets: an address that the session's tickets were given.  *)
TicketsGive(s) == \E t \in Open : ticket[t].session = s /\ ticket[t].personal

(* _link_sessions: the user's goes by its id, another by its address, or,  *)
(* if it has none, by one that its tickets were given, and keeps it.       *)
BackfillSession(p, s, e) ==
  /\ session[s].state # "unborn" /\ session[s].contact = 0
  /\ \/ session[s].state = "identified" /\ e = session[s].email
     \/ session[s].state = "anonymous" /\ e # None /\ e = session[s].email
     \/ /\ session[s].state = "anonymous" /\ session[s].email = None
        /\ e # None /\ TicketsGive(s)
  /\ Backfill(p, [NewJob(s) EXCEPT !.email = e, !.had = session[s].email # None])

(* _vouched_external_ids: a ticket's id counts only if a session has it.    *)
Vouched(t) == ticket[t].ext /\ \E s \in Sessions : session[s].state = "identified"

(* _link_tickets_without_session: one that no session decides for, by the  *)
(* user's id if a session has it too, or by the address it holds.          *)
BackfillTicket(p, t, e) ==
  LET opener == ticket[t].session IN
  /\ t \in Open /\ ticket[t].contact = 0 /\ ticket[t].personal
  /\ opener # None => /\ session[opener].state = "anonymous"
                      /\ session[opener].contact = 0 /\ session[opener].email = None
  /\ e # None
  /\ Backfill(p, [session |-> None, email |-> e, contact |-> 0, had |-> TRUE,
                  user |-> Vouched(t), proved |-> FALSE, from |-> None, ticket |-> t,
                  left |-> {}])

(* _contact_ids: created with what the row says, if it wasn't meanwhile.   *)
Filled(p) ==
  LET now == Known(job[p].user, job[p].email) IN
  IF job[p].contact # 0 THEN {job[p].contact}
  ELSE IF now # {} THEN {FirstOf(now)} ELSE IF Unborn # {} THEN {FirstOf(Unborn)} ELSE {}

StillUnlinked(row) == row.contact = 0

(* _set_contacts: a row linked by others meanwhile stays as it is; a       *)
(* contact deleted meanwhile fails the transaction.                        *)
BackfillLink(p) ==
  LET s == job[p].session
      t == job[p].ticket
  IN
  /\ pc[p] = "backfill"
  /\ Return(p)
  /\ \/ UNCHANGED <<data, happened>>
     \/ \E c \in Filled(p) :
          /\ Alive(c) \/ contact[c].state = "unborn"
          /\ contact' = IF contact[c].state # "unborn" THEN contact
                        ELSE [contact EXCEPT ![c] =
                               [state |-> "live", ext |-> job[p].user, verified |-> FALSE,
                                email |-> IF job[p].user THEN None ELSE job[p].email]]
          /\ session' = IF s # None /\ StillUnlinked(session[s])
                        THEN [session EXCEPT ![s].contact = c,
                                ![s].email = IF job[p].had THEN @ ELSE job[p].email,
                                ![s].proof = IF job[p].had THEN @ ELSE None]
                        ELSE session
          /\ ticket' = IF t # 0 /\ StillUnlinked(ticket[t])
                       THEN [ticket EXCEPT ![t].contact = c] ELSE ticket
          /\ FaultIf(Erased(c), "stale")
          /\ UNCHANGED msgs
  /\ UNCHANGED <<counts, mailed, history>>

(* _link_tickets_to_their_session: in one statement.                       *)
BackfillTickets ==
  LET theirs == {t \in Open : /\ ticket[t].contact = 0 /\ ticket[t].session # None
                              /\ session[ticket[t].session].contact \in Live}
  IN
  /\ theirs # {}
  /\ ticket' = [t \in Tickets |-> IF t \notin theirs THEN ticket[t]
                  ELSE [ticket[t] EXCEPT !.contact = session[ticket[t].session].contact]]
  /\ Edit
  /\ UNCHANGED <<contact, session, msgs, codes>>

(***************************************************************************)
(* Agents, and the holder of an address                                    *)
(***************************************************************************)

EditedContact(c, e) == [contact[c] EXCEPT !.email = e, !.verified = FALSE]

EmailFree(e) == Holders(e) = {}

EditEmail(c, e) ==
  /\ c \in Live /\ e # contact[c].email /\ EmailFree(e)
  /\ contact' = [contact EXCEPT ![c] = EditedContact(c, e)]
  /\ Edit
  /\ UNCHANGED <<session, ticket, msgs, codes>>

DeleteContact(c) ==
  /\ c \in Live
  /\ contact' = [contact EXCEPT ![c] = [NoContact EXCEPT !.state = "deleted"]]
  /\ session' = [s \in Sessions |-> IF session[s].contact = c
                   THEN [session[s] EXCEPT !.contact = 0] ELSE session[s]]
  /\ ticket' = [t \in Tickets |-> IF t \in Open /\ ticket[t].contact = c
                   THEN [ticket[t] EXCEPT !.contact = 0] ELSE ticket[t]]
  /\ Edit
  /\ UNCHANGED <<msgs, codes>>

SetContact(t, c) ==
  /\ t \in Open /\ c \in Live \cup {0} /\ c # ticket[t].contact
  /\ ticket' = [ticket EXCEPT ![t].contact = c]
  /\ Edit
  /\ UNCHANGED <<contact, session, msgs, codes>>

(* Those on the contact, on none but from its sessions, or with its id.    *)
TicketsOf(c) ==
  {t \in Open : \/ ticket[t].contact = c
                \/ /\ ticket[t].contact = 0 /\ ticket[t].session # None
                   /\ session[ticket[t].session].contact = c
                \/ contact[c].ext /\ ticket[t].ext}

ScrubbedContact == [NoContact EXCEPT !.state = "erased"]

UnlinkedSession ==
  [state |-> "anonymous", email |-> None, contact |-> 0, proof |-> None]

(* The text is removed, the session unlinked, the uploads deleted.         *)
ScrubbedMessages == {}

(* One an agent cleared stays cleared.                                     *)
ScrubbedTicket(c, t) ==
  [ticket[t] EXCEPT !.session = None, !.ext = FALSE, !.personal = FALSE,
                    !.contact = IF @ = 0 THEN 0 ELSE c]

(* _delete_widget_codes: those mailed to its sessions, or to its address.   *)
CodesOf(c) ==
  {code \in codes : session[code[1]].contact = c \/ code[2] = contact[c].email}

(* Done again on one erased already, it repairs what was written since.    *)
Anonymize(c) ==
  LET theirs == TicketsOf(c) IN
  /\ Alive(c)
  /\ contact' = [contact EXCEPT ![c] = ScrubbedContact]
  /\ session' = [s \in Sessions |->
       IF session[s].contact = c THEN UnlinkedSession ELSE session[s]]
  /\ ticket' = [t \in Tickets |->
       IF t \in theirs THEN ScrubbedTicket(c, t) ELSE ticket[t]]
  /\ msgs' = [t \in Tickets |-> IF t \in theirs THEN ScrubbedMessages ELSE msgs[t]]
  /\ codes' = codes \ CodesOf(c)
  /\ Edit

(* Requests that may begin.                                                *)
Free == IF requests < MaxRequests THEN {p \in Procs : pc[p] = "idle"} ELSE {}

Next ==
  \/ \E p \in Free :
       \/ \E s \in Sessions, e \in Emails :
            \E signed \in Signatures(e) : WidgetSession(p, s, e, signed)
       \/ \E s \in Sessions :
            \/ VerifyCode(p, s) \/ FirstMessage(p, s)
            \/ \E t \in Tickets : MessageOn(p, s, t)
       \/ \E e \in Emails :
            \/ \E s \in Sessions : BackfillSession(p, s, e)
            \/ \E t \in Tickets : BackfillTicket(p, t, e)
       \/ \E e \in Addrs, ext \in BOOLEAN : SubmitForm(p, e, ext)
       \/ \E claim \in links : OpenLink(p, claim) \/ PostLink(p, claim)
  \/ \E p \in Procs :
       \/ FormContact(p) \/ AttachForm(p)
       \/ BackfillLink(p)
       \/ MarkProven(p) \/ Post(p)
       \/ Save(p) \/ Link(p) \/ Move(p) \/ DeleteEmptied(p) \/ OpenTicket(p) \/ Write(p)
  \/ \E s \in Sessions : SendCode(s)
  \/ \E e \in Addrs : MailTicket(e)
  \/ BackfillTickets
  \/ \E t \in Tickets : MailLink(t)
  \/ \E c \in Ids :
       \/ DeleteContact(c) \/ Anonymize(c)
       \/ \E e \in Addrs : EditEmail(c, e)
  \/ \E t \in Tickets, c \in 0 .. MaxContacts : SetContact(t, c)

Spec == Init /\ [][Next]_vars

-----------------------------------------------------------------------------

(* A session sees all of its contact's tickets only if it proved the very  *)
(* address the contact has now; a contact is verified only on an address   *)
(* that somebody proved. Whatever was changed while the proof was checked. *)
ProofsReal ==
  /\ \A s \in Sessions :
       HistoryOpens(s) /\ session[s].state = "anonymous" =>
         contact[session[s].contact].email \in proofs[s]
  /\ \A c \in Live :
       contact[c].verified =>
         contact[c].email \in opened \cup UNION {proofs[s] : s \in Sessions}
  /\ \A t \in Open : ShownTo(t) = {s \in Sessions : Sees(s, t)}

(* Agents are told a ticket's sender is verified only if whoever wrote it  *)
(* had proved, by then, the id or the address of its contact.              *)
SenderProved ==
  \A t \in Open :
    SenderVerified(t) => wrote[t] \cap {User, contact[ticket[t].contact].email} # {}

(* Once erased, a contact keeps no session, its tickets hold nothing, and  *)
(* nothing comes back to them.                                             *)
StaysErased ==
  Without({"stale"}) =>
    /\ \A s \in Sessions : ~Erased(session[s].contact)
    /\ \A t \in Open :
         Erased(ticket[t].contact) => ~ticket[t].personal /\ msgs[t] = {}

(* What was written from a ticket's own session is where the ticket is: a  *)
(* login in the middle of a message splits no conversation.                *)
OneConversation ==
  \A t \in Open : \A m \in msgs[t] : m.own => m.session = ticket[t].session

(* A contact absorbed, or deleted as a login emptied it, takes no ticket   *)
(* and no session from anybody.                                            *)
NothingLost ==
  [][\A c \in Ids :
       contact[c].state = "live" /\ contact'[c].state = "merged" =>
         /\ \A t \in Open : ticket[t].contact = c => ticket'[t].contact # 0
         /\ \A s \in Sessions : session[s].contact = c => session'[s].contact # 0]_vars

(* When the check that lets a code be mailed says that the proof would     *)
(* open a conversation, the proof opens one: the check, and the linking    *)
(* that takes the proof, agree on who may be reunited with whom, unless    *)
(* the session changed since its request loaded it.                        *)
ProofOpens ==
  [][\A p \in Procs, s \in Sessions, e \in Addrs :
       /\ pc[p] = "link" /\ pc'[p] # "link"
       /\ job[p].session = s /\ job[p].email = e /\ job[p].proved
       /\ session[s].email = e /\ session[s].contact = job[p].contact /\ WouldOpen(s, e)
       /\ job[p].user <=> session[s].state = "identified"
       => \E t \in Open : ~Sees(s, t) /\ Sees(s, t)']_vars

=============================================================================
