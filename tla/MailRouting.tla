---------------------------- MODULE MailRouting ----------------------------
(***************************************************************************)
(* Where an inbound mail goes (backend/apps/email_channel): the mailbox or *)
(* the ticket it was sent to, the filters, the ticket it continues, and    *)
(* the proof of forwarding it may give; against other mails, agents who    *)
(* reply and who end and delete tickets, an erasure, and admins who change *)
(* the mailbox.                                                            *)
(*                                                                         *)
(* What the log does of failures and of retries is InboundMail's, and when *)
(* a reply is mailed ReplyMail's. Left out: organizations and mailboxes    *)
(* deactivated, mails stored without an envelope, the filters' own         *)
(* criteria and Gmail's confirmation, staff addresses, mails to admins.    *)
(***************************************************************************)
EXTENDS Integers, FiniteSets, Sequences

CONSTANTS
  Orgs, Boxes,  \* organizations and mailboxes,
  Owner,        \* whose each mailbox is
  Publics,      \* the public addresses it may have
  Senders,      \* the addresses mails come from
  Workers,      \* what processes mails, each one at a time
  MaxTickets,   \* bound on the tickets ever opened,
  MaxMessages,  \* their messages,
  MaxMails,     \* the Message-IDs that senders make up,
  MaxCited,     \* those that a mail cites (the code's is 20),
  MaxLocals,    \* the inbound addresses a mailbox has in turn,
  MaxEdits,     \* and the changes staff makes to what mails go to
  Procs,        \* their requests under way
  Faults,       \* what may happen, besides: a subset of FaultKinds
  None

FaultKinds == {"erasing"}   \* a mail is written while its ticket is being erased

ASSUME MailRoutingAssumption ==
  /\ Owner \in [Boxes -> Orgs] /\ Faults \subseteq FaultKinds
  /\ MaxTickets \in Nat /\ MaxMessages \in Nat /\ MaxMails \in Nat /\ MaxCited \in Nat
  /\ MaxLocals \in Nat \ {0} /\ MaxEdits \in Nat

VARIABLES
  ticket,    \* Ticket: its organization and contact, and what it still takes
  thread,    \* TicketMessage, in the order they were created,
  written,   \* 1 .. written
  box,       \* Mailbox
  mail,      \* InboundEmail: the one each worker has in hand, if any
  received,  \* the senders' Message-IDs seen, 1 .. received
  locals,    \* the inbound addresses given to each mailbox, 1 .. locals[b]
  edits,     \* how many changes staff made
  pc, job,   \* what each request of an admin does, and the row it has in hand
  happened   \* the faults that happened

routing == <<ticket, thread, written, mail, received>>
settings == <<box, locals, pc, job>>
vars == <<routing, settings, edits, happened>>

Tickets == 1 .. MaxTickets
Numbers == 1 .. MaxMessages
Locals == 1 .. MaxLocals

(* Message-IDs: of the mails of our replies, which are their messages';    *)
(* of our other mails, a resolution or a link, which tell their ticket     *)
(* (tokens._ticket_mail_id); and those that senders make up.               *)
OfReply(n) == <<"reply", n>>
OfNotice(t) == <<"notice", t>>
Ids == ({"reply"} \X Numbers) \cup ({"notice"} \X Tickets) \cup ({"theirs"} \X (1 .. MaxMails))

(* A ticket's signed reply address, a mailbox's inbound addresses, and     *)
(* public addresses, that forward to one of these or not.                  *)
Addresses ==
  ({"reply"} \X Tickets) \cup ({"inbound"} \X Boxes \X Locals) \cup ({"public"} \X Publics)

(* A subject may name a ticket's reference, or be a forward's.             *)
Subjects == ({"reference"} \X Tickets) \cup {<<"forward">>, <<"plain">>}

TicketRows == [org : Orgs, box : Boxes \cup {None}, contact : Senders \cup {None},
               life : {"live", "old", "erasing", "erased", "gone"}]

(* Who a message is from: an agent, or a requester. One to be scrubbed of  *)
(* its Message-ID has it until that is committed.                          *)
Messages == [ticket : Tickets, id : Ids \cup {None}, from : {"agent", "user", "scrubbed"}]

Proofs == Publics \X Locals
BoxRows == [public : Publics \cup {None}, local : Locals,
            proof : Proofs \cup {None}, replyTo : BOOLEAN]
Mails == [id : Ids, to : Addresses \cup {None}, sender : Senders]
Rows == [mail : Mails, box : Boxes \cup {None}, step : {"stored", "triaged", "found"},
         org : Orgs \cup {None}, loaded : Proofs \cup {None},
         answers : SUBSET Tickets, match : Tickets \cup {None}]

ASSUME NoneAssumption == None \notin Tickets \cup TicketRows \cup Ids \cup Messages \cup Rows

TypeOK ==
  /\ ticket \in [Tickets -> TicketRows \cup {None}]
  /\ thread \in [Numbers -> Messages \cup {None}] /\ written \in 0 .. MaxMessages
  /\ box \in [Boxes -> BoxRows]
  /\ mail \in [Workers -> Rows \cup {None}]
  /\ received \in 0 .. MaxMails /\ locals \in [Boxes -> Locals] /\ edits \in 0 .. MaxEdits
  /\ pc \in [Procs -> {"idle", "compare", "save"}]
  /\ job \in [Procs -> [box : Boxes, row : BoxRows] \cup {None}]
  /\ happened \in SUBSET Faults

Init ==
  /\ ticket = [t \in Tickets |-> None]
  /\ thread = [n \in Numbers |-> None] /\ written = 0
  /\ box \in [Boxes -> [public : Publics \cup {None}, local : {1},
                        proof : {None}, replyTo : {FALSE}]]
  /\ \A b, c \in Boxes : box[b].public = box[c].public => b = c \/ box[b].public = None
  /\ mail = [w \in Workers |-> None] /\ received = 0
  /\ locals = [b \in Boxes |-> 1] /\ edits = 0
  /\ pc = [p \in Procs |-> "idle"] /\ job = [p \in Procs |-> None]
  /\ happened = {}

-----------------------------------------------------------------------------

FaultIf(cond, f) ==
  IF cond THEN f \in Faults /\ happened' = happened \cup {f} ELSE UNCHANGED happened

Edits == edits < MaxEdits /\ edits' = edits + 1

Without(kinds) == happened \cap kinds = {}

Exists(t) == ticket[t] # None /\ ticket[t].life # "gone"
Posted(n) == thread[n] # None
NewTickets == {t \in Tickets : ticket[t] = None /\ \A u \in 1 .. t - 1 : ticket[u] # None}

(***************************************************************************)
(* What a mail is for: recipients.py, filters.py                           *)
(***************************************************************************)

(* resolve, by the envelope: a reply address's ticket, or an active        *)
(* mailbox, by its inbound address or else its public one.                 *)
ReplyTicket(to) == {t \in Tickets : to = <<"reply", t>> /\ Exists(t)}
BoxesAt(to) ==
  {b \in Boxes : \/ to = <<"inbound", b, box[b].local>>
                 \/ to = <<"public", box[b].public>>}

(* The Message-IDs anyone may know: a reply's id tells that of its mail,   *)
(* and a notice's is signed.                                               *)
Known ==
  {OfReply(n) : n \in {m \in Numbers : Posted(m) /\ thread[m].from = "agent"}}
  \cup {OfNotice(t) : t \in {u \in Tickets : ticket[u] # None}}
  \cup {i \in Ids : i[1] = "theirs" /\ i[2] <= received}

(* A Message-ID is what its sender writes, one of ours or one seen before  *)
(* too: one mail may go to several addresses.                              *)
Sendable ==
  [id : Known \cup {i \in Ids : i = <<"theirs", received + 1>>},
   to : {a \in Addresses : ReplyTicket(a) # {} \/ BoxesAt(a) # {}},
   sender : Senders]

Row(m, b) == [mail |-> m, box |-> b, step |-> "stored", org |-> None, loaded |-> None,
              answers |-> {}, match |-> None]

(* store: what is for nobody is logged as rejected, and nothing comes of   *)
(* it; a mail is one row for each mailbox, and one for tickets of none.    *)
InProcess(i, b) == \E w \in Workers : mail[w] # None /\ mail[w].mail.id = i /\ mail[w].box = b

(* The bound on messages leaves room for those of the mails in hand.       *)
Room == written + Cardinality({w \in Workers : mail[w] # None}) < MaxMessages

Arrive(w, m) ==
  /\ mail[w] = None /\ Room
  /\ received' = IF m.id = <<"theirs", received + 1>> THEN received + 1 ELSE received
  /\ \E b \in {ticket[t].box : t \in ReplyTicket(m.to)} \cup BoxesAt(m.to) :
       ~InProcess(m.id, b) /\ mail' = [mail EXCEPT ![w] = Row(m, b)]
  /\ UNCHANGED <<ticket, thread, written, settings, edits, happened>>

(* stored_recipient: the ticket again, or the mailbox it arrived for.      *)
OrgOf(r) ==
  {ticket[t].org : t \in ReplyTicket(r.mail.to)}
  \cup (IF ReplyTicket(r.mail.to) = {} /\ r.box # None THEN {Owner[r.box]} ELSE {})

At(w, step) == mail[w] # None /\ mail[w].step = step

Drop(w) == mail' = [mail EXCEPT ![w] = None]

Ignore(w) ==
  /\ At(w, "stored") /\ Drop(w)
  /\ UNCHANGED <<ticket, thread, written, received, settings, edits, happened>>

IsDuplicate(r, o) ==
  \E n \in Numbers :
    Posted(n) /\ thread[n].id = r.mail.id /\ ticket[thread[n].ticket].org = o

(* Mutant of Forwarded: through a mailbox without a public address.        *)
ForwardedAnyway(r) ==
  IF r.box = None THEN None ELSE <<box[r.box].public, box[r.box].local>>

(* Its mailbox is loaded, with the addresses the mail may have been        *)
(* forwarded through.                                                      *)
Forwarded(r) ==
  IF r.box = None THEN None
  ELSE IF box[r.box].public = None \/ r.mail.to # <<"inbound", r.box, box[r.box].local>> THEN None
  ELSE <<box[r.box].public, box[r.box].local>>

Pass(w) ==
  LET r == mail[w] IN
  /\ At(w, "stored")
  /\ \E o \in OrgOf(r) :
       /\ ~IsDuplicate(r, o)
       /\ mail' = [mail EXCEPT ![w] =
                     [r EXCEPT !.step = "triaged", !.org = o, !.loaded = Forwarded(r)]]
  /\ UNCHANGED <<ticket, thread, written, received, settings, edits, happened>>

(***************************************************************************)
(* The ticket it continues: thread_matching.py                             *)
(***************************************************************************)

Continuable(t, o) == Exists(t) /\ ticket[t].org = o /\ ticket[t].life # "erased"

(* _referenced_ids: In-Reply-To, then References from the most recent.     *)
Citable == {c \in UNION {[1 .. k -> Known] : k \in 0 .. MaxCited} :
              \A j, k \in DOMAIN c : c[j] = c[k] => j = k}

Bearing(i, o) ==
  {n \in Numbers : Posted(n) /\ thread[n].id = i /\ Continuable(thread[n].ticket, o)}

(* Mutant of Precedes: the latest, whoever wrote it.                       *)
PrecedesLatest(n, k) == n >= k

(* Of those that bear one id, an agent's first, then the oldest.           *)
Precedes(n, k) ==
  IF thread[n].from = "agent" <=> thread[k].from = "agent" THEN n <= k
  ELSE thread[n].from = "agent"

First(N) == {n \in N : \A k \in N : Precedes(n, k)}

Named(i, o) ==
  IF Bearing(i, o) # {} THEN {thread[n].ticket : n \in First(Bearing(i, o))}
  ELSE {t \in Tickets : i = OfNotice(t) /\ Continuable(t, o)}

(* Mutant of ByHeaders: any of those it cites.                             *)
ByAnyHeader(c, o) == UNION {Named(c[k], o) : k \in DOMAIN c}

(* By the first mail it cites that names one; else, unless it is a         *)
(* forward, by the reply address it was sent to, or by the reference in    *)
(* its subject, if its contact's.                                          *)
ByHeaders(c, o) ==
  UNION {Named(c[k], o) : k \in {j \in DOMAIN c : \A l \in 1 .. j - 1 : Named(c[l], o) = {}}}

ByReplyAddress(m, o) == {t \in ReplyTicket(m.to) : Continuable(t, o)}
BySubject(m, s, o) ==
  {t \in Tickets : s = <<"reference", t>> /\ Continuable(t, o) /\ ticket[t].contact = m.sender}

FindTicket(m, cited, s, o) ==
  IF cited # {} THEN cited
  ELSE IF s = <<"forward">> THEN {}
  ELSE IF ByReplyAddress(m, o) # {} THEN ByReplyAddress(m, o)
  ELSE BySubject(m, s, o)

(* What a mail answers, told by what the ids are and not by a search: a    *)
(* reply of ours is that message's mail, whoever else took its id; another *)
(* id is its first message's; and a notice's that none took its ticket's.  *)
RepliedTo(i, o) ==
  {thread[n].ticket : n \in {m \in Bearing(i, o) : i = OfReply(m) /\ thread[m].from = "agent"}}
FirstBearing(i, o) ==
  {thread[n].ticket : n \in {m \in Bearing(i, o) : \A k \in Bearing(i, o) : m <= k}}
Answered(i, o) ==
  IF RepliedTo(i, o) # {} THEN RepliedTo(i, o)
  ELSE IF Bearing(i, o) # {} THEN FirstBearing(i, o)
  ELSE {t \in Tickets : i = OfNotice(t) /\ Continuable(t, o)}

(* The first of what it cites that is something of the organization's.     *)
Answers(c, o) ==
  UNION {Answered(c[k], o) : k \in {j \in DOMAIN c : \A l \in 1 .. j - 1 : Answered(c[l], o) = {}}}

(* What the mail's headers name and what they answer, by what it cites;    *)
(* answers is history: nothing the code does depends on it.                *)
Readings(o) == {<<ByHeaders(c, o), Answers(c, o)>> : c \in Citable}

Find(w) ==
  LET r == mail[w] IN
  /\ At(w, "triaged")
  /\ \E h \in Readings(r.org) : \E s \in Subjects :
       LET found == FindTicket(r.mail, h[1], s, r.org) IN
       \E t \in (IF found = {} THEN {None} ELSE found) :
         mail' = [mail EXCEPT ![w] =
                    [r EXCEPT !.step = "found", !.mail.to = None,
                              !.answers = h[2], !.match = t]]
  /\ UNCHANGED <<ticket, thread, written, received, settings, edits, happened>>

(* Mutant of Lock: as it was found.                                        *)
LockAsFound(t, o) == t

(* lock_matched_ticket: it is looked up again, under its lock alone.       *)
Lock(t, o) == IF t \in Tickets /\ Continuable(t, o) THEN t ELSE None

(* Mutant of Unchanged: whatever they are by now.                          *)
UnchangedOrNot(r) == TRUE

(* A mail that proves a forwarding (proves_forwarding) is one's proof only *)
(* while both addresses are those it went through.                         *)
Unchanged(r) == <<box[r.box].public, box[r.box].local>> = r.loaded

(* It came by the public address, or directly; a recent proof is kept.     *)
StampForwarding(r) ==
  \/ /\ r.loaded # None /\ Unchanged(r)
     /\ box' = [box EXCEPT ![r.box].proof = r.loaded]
  \/ UNCHANGED box

Post(m) ==
  /\ written < MaxMessages /\ written' = written + 1
  /\ thread' = [thread EXCEPT ![written'] = m]

(* A ticket that ended too long ago leaves the mail to a new one.          *)
Land(w) ==
  LET r == mail[w]
      t == Lock(r.match, r.org)
      Message(u) == [ticket |-> u, id |-> r.mail.id, from |-> "user"]
  IN
  /\ At(w, "found") /\ Drop(w) /\ StampForwarding(r)
  /\ \/ /\ t # None /\ ticket[t].life # "old"
        /\ Post(Message(t))
        /\ FaultIf(ticket[t].life = "erasing", "erasing")
        /\ UNCHANGED ticket
     \/ /\ t # None => ticket[t].life = "old"
        /\ \E u \in NewTickets :
             /\ ticket' = [ticket EXCEPT ![u] = [org |-> r.org, box |-> r.box,
                                                 contact |-> r.mail.sender, life |-> "live"]]
             /\ Post(Message(u))
        /\ UNCHANGED happened
  /\ UNCHANGED <<received, locals, edits, pc, job>>

(***************************************************************************)
(* Tickets                                                                 *)
(***************************************************************************)

(* Opened otherwise than by mail.                                          *)
OpenTicket(t, o, s) ==
  /\ t \in NewTickets
  /\ ticket' = [ticket EXCEPT ![t] = [org |-> o, box |-> None, contact |-> s, life |-> "live"]]
  /\ UNCHANGED <<thread, written, mail, received, settings, edits, happened>>

(* TicketMessageViewSet.perform_create, perform_destroy: an agent's reply, *)
(* and messages deleted.                                                   *)
Reply(t) ==
  /\ Exists(t) /\ Room
  /\ Post([ticket |-> t, id |-> None, from |-> "agent"])
  /\ UNCHANGED <<ticket, mail, received, settings, edits, happened>>

DeleteMessage(n) ==
  /\ Posted(n) /\ (thread[n].from = "scrubbed" => ticket[thread[n].ticket].life # "erasing")
  /\ thread' = [thread EXCEPT ![n] = None]
  /\ Edits
  /\ UNCHANGED <<ticket, written, mail, received, settings, happened>>

(* _send_requester_mail: it has its Message-ID once mailed, late if it was *)
(* to be read in the widget; the erased have no address.                   *)
MailReply(n) ==
  /\ Posted(n) /\ thread[n].from = "agent" /\ thread[n].id = None
  /\ ticket[thread[n].ticket].life # "erased"
  /\ thread' = [thread EXCEPT ![n].id = OfReply(n)]
  /\ UNCHANGED <<ticket, written, mail, received, settings, edits, happened>>

End(t) ==
  /\ Exists(t) /\ ticket[t].life = "live"
  /\ ticket' = [ticket EXCEPT ![t].life = "old"]
  /\ Edits
  /\ UNCHANGED <<thread, written, mail, received, settings, happened>>

DeleteTicket(t) ==
  /\ Exists(t) /\ ticket[t].life # "erasing"
  /\ ticket' = [ticket EXCEPT ![t].life = "gone", ![t].contact = None]
  /\ thread' = [n \in Numbers |-> IF Posted(n) /\ thread[n].ticket = t THEN None ELSE thread[n]]
  /\ Edits
  /\ UNCHANGED <<written, mail, received, settings, happened>>

(* anonymize_contact: the inbound mails from its address to the mailboxes  *)
(* of its organization are deleted, which waits for one that is written,   *)
(* its tickets' messages are scrubbed ...                                  *)
InTheWay(w, o, s) ==
  /\ mail[w] # None /\ mail[w].mail.sender = s
  /\ mail[w].box # None /\ Owner[mail[w].box] = o

Erase(o, s) ==
  LET T == {t \in Tickets : /\ Exists(t) /\ ticket[t].org = o /\ ticket[t].contact = s
                            /\ ticket[t].life \in {"live", "old"}}
      Scrubbed(n) == Posted(n) /\ thread[n].ticket \in T /\ thread[n].from = "user"
  IN
  /\ T # {}
  /\ \A w \in Workers : InTheWay(w, o, s) => mail[w].step # "found"
  /\ mail' = [w \in Workers |-> IF InTheWay(w, o, s) THEN None ELSE mail[w]]
  /\ ticket' = [t \in Tickets |-> IF t \in T THEN [ticket[t] EXCEPT !.life = "erasing"]
                                  ELSE ticket[t]]
  /\ thread' = [n \in Numbers |-> IF Scrubbed(n) THEN [thread[n] EXCEPT !.from = "scrubbed"]
                                  ELSE thread[n]]
  /\ Edits
  /\ UNCHANGED <<written, received, settings, happened>>

(* ... and it all counts once committed.                                   *)
Erased ==
  /\ \E t \in Tickets : Exists(t) /\ ticket[t].life = "erasing"
  /\ ticket' = [t \in Tickets |->
                  IF Exists(t) /\ ticket[t].life = "erasing"
                  THEN [ticket[t] EXCEPT !.life = "erased", !.contact = None] ELSE ticket[t]]
  /\ thread' = [n \in Numbers |->
                  IF Posted(n) /\ thread[n].from = "scrubbed"
                  THEN [thread[n] EXCEPT !.id = None] ELSE thread[n]]
  /\ UNCHANGED <<written, mail, received, settings, edits, happened>>

(***************************************************************************)
(* The mailbox: serializers.MailboxSerializer, models.Mailbox              *)
(***************************************************************************)

(* An address is one mailbox's.                                            *)
Takeable(a, b) == a # None => \A c \in Boxes \ {b} : box[c].public # a

(* read_only_fields: its inbound address and its proof.                    *)
KeepsReadOnly(row, b) == row.local = box[b].local /\ row.proof = box[b].proof

(* _check_reply_to_allowed: replies go to the public address once its      *)
(* forwarding is proven.                                                   *)
MayReplyTo(row, b) == row.proof # None /\ row.public = box[b].public

(* What a request may make of the row: MailboxSerializer.validate.         *)
Edited(b) ==
  {row \in BoxRows :
     /\ KeepsReadOnly(row, b) /\ Takeable(row.public, b)
     /\ row.replyTo => box[b].replyTo \/ MayReplyTo(row, b)}

(* The row as loaded, changed, is in hand ...                              *)
Edit(p, b) ==
  /\ pc[p] = "idle" /\ Edits
  /\ pc' = [pc EXCEPT ![p] = "compare"]
  /\ \E row \in Edited(b) :
       job' = [job EXCEPT ![p] = [box |-> b, row |-> row]]
  /\ UNCHANGED <<routing, box, locals, happened>>

Unproven(row) == [row EXCEPT !.proof = None, !.replyTo = FALSE]

(* Mailbox.save: the proof is of one address, and is told against the      *)
(* stored one, whatever was loaded.                                        *)
Forgetful(row, stored) == IF row.public = stored THEN row ELSE Unproven(row)

Compare(p) ==
  /\ pc[p] = "compare"
  /\ pc' = [pc EXCEPT ![p] = "save"]
  /\ job' = [job EXCEPT ![p].row = Forgetful(@, box[job[p].box].public)]
  /\ UNCHANGED <<routing, box, locals, edits, happened>>

(* ... and the whole of it is written, unless another took the address.    *)
Save(p) ==
  LET b == job[p].box
      row == job[p].row
  IN
  /\ pc[p] = "save"
  /\ pc' = [pc EXCEPT ![p] = "idle"] /\ job' = [job EXCEPT ![p] = None]
  /\ box' = IF Takeable(row.public, b) THEN [box EXCEPT ![b] = row] ELSE box
  /\ UNCHANGED <<routing, locals, edits, happened>>

RegenerateAddress(b) ==
  /\ locals[b] < MaxLocals /\ Edits
  /\ locals' = [locals EXCEPT ![b] = @ + 1]
  /\ box' = [box EXCEPT ![b] = [Unproven(@) EXCEPT !.local = locals'[b]]]
  /\ UNCHANGED <<routing, pc, job, happened>>

Next ==
  \/ \E w \in Workers : \/ \E m \in Sendable : Arrive(w, m)
                        \/ Ignore(w) \/ Pass(w) \/ Find(w) \/ Land(w)
  \/ \E t \in Tickets : Reply(t) \/ End(t) \/ DeleteTicket(t)
  \/ \E n \in Numbers : MailReply(n) \/ DeleteMessage(n)
  \/ \E o \in Orgs, s \in Senders : Erase(o, s) \/ \E t \in Tickets : OpenTicket(t, o, s)
  \/ Erased
  \/ \E b \in Boxes : RegenerateAddress(b)
  \/ \E p \in Procs : Compare(p) \/ Save(p) \/ \E b \in Boxes : Edit(p, b)

Spec == Init /\ [][Next]_vars

-----------------------------------------------------------------------------

Lands(w) == mail[w] # None /\ mail'[w] = None /\ written' # written

(* A mail lands in the organization it was delivered to, whatever it       *)
(* cites, on a ticket that takes mails, but for one that is being erased   *)
(* meanwhile; and one that answers a mail of a ticket there, on that       *)
(* ticket, if it still takes mails. What it answers is the first of those  *)
(* it cites that is of a ticket there: a reply of ours is of its own       *)
(* message's, though a customer took its Message-ID before it was mailed;  *)
(* and other mails land, messages and tickets go, meanwhile.               *)
LandsRight ==
  [][\A w \in Workers : Lands(w) =>
       LET t == thread'[written'].ticket IN
       /\ ticket'[t].org = mail[w].org
       /\ Without({"erasing"})' => ticket'[t].life = "live"
       /\ \A u \in mail[w].answers :
            Exists(u) /\ ticket[u].org = mail[w].org /\ ticket[u].life = "live" => t = u]_vars

(* What a mailbox's proof of forwarding, and the choice it allows, are     *)
(* about: its present addresses, though a mail that proves the forwarding  *)
(* was triaged before they changed, and a request saves the whole row it   *)
(* loaded before. It holds of one request at a time.                       *)
ProofOfOneAddress ==
  \A b \in Boxes :
    /\ box[b].proof \in {None, <<box[b].public, box[b].local>>}
    /\ box[b].replyTo => box[b].proof # None

=============================================================================
