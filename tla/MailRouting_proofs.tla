------------------------- MODULE MailRouting_proofs -------------------------
(***************************************************************************)
(* Proofs about where inbound mails go, for any organizations, mailboxes,  *)
(* tickets, workers and addresses: the types; that a mail lands where it   *)
(* was delivered, and on the ticket it answers; and that a mailbox's proof *)
(* of forwarding is of its present addresses, for one request at a time.   *)
(***************************************************************************)
EXTENDS MailRouting, TLAPS

(* A mail in hand was triaged for an organization, and was forwarded       *)
(* through a mailbox, if it may prove a forwarding; a request under way    *)
(* has a row.                                                              *)
MailHeld ==
  \A w \in Workers : mail[w] # None =>
    /\ mail[w].step # "stored" => mail[w].org \in Orgs
    /\ mail[w].loaded # None => mail[w].box \in Boxes

JobHeld == \A p \in Procs : pc[p] # "idle" => job[p] \in [box : Boxes, row : BoxRows]

Typed == TypeOK /\ MailHeld /\ JobHeld

(* Everything has its type at first.                                       *)
LEMMA InitTyped == Init => Typed
<1> SUFFICES ASSUME Init PROVE Typed
  OBVIOUS
<1> USE MailRoutingAssumption
<1>1. /\ ticket \in [Tickets -> TicketRows \cup {None}]
      /\ thread \in [Numbers -> Messages \cup {None}] /\ written \in 0 .. MaxMessages
  BY DEF Init
<1>2. box \in [Boxes -> BoxRows]
  <2>1. \A b \in Boxes : box[b] \in [public : Publics \cup {None}, local : {1},
                                    proof : {None}, replyTo : {FALSE}]
    BY DEF Init
  <2>2. 1 \in Locals
    BY DEF Locals
  <2>3. \A b \in Boxes : box[b] \in BoxRows
    BY <2>1, <2>2 DEF BoxRows
  <2> QED
    BY <2>3 DEF Init
<1>3. locals \in [Boxes -> Locals] /\ received \in 0 .. MaxMails /\ edits \in 0 .. MaxEdits
  BY DEF Init, Locals
<1>4. /\ pc \in [Procs -> {"idle", "compare", "save"}]
      /\ job \in [Procs -> [box : Boxes, row : BoxRows] \cup {None}]
      /\ happened \in SUBSET Faults /\ mail \in [Workers -> Rows \cup {None}]
  BY DEF Init
<1>5. MailHeld /\ JobHeld
  BY DEF Init, MailHeld, JobHeld
<1> QED
  BY <1>1, <1>2, <1>3, <1>4, <1>5, Zenon DEF Typed, TypeOK

-----------------------------------------------------------------------------

(* Tickets                                                                 *)

(* A ticket stays its organization's; and it takes no mail once it took    *)
(* none.                                                                   *)
TicketsKept ==
  \A t \in Tickets : ticket[t] # None =>
    /\ ticket'[t] # None /\ ticket'[t].org = ticket[t].org
    /\ ticket'[t].life = "live" => ticket[t].life = "live"

(* A new ticket is like this.                                              *)
NewRow(o, b, s) == [org |-> o, box |-> b, contact |-> s, life |-> "live"]

(* The ticket that a mail, or somebody, opens.                             *)
LEMMA Opening ==
  ASSUME Typed, NEW u \in NewTickets, NEW o \in Orgs, NEW b \in Boxes \cup {None},
         NEW s \in Senders, ticket' = [ticket EXCEPT ![u] = NewRow(o, b, s)]
  PROVE  /\ ticket' \in [Tickets -> TicketRows \cup {None}] /\ TicketsKept
         /\ u \in Tickets /\ ticket[u] = None /\ ticket'[u] = NewRow(o, b, s)
<1>1. u \in Tickets /\ ticket[u] = None
  BY DEF NewTickets
<1>2. NewRow(o, b, s) \in TicketRows
  BY DEF NewRow, TicketRows
<1>3. \A t \in Tickets : ticket'[t] = IF t = u THEN NewRow(o, b, s) ELSE ticket[t]
  BY DEF Typed, TypeOK
<1>4. ticket' \in [Tickets -> TicketRows \cup {None}]
  BY <1>1, <1>2 DEF Typed, TypeOK
<1> QED
  BY <1>1, <1>3, <1>4 DEF TicketsKept

(* What the end, the deletion or the erasure of some make of them: each    *)
(* one changed becomes another row.                                        *)
LEMMA Changing ==
  ASSUME Typed, ticket' = [t \in Tickets |-> ticket'[t]],
         \A t \in Tickets :
           \/ ticket'[t] = ticket[t]
           \/ /\ Exists(t) /\ ticket'[t] \in TicketRows
              /\ ticket'[t].org = ticket[t].org /\ ticket'[t].life # "live"
  PROVE  ticket' \in [Tickets -> TicketRows \cup {None}] /\ TicketsKept
<1>1. \A t \in Tickets : ticket[t] \in TicketRows \cup {None}
  BY DEF Typed, TypeOK
<1>2. \A t \in Tickets : ticket'[t] \in TicketRows \cup {None}
  BY <1>1
<1> QED
  BY <1>2, NoneAssumption DEF TicketsKept

(* The message a mail becomes.                                             *)
MessageOf(u, r) == [ticket |-> u, id |-> r.mail.id, from |-> "user"]

(* A mail landing continues a ticket, or opens one.                        *)
LEMMA LandIs ==
  ASSUME Typed, NEW w \in Workers, Land(w)
  PROVE  /\ mail[w] \in Rows /\ mail[w].step = "found" /\ mail[w].org \in Orgs
         /\ mail' = [mail EXCEPT ![w] = None]
         /\ \/ /\ mail[w].match \in Tickets /\ Continuable(mail[w].match, mail[w].org)
               /\ ticket[mail[w].match].life # "old" /\ ticket' = ticket
               /\ Post(MessageOf(mail[w].match, mail[w]))
               /\ ticket[mail[w].match].life = "erasing" => "erasing" \in happened'
            \/ /\ mail[w].match \in Tickets /\ Continuable(mail[w].match, mail[w].org)
                    => ticket[mail[w].match].life = "old"
               /\ \E u \in NewTickets :
                    /\ ticket' = [ticket EXCEPT
                                    ![u] = NewRow(mail[w].org, mail[w].box,
                                                  mail[w].mail.sender)]
                    /\ Post(MessageOf(u, mail[w]))
<1>1. /\ mail[w] \in Rows /\ mail[w].step = "found" /\ mail[w].org \in Orgs
      /\ mail' = [mail EXCEPT ![w] = None]
  BY DEF Land, At, Drop, Typed, TypeOK, MailHeld
<1>2. CASE mail[w].match \in Tickets /\ Continuable(mail[w].match, mail[w].org)
  <2>1. Lock(mail[w].match, mail[w].org) = mail[w].match /\ mail[w].match # None
    BY <1>2, NoneAssumption DEF Lock
  <2> QED
    BY <1>1, <1>2, <2>1, Zenon DEF Land, FaultIf, NewRow, MessageOf
<1>3. CASE ~(mail[w].match \in Tickets /\ Continuable(mail[w].match, mail[w].org))
  <2>1. Lock(mail[w].match, mail[w].org) = None
    BY <1>3 DEF Lock
  <2> QED
    BY <1>1, <1>3, <2>1, Zenon DEF Land, NewRow, MessageOf
<1> QED
  BY <1>2, <1>3

(* Every step keeps the tickets.                                           *)
LEMMA TicketsNext ==
  ASSUME Typed, [Next]_vars
  PROVE  ticket' \in [Tickets -> TicketRows \cup {None}] /\ TicketsKept
<1> DEFINE Fine == ticket' \in [Tickets -> TicketRows \cup {None}] /\ TicketsKept
<1> SUFFICES Fine
  OBVIOUS
<1>1. ticket' = ticket => Fine
  BY DEF Typed, TypeOK, TicketsKept
<1>2. ASSUME NEW w \in Workers, Land(w) PROVE Fine
  <2>1. /\ mail[w].org \in Orgs /\ mail[w].box \in Boxes \cup {None}
        /\ mail[w].mail.sender \in Senders
    BY <1>2, LandIs DEF Rows, Mails
  <2>2. \/ ticket' = ticket
        \/ \E u \in NewTickets :
             ticket' = [ticket EXCEPT
                          ![u] = NewRow(mail[w].org, mail[w].box, mail[w].mail.sender)]
    BY <1>2, LandIs
  <2> QED
    BY <1>1, <2>1, <2>2, Opening
<1>3. ASSUME NEW o \in Orgs, NEW s \in Senders, NEW t \in Tickets, OpenTicket(t, o, s)
      PROVE  Fine
  BY <1>3, Opening DEF OpenTicket, NewRow
<1>4. ASSUME NEW u \in Tickets, End(u) PROVE Fine
  <2>1. Exists(u) /\ ticket[u] \in TicketRows
    BY <1>4 DEF End, Exists, Typed, TypeOK
  <2>2. ticket' = [ticket EXCEPT ![u] = [ticket[u] EXCEPT !.life = "old"]]
    BY <1>4 DEF End
  <2>3. \A r \in TicketRows : LET q == [r EXCEPT !.life = "old"] IN
          q \in TicketRows /\ q.org = r.org /\ q.life # "live"
    BY DEF TicketRows
  <2> QED
    BY <2>1, <2>2, <2>3, Changing DEF Typed, TypeOK, Exists
<1>5. ASSUME NEW u \in Tickets, DeleteTicket(u) PROVE Fine
  <2>1. Exists(u) /\ ticket[u] \in TicketRows
    BY <1>5 DEF DeleteTicket, Exists, Typed, TypeOK
  <2>2. ticket' = [ticket EXCEPT ![u] = [ticket[u] EXCEPT !.life = "gone", !.contact = None]]
    BY <1>5 DEF DeleteTicket, Typed, TypeOK
  <2>3. \A r \in TicketRows : LET q == [r EXCEPT !.life = "gone", !.contact = None] IN
          q \in TicketRows /\ q.org = r.org /\ q.life # "live"
    BY DEF TicketRows
  <2> QED
    BY <2>1, <2>2, <2>3, Changing DEF Typed, TypeOK, Exists
<1>6. ASSUME NEW o \in Orgs, NEW s \in Senders, Erase(o, s) PROVE Fine
  <2> DEFINE T == {t \in Tickets : /\ Exists(t) /\ ticket[t].org = o /\ ticket[t].contact = s
                                   /\ ticket[t].life \in {"live", "old"}}
  <2>1. \A t \in T : t \in Tickets /\ Exists(t) /\ ticket[t] \in TicketRows
    BY DEF Exists, Typed, TypeOK
  <2>2. ticket' = [t \in Tickets |-> IF t \in T THEN [ticket[t] EXCEPT !.life = "erasing"]
                                     ELSE ticket[t]]
    BY <1>6 DEF Erase
  <2>3. \A r \in TicketRows : LET q == [r EXCEPT !.life = "erasing"] IN
          q \in TicketRows /\ q.org = r.org /\ q.life # "live"
    BY DEF TicketRows
  <2> HIDE DEF T
  <2> QED
    BY <2>1, <2>2, <2>3, Changing
<1>7. ASSUME Erased PROVE Fine
  <2> DEFINE T == {t \in Tickets : Exists(t) /\ ticket[t].life = "erasing"}
  <2>1. \A t \in T : t \in Tickets /\ Exists(t) /\ ticket[t] \in TicketRows
    BY DEF Exists, Typed, TypeOK
  <2>2. ticket' = [t \in Tickets |->
                     IF t \in T THEN [ticket[t] EXCEPT !.life = "erased", !.contact = None]
                     ELSE ticket[t]]
    BY <1>7 DEF Erased
  <2>3. \A r \in TicketRows : LET q == [r EXCEPT !.life = "erased", !.contact = None] IN
          q \in TicketRows /\ q.org = r.org /\ q.life # "live"
    BY DEF TicketRows
  <2> HIDE DEF T
  <2> QED
    BY <2>1, <2>2, <2>3, Changing
<1>8. ASSUME NEW w \in Workers,
             (\E m \in Sendable : Arrive(w, m)) \/ Ignore(w) \/ Pass(w) \/ Find(w)
      PROVE  ticket' = ticket
  BY <1>8 DEF Arrive, Ignore, Pass, Find
<1>9. ASSUME NEW b \in Boxes, RegenerateAddress(b) PROVE ticket' = ticket
  BY <1>9 DEF RegenerateAddress, routing
<1>10. ASSUME NEW p \in Procs, Compare(p) \/ Save(p) \/ \E b \in Boxes : Edit(p, b)
       PROVE  ticket' = ticket
  BY <1>10 DEF Compare, Save, Edit, routing
<1>11. ASSUME NEW t \in Tickets, Reply(t) PROVE ticket' = ticket
  BY <1>11 DEF Reply
<1>12. ASSUME NEW n \in Numbers, MailReply(n) \/ DeleteMessage(n) PROVE ticket' = ticket
  BY <1>12 DEF MailReply, DeleteMessage
<1>13. UNCHANGED vars => ticket' = ticket
  BY DEF vars, routing
<1> HIDE DEF Fine
<1> QED
  BY <1>1, <1>2, <1>3, <1>4, <1>5, <1>6, <1>7, <1>8, <1>9, <1>10, <1>11, <1>12, <1>13, Zenon
  DEF Next

-----------------------------------------------------------------------------

(* Messages                                                                *)

(* A reply of ours has its own Message-ID, once mailed.                    *)
OwnIds ==
  \A n \in Numbers : thread[n] # None /\ thread[n].from = "agent" =>
    thread[n].id \in {None, OfReply(n)}

Threads == thread \in [Numbers -> Messages \cup {None}] /\ written \in 0 .. MaxMessages

(* A message that is posted is the last.                                   *)
LEMMA Posting ==
  ASSUME Typed, NEW m \in Messages, Post(m)
  PROVE  /\ Threads' /\ written' \in Numbers /\ thread'[written'] = m
         /\ OwnIds /\ (m.from = "agent" => m.id = None) => OwnIds'
<1> USE MailRoutingAssumption
<1>1. written' \in Numbers /\ written' \in 0 .. MaxMessages
  BY DEF Post, Typed, TypeOK, Numbers
<1>2. \A n \in Numbers : thread'[n] = IF n = written' THEN m ELSE thread[n]
  BY DEF Post, Typed, TypeOK
<1>3. thread' \in [Numbers -> Messages \cup {None}]
  BY <1>1 DEF Post, Typed, TypeOK
<1>4. ASSUME OwnIds, m.from = "agent" => m.id = None PROVE OwnIds'
  BY <1>2, <1>4 DEF OwnIds
<1> QED
  BY <1>1, <1>2, <1>3, <1>4 DEF Threads

(* What deletions and scrubbing make of them: each one changed is gone, or *)
(* another of no agent.                                                    *)
LEMMA Scrubbing ==
  ASSUME Typed, thread' = [n \in Numbers |-> thread'[n]], written' = written,
         \A n \in Numbers :
           \/ thread'[n] = thread[n]
           \/ thread'[n] = None
           \/ thread'[n] \in Messages /\ thread'[n].from # "agent"
  PROVE  Threads' /\ (OwnIds => OwnIds')
<1>1. \A n \in Numbers : thread'[n] \in Messages \cup {None}
  BY DEF Typed, TypeOK
<1>2. Threads'
  BY <1>1 DEF Threads, Typed, TypeOK
<1>3. ASSUME OwnIds PROVE OwnIds'
  BY <1>3 DEF OwnIds
<1> QED
  BY <1>2, <1>3

(* Every step keeps the messages.                                          *)
LEMMA ThreadNext ==
  ASSUME Typed, [Next]_vars
  PROVE  Threads' /\ (OwnIds => OwnIds')
<1> DEFINE Fine == Threads' /\ (OwnIds => OwnIds')
<1> SUFFICES Fine
  OBVIOUS
<1>1. UNCHANGED <<thread, written>> => Fine
  BY DEF Typed, TypeOK, Threads, OwnIds
<1>2. ASSUME NEW w \in Workers, Land(w) PROVE Fine
  <2>1. PICK u \in Tickets : Post(MessageOf(u, mail[w]))
    BY <1>2, LandIs DEF NewTickets
  <2>2. mail[w].mail.id \in Ids
    BY <1>2, LandIs DEF Rows, Mails
  <2>3. MessageOf(u, mail[w]) \in Messages /\ MessageOf(u, mail[w]).from = "user"
    BY <2>2 DEF MessageOf, Messages
  <2> QED
    BY <2>1, <2>3, Posting
<1>3. ASSUME NEW t \in Tickets, Reply(t) PROVE Fine
  <2> DEFINE m == [ticket |-> t, id |-> None, from |-> "agent"]
  <2>1. m \in Messages /\ m.id = None
    BY DEF Messages
  <2>2. Post(m)
    BY <1>3 DEF Reply
  <2> HIDE DEF m
  <2> QED
    BY <2>1, <2>2, Posting
<1>4. ASSUME NEW n \in Numbers, MailReply(n) PROVE Fine
  <2>1. thread[n] \in Messages /\ OfReply(n) \in Ids
    BY <1>4 DEF MailReply, Posted, Typed, TypeOK, OfReply, Ids
  <2>2. [thread[n] EXCEPT !.id = OfReply(n)] \in Messages
    BY <2>1 DEF Messages
  <2>3. [thread[n] EXCEPT !.id = OfReply(n)].id = OfReply(n)
    BY <2>1 DEF Messages
  <2>4. /\ thread' = [thread EXCEPT ![n] = [thread[n] EXCEPT !.id = OfReply(n)]]
        /\ written' = written
    BY <1>4 DEF MailReply
  <2>5. Threads'
    BY <2>2, <2>4 DEF Threads, Typed, TypeOK
  <2>6. \A k \in Numbers : k # n => thread'[k] = thread[k]
    BY <2>4 DEF Typed, TypeOK
  <2>7. thread'[n].id = OfReply(n)
    BY <2>3, <2>4 DEF Typed, TypeOK
  <2>8. ASSUME OwnIds PROVE OwnIds'
    BY <2>6, <2>7, <2>8 DEF OwnIds
  <2> QED
    BY <2>5, <2>8
<1>5. ASSUME NEW n \in Numbers, DeleteMessage(n) PROVE Fine
  BY <1>5, Scrubbing DEF DeleteMessage, Typed, TypeOK
<1>6. ASSUME NEW t \in Tickets, DeleteTicket(t) PROVE Fine
  BY <1>6, Scrubbing DEF DeleteTicket
<1>7. ASSUME NEW o \in Orgs, NEW s \in Senders, Erase(o, s) PROVE Fine
  <2> DEFINE T == {t \in Tickets : /\ Exists(t) /\ ticket[t].org = o /\ ticket[t].contact = s
                                   /\ ticket[t].life \in {"live", "old"}}
             Scrubbed(n) == Posted(n) /\ thread[n].ticket \in T /\ thread[n].from = "user"
  <2>1. /\ thread' = [n \in Numbers |-> IF Scrubbed(n)
                                        THEN [thread[n] EXCEPT !.from = "scrubbed"]
                                        ELSE thread[n]]
        /\ written' = written
    BY <1>7 DEF Erase
  <2>2. \A n \in Numbers : Scrubbed(n) => thread[n] \in Messages
    BY DEF Posted, Typed, TypeOK
  <2>3. \A m \in Messages : LET q == [m EXCEPT !.from = "scrubbed"] IN
          q \in Messages /\ q.from # "agent"
    BY DEF Messages
  <2> HIDE DEF Scrubbed
  <2> QED
    BY <2>1, <2>2, <2>3, Scrubbing
<1>8. ASSUME Erased PROVE Fine
  <2> DEFINE Scrubbed(n) == Posted(n) /\ thread[n].from = "scrubbed"
  <2>1. /\ thread' = [n \in Numbers |-> IF Scrubbed(n) THEN [thread[n] EXCEPT !.id = None]
                                        ELSE thread[n]]
        /\ written' = written
    BY <1>8 DEF Erased
  <2>2. \A n \in Numbers : Scrubbed(n) => thread[n] \in Messages /\ thread[n].from = "scrubbed"
    BY DEF Posted, Typed, TypeOK
  <2>3. \A m \in Messages : LET q == [m EXCEPT !.id = None] IN
          q \in Messages /\ q.from = m.from
    BY DEF Messages
  <2> HIDE DEF Scrubbed
  <2> QED
    BY <2>1, <2>2, <2>3, Scrubbing
<1>9. ASSUME NEW w \in Workers,
             (\E m \in Sendable : Arrive(w, m)) \/ Ignore(w) \/ Pass(w) \/ Find(w)
      PROVE  UNCHANGED <<thread, written>>
  BY <1>9 DEF Arrive, Ignore, Pass, Find
<1>10. ASSUME NEW t \in Tickets, End(t) PROVE UNCHANGED <<thread, written>>
  BY <1>10 DEF End
<1>11. ASSUME NEW o \in Orgs, NEW s \in Senders, NEW t \in Tickets, OpenTicket(t, o, s)
       PROVE  UNCHANGED <<thread, written>>
  BY <1>11 DEF OpenTicket
<1>12. ASSUME NEW b \in Boxes, RegenerateAddress(b) PROVE UNCHANGED <<thread, written>>
  BY <1>12 DEF RegenerateAddress, routing
<1>13. ASSUME NEW p \in Procs, Compare(p) \/ Save(p) \/ \E b \in Boxes : Edit(p, b)
       PROVE  UNCHANGED <<thread, written>>
  BY <1>13 DEF Compare, Save, Edit, routing
<1>14. UNCHANGED vars => UNCHANGED <<thread, written>>
  BY DEF vars, routing
<1> HIDE DEF Fine
<1> QED
  BY <1>1, <1>2, <1>3, <1>4, <1>5, <1>6, <1>7, <1>8, <1>9, <1>10, <1>11, <1>12, <1>13, <1>14,
     Zenon DEF Next

-----------------------------------------------------------------------------

(* The mails in hand                                                       *)

(* What becomes of a row, keeping its type.                                *)
Triaged(r, o, l) == [r EXCEPT !.step = "triaged", !.org = o, !.loaded = l]
Matching(r, A, t) ==
  [r EXCEPT !.step = "found", !.mail.to = None, !.answers = A, !.match = t]

(* A mail stored or triaged has its type.                                  *)
LEMMA RowsTyped ==
  /\ \A m \in Mails, b \in Boxes \cup {None} :
       /\ Row(m, b) \in Rows /\ Row(m, b).step = "stored" /\ Row(m, b).loaded = None
  /\ \A r \in Rows, o \in Orgs, l \in Proofs \cup {None} :
       /\ Triaged(r, o, l) \in Rows /\ Triaged(r, o, l).step = "triaged"
       /\ Triaged(r, o, l).org = o /\ Triaged(r, o, l).loaded = l
       /\ Triaged(r, o, l).box = r.box
<1>1. ASSUME NEW m \in Mails, NEW b \in Boxes \cup {None}
      PROVE  /\ Row(m, b) \in Rows /\ Row(m, b).step = "stored" /\ Row(m, b).loaded = None
  BY DEF Row, Rows
<1>2. ASSUME NEW r \in Rows, NEW o \in Orgs, NEW l \in Proofs \cup {None}
      PROVE  /\ Triaged(r, o, l) \in Rows /\ Triaged(r, o, l).step = "triaged"
             /\ Triaged(r, o, l).org = o /\ Triaged(r, o, l).loaded = l
             /\ Triaged(r, o, l).box = r.box
  BY DEF Triaged, Rows
<1> QED
  BY <1>1, <1>2

(* A mail whose ticket was looked for has its type.                        *)
LEMMA MatchTyped ==
  ASSUME NEW r \in Rows, NEW A \in SUBSET Tickets, NEW t \in Tickets \cup {None}
  PROVE  LET q == Matching(r, A, t) IN
         /\ q \in Rows /\ q.step = "found" /\ q.answers = A /\ q.match = t
         /\ q.org = r.org /\ q.loaded = r.loaded /\ q.box = r.box
<1>1. r.mail \in Mails /\ [r.mail EXCEPT !.to = None] \in Mails
  BY DEF Rows, Mails
<1>2. Matching(r, A, t) = [r EXCEPT !.step = "found", !.mail = [r.mail EXCEPT !.to = None],
                                    !.answers = A, !.match = t]
  BY <1>1 DEF Matching, Rows, Mails
<1> QED
  BY <1>1, <1>2 DEF Rows

(* A mail is stored for a ticket's mailbox, or for the one it was sent to. *)
LEMMA ArriveIs ==
  ASSUME Typed, NEW w \in Workers, NEW m \in Sendable, Arrive(w, m)
  PROVE  /\ m \in Mails /\ \E b \in Boxes \cup {None} : mail' = [mail EXCEPT ![w] = Row(m, b)]
         /\ received' \in 0 .. MaxMails
<1> USE MailRoutingAssumption
<1>1. Known \subseteq Ids
  BY DEF Known, Ids, OfReply, OfNotice
<1>2. m \in Mails
  BY <1>1 DEF Sendable, Mails
<1>3. \A t \in ReplyTicket(m.to) : ticket[t].box \in Boxes \cup {None}
  BY DEF ReplyTicket, Exists, Typed, TypeOK, TicketRows
<1>4. BoxesAt(m.to) \subseteq Boxes
  BY DEF BoxesAt
<1>5. received' \in 0 .. MaxMails
  <2>1. CASE m.id = <<"theirs", received + 1>>
    <3>1. received + 1 \in 1 .. MaxMails
      BY <1>2, <2>1 DEF Mails, Ids
    <3> QED
      BY <2>1, <3>1 DEF Arrive
  <2>2. CASE m.id # <<"theirs", received + 1>>
    BY <2>2 DEF Arrive, Typed, TypeOK
  <2> QED
    BY <2>1, <2>2
<1> QED
  BY <1>2, <1>3, <1>4, <1>5 DEF Arrive

(* It is triaged for an organization, with what it may have been forwarded *)
(* through.                                                                *)
LEMMA PassIs ==
  ASSUME Typed, NEW w \in Workers, Pass(w)
  PROVE  /\ mail[w] \in Rows
         /\ \E o \in Orgs : mail' = [mail EXCEPT ![w] = Triaged(mail[w], o, Forwarded(mail[w]))]
         /\ Forwarded(mail[w]) \in Proofs \cup {None}
         /\ Forwarded(mail[w]) # None => mail[w].box \in Boxes
<1> USE MailRoutingAssumption
<1> DEFINE r == mail[w]
<1>1. r \in Rows /\ r.box \in Boxes \cup {None}
  BY DEF Pass, At, Typed, TypeOK, Rows
<1>2. OrgOf(r) \subseteq Orgs
  <2>1. \A t \in ReplyTicket(r.mail.to) : ticket[t].org \in Orgs
    BY DEF ReplyTicket, Exists, Typed, TypeOK, TicketRows
  <2>2. r.box # None => Owner[r.box] \in Orgs
    BY <1>1
  <2> QED
    BY <2>1, <2>2 DEF OrgOf
<1>3. /\ Forwarded(r) \in Proofs \cup {None}
      /\ Forwarded(r) # None => r.box \in Boxes
  <2>1. CASE r.box = None
    BY <2>1 DEF Forwarded
  <2>2. CASE r.box # None
    <3>1. /\ box[r.box].public \in Publics \cup {None} /\ box[r.box].local \in Locals
          /\ r.box \in Boxes
      BY <1>1, <2>2 DEF Typed, TypeOK, BoxRows
    <3>2. box[r.box].public # None => <<box[r.box].public, box[r.box].local>> \in Proofs
      BY <3>1 DEF Proofs
    <3> QED
      BY <3>1, <3>2, Zenon DEF Forwarded
  <2> QED
    BY <2>1, <2>2
<1>4. PICK o \in OrgOf(r) : mail' = [mail EXCEPT ![w] = Triaged(r, o, Forwarded(r))]
  BY DEF Pass, Triaged
<1> QED
  BY <1>1, <1>2, <1>3, <1>4

(* An id names, and answers, tickets.                                      *)
LEMMA NamesTickets ==
  ASSUME Typed, NEW i, NEW o
  PROVE  Named(i, o) \subseteq Tickets /\ Answered(i, o) \subseteq Tickets
<1>1. Bearing(i, o) \subseteq {n \in Numbers : thread[n] \in Messages}
  BY DEF Bearing, Posted, Typed, TypeOK
<1>2. \A n \in Bearing(i, o) : thread[n].ticket \in Tickets
  BY <1>1 DEF Messages
<1>3. Named(i, o) \subseteq Tickets
  BY <1>2 DEF Named, First
<1>4. RepliedTo(i, o) \subseteq Tickets /\ FirstBearing(i, o) \subseteq Tickets
  BY <1>2 DEF RepliedTo, FirstBearing
<1> QED
  BY <1>3, <1>4 DEF Answered

(* A mail answers tickets.                                                 *)
LEMMA AnswersTickets ==
  ASSUME Typed, NEW c, NEW o
  PROVE  Answers(c, o) \in SUBSET Tickets
<1>1. \A i : Answered(i, o) \subseteq Tickets
  BY NamesTickets
<1> QED
  BY <1>1 DEF Answers

(* The ticket found, if any, is one that the mail's headers name, if they  *)
(* name one.                                                               *)
LEMMA FindIs ==
  ASSUME Typed, NEW w \in Workers, Find(w)
  PROVE  /\ mail[w] \in Rows /\ mail[w].step = "triaged"
         /\ \E c \in Citable, t \in Tickets \cup {None} :
              /\ mail' = [mail EXCEPT ![w] = Matching(mail[w], Answers(c, mail[w].org), t)]
              /\ ByHeaders(c, mail[w].org) # {} => t \in ByHeaders(c, mail[w].org)
<1> DEFINE r == mail[w]
<1>1. r \in Rows /\ r.step = "triaged"
  BY DEF Find, At, Typed, TypeOK
<1>2. PICK h \in Readings(r.org), s \in Subjects :
        \E t \in (IF FindTicket(r.mail, h[1], s, r.org) = {} THEN {None}
                  ELSE FindTicket(r.mail, h[1], s, r.org)) :
          mail' = [mail EXCEPT ![w] = Matching(r, h[2], t)]
  BY DEF Find, Matching
<1>3. PICK c \in Citable : h[1] = ByHeaders(c, r.org) /\ h[2] = Answers(c, r.org)
  BY DEF Readings
<1> DEFINE cited == ByHeaders(c, r.org)
           found == FindTicket(r.mail, cited, s, r.org)
<1>4. cited \subseteq Tickets
  <2>1. \A i : Named(i, r.org) \subseteq Tickets
    BY NamesTickets
  <2> QED
    BY <2>1 DEF ByHeaders
<1>5. found \subseteq Tickets /\ (cited # {} => found = cited)
  BY <1>4 DEF FindTicket, ByReplyAddress, ReplyTicket, BySubject
<1> HIDE DEF found, cited
<1>6. PICK t \in (IF found = {} THEN {None} ELSE found) :
        mail' = [mail EXCEPT ![w] = Matching(r, Answers(c, r.org), t)]
  BY <1>2, <1>3 DEF found, cited
<1>7. t \in Tickets \cup {None} /\ (cited # {} => t \in cited)
  BY <1>5, <1>6
<1> QED
  BY <1>1, <1>6, <1>7, Zenon DEF cited

(* A mail in hand, its type kept, as a worker goes on with it.             *)
LEMMA OneMail ==
  ASSUME Typed, NEW w \in Workers, NEW q \in Rows \cup {None},
         mail' = [mail EXCEPT ![w] = q],
         q # None => /\ q.step # "stored" => q.org \in Orgs
                     /\ q.loaded # None => q.box \in Boxes
  PROVE  mail' \in [Workers -> Rows \cup {None}] /\ MailHeld'
<1>1. \A v \in Workers : mail'[v] = IF v = w THEN q ELSE mail[v]
  BY DEF Typed, TypeOK
<1>2. mail' \in [Workers -> Rows \cup {None}]
  BY DEF Typed, TypeOK
<1>3. MailHeld'
  BY <1>1 DEF Typed, MailHeld
<1> QED
  BY <1>2, <1>3

(* Every step keeps the mails' types.                                      *)
LEMMA MailNext ==
  ASSUME Typed, [Next]_vars
  PROVE  /\ mail' \in [Workers -> Rows \cup {None}] /\ received' \in 0 .. MaxMails
         /\ MailHeld'
<1> DEFINE Fine == /\ mail' \in [Workers -> Rows \cup {None}] /\ received' \in 0 .. MaxMails
                   /\ MailHeld'
<1> SUFFICES Fine
  OBVIOUS
<1>1. UNCHANGED <<mail, received>> => Fine
  BY DEF Typed, TypeOK, MailHeld
<1>2. ASSUME NEW w \in Workers, mail' = [mail EXCEPT ![w] = None], UNCHANGED received
      PROVE  Fine
  BY <1>2, OneMail DEF Typed, TypeOK
<1>3. ASSUME NEW w \in Workers, NEW m \in Sendable, Arrive(w, m) PROVE Fine
  <2>1. PICK b \in Boxes \cup {None} : mail' = [mail EXCEPT ![w] = Row(m, b)]
    BY <1>3, ArriveIs
  <2>2. Row(m, b) \in Rows /\ Row(m, b).step = "stored" /\ Row(m, b).loaded = None
    BY <1>3, ArriveIs, RowsTyped
  <2> QED
    BY <1>3, <2>1, <2>2, OneMail, ArriveIs
<1>4. ASSUME NEW w \in Workers, Pass(w) PROVE Fine
  <2>1. PICK o \in Orgs : mail' = [mail EXCEPT ![w] = Triaged(mail[w], o, Forwarded(mail[w]))]
    BY <1>4, PassIs
  <2> DEFINE q == Triaged(mail[w], o, Forwarded(mail[w]))
  <2>2. q \in Rows /\ q.org \in Orgs /\ (q.loaded # None => q.box \in Boxes)
    BY <1>4, PassIs, RowsTyped
  <2> HIDE DEF q
  <2>3. mail' = [mail EXCEPT ![w] = q]
    BY <2>1 DEF q
  <2>4. received' \in 0 .. MaxMails
    BY <1>4 DEF Pass, Typed, TypeOK
  <2> QED
    BY <2>2, <2>3, <2>4, OneMail
<1>5. ASSUME NEW w \in Workers, Find(w) PROVE Fine
  <2>1. mail[w] \in Rows /\ mail[w].step = "triaged" /\ mail[w] # None
    BY <1>5, FindIs DEF Find, At
  <2>2. PICK c \in Citable, t \in Tickets \cup {None} :
          mail' = [mail EXCEPT ![w] = Matching(mail[w], Answers(c, mail[w].org), t)]
    BY <1>5, FindIs
  <2> DEFINE q == Matching(mail[w], Answers(c, mail[w].org), t)
  <2>3. /\ q \in Rows /\ q.org = mail[w].org /\ q.loaded = mail[w].loaded
        /\ q.box = mail[w].box
    BY <2>1, MatchTyped, AnswersTickets
  <2> HIDE DEF q
  <2>4. mail' = [mail EXCEPT ![w] = q]
    BY <2>2 DEF q
  <2>5. received' \in 0 .. MaxMails
    BY <1>5 DEF Find, Typed, TypeOK
  <2> QED
    BY <2>1, <2>3, <2>4, <2>5, OneMail DEF Typed, MailHeld
<1>6. ASSUME NEW w \in Workers, Land(w) \/ Ignore(w) PROVE Fine
  BY <1>2, <1>6 DEF Land, Ignore, Drop
<1>7. ASSUME NEW o \in Orgs, NEW s \in Senders, Erase(o, s) PROVE Fine
  <2>1. /\ mail' = [w \in Workers |-> IF InTheWay(w, o, s) THEN None ELSE mail[w]]
        /\ received' = received
    BY <1>7 DEF Erase
  <2>2. \A w \in Workers : mail'[w] = None \/ mail'[w] = mail[w]
    BY <2>1
  <2>3. \A w \in Workers : mail'[w] \in Rows \cup {None}
    BY <2>2 DEF Typed, TypeOK
  <2>4. mail' \in [Workers -> Rows \cup {None}]
    BY <2>1, <2>3
  <2>5. MailHeld'
    BY <2>2 DEF Typed, MailHeld
  <2> QED
    BY <2>1, <2>4, <2>5 DEF Typed, TypeOK
<1>8. ASSUME NEW t \in Tickets, Reply(t) \/ End(t) \/ DeleteTicket(t)
      PROVE  UNCHANGED <<mail, received>>
  BY <1>8 DEF Reply, End, DeleteTicket
<1>9. ASSUME NEW n \in Numbers, MailReply(n) \/ DeleteMessage(n)
      PROVE  UNCHANGED <<mail, received>>
  BY <1>9 DEF MailReply, DeleteMessage
<1>10. ASSUME NEW o \in Orgs, NEW s \in Senders, NEW t \in Tickets, OpenTicket(t, o, s)
       PROVE  UNCHANGED <<mail, received>>
  BY <1>10 DEF OpenTicket
<1>11. ASSUME NEW b \in Boxes, RegenerateAddress(b) PROVE UNCHANGED <<mail, received>>
  BY <1>11 DEF RegenerateAddress, routing
<1>12. ASSUME NEW p \in Procs, Compare(p) \/ Save(p) \/ \E b \in Boxes : Edit(p, b)
       PROVE  UNCHANGED <<mail, received>>
  BY <1>12 DEF Compare, Save, Edit, routing
<1>13. Erased \/ UNCHANGED vars => UNCHANGED <<mail, received>>
  BY DEF Erased, vars, routing
<1> HIDE DEF Fine
<1> QED
  BY <1>1, <1>3, <1>4, <1>5, <1>6, <1>7, <1>8, <1>9, <1>10, <1>11, <1>12, <1>13, Zenon DEF Next

-----------------------------------------------------------------------------

(* The mailbox                                                             *)

(* Every step keeps the types of the mailboxes and of admins' requests.    *)
LEMMA SettingsNext ==
  ASSUME Typed, [Next]_vars
  PROVE  /\ box' \in [Boxes -> BoxRows] /\ locals' \in [Boxes -> Locals]
         /\ pc' \in [Procs -> {"idle", "compare", "save"}]
         /\ job' \in [Procs -> [box : Boxes, row : BoxRows] \cup {None}]
         /\ JobHeld'
<1> USE MailRoutingAssumption
<1> DEFINE Fine == /\ box' \in [Boxes -> BoxRows] /\ locals' \in [Boxes -> Locals]
                   /\ pc' \in [Procs -> {"idle", "compare", "save"}]
                   /\ job' \in [Procs -> [box : Boxes, row : BoxRows] \cup {None}]
                   /\ JobHeld'
<1> SUFFICES Fine
  OBVIOUS
<1>1. ASSUME box' \in [Boxes -> BoxRows], UNCHANGED <<locals, pc, job>> PROVE Fine
  BY <1>1 DEF Typed, TypeOK, JobHeld
<1>2. UNCHANGED settings => Fine
  BY DEF settings, Typed, TypeOK, JobHeld
<1>3. \A r \in BoxRows : Unproven(r) \in BoxRows
  BY DEF Unproven, BoxRows
<1>4. ASSUME NEW w \in Workers, Land(w) PROVE Fine
  <2> DEFINE r == mail[w]
  <2>1. r \in Rows /\ (r.loaded # None => r.box \in Boxes)
    BY <1>4 DEF Land, At, Typed, TypeOK, MailHeld
  <2>2. box' = box \/ (r.loaded # None /\ box' = [box EXCEPT ![r.box].proof = r.loaded])
    <3>1. StampForwarding(r)
      BY <1>4 DEF Land
    <3> QED
      BY <3>1, Zenon DEF StampForwarding
  <2> HIDE DEF r
  <2>3. ASSUME r.loaded # None, box' = [box EXCEPT ![r.box].proof = r.loaded]
        PROVE  box' \in [Boxes -> BoxRows]
    <3>1. r.box \in Boxes /\ r.loaded \in Proofs
      BY <2>1, <2>3 DEF Rows
    <3>2. [box[r.box] EXCEPT !.proof = r.loaded] \in BoxRows
      BY <3>1 DEF Typed, TypeOK, BoxRows
    <3>3. box' = [box EXCEPT ![r.box] = [box[r.box] EXCEPT !.proof = r.loaded]]
      BY <2>3
    <3> QED
      BY <3>1, <3>2, <3>3 DEF Typed, TypeOK
  <2>4. box' \in [Boxes -> BoxRows]
    BY <2>2, <2>3 DEF Typed, TypeOK
  <2> QED
    BY <1>1, <1>4, <2>4 DEF Land
<1>5. ASSUME NEW b \in Boxes, RegenerateAddress(b) PROVE Fine
  <2>1. locals' = [locals EXCEPT ![b] = locals[b] + 1] /\ locals[b] + 1 \in Locals
    BY <1>5 DEF RegenerateAddress, Typed, TypeOK, Locals
  <2>2. locals' \in [Boxes -> Locals] /\ locals'[b] \in Locals
    BY <2>1 DEF Typed, TypeOK
  <2>3. [Unproven(box[b]) EXCEPT !.local = locals'[b]] \in BoxRows
    <3>1. \A r \in BoxRows, l \in Locals : [r EXCEPT !.local = l] \in BoxRows
      BY DEF BoxRows
    <3>2. Unproven(box[b]) \in BoxRows
      BY <1>3 DEF Typed, TypeOK
    <3> QED
      BY <2>2, <3>1, <3>2, Zenon
  <2>4. box' = [box EXCEPT ![b] = [Unproven(box[b]) EXCEPT !.local = locals'[b]]]
    BY <1>5 DEF RegenerateAddress
  <2>5. box' \in [Boxes -> BoxRows]
    BY <2>3, <2>4 DEF Typed, TypeOK
  <2>6. UNCHANGED <<pc, job>>
    BY <1>5 DEF RegenerateAddress, Typed, TypeOK
  <2> QED
    BY <2>2, <2>5, <2>6 DEF Typed, TypeOK, JobHeld
<1>6. ASSUME NEW p \in Procs, NEW b \in Boxes, Edit(p, b) PROVE Fine
  <2>1. PICK row \in BoxRows : job' = [job EXCEPT ![p] = [box |-> b, row |-> row]]
    BY <1>6 DEF Edit, Edited
  <2>2. [box |-> b, row |-> row] \in [box : Boxes, row : BoxRows]
    OBVIOUS
  <2>3. pc' = [pc EXCEPT ![p] = "compare"] /\ UNCHANGED <<box, locals>>
    BY <1>6 DEF Edit, Typed, TypeOK
  <2> QED
    BY <2>1, <2>2, <2>3 DEF Typed, TypeOK, JobHeld
<1>7. ASSUME NEW p \in Procs, Compare(p) PROVE Fine
  <2>1. job[p] \in [box : Boxes, row : BoxRows]
    BY <1>7 DEF Compare, Typed, JobHeld
  <2> DEFINE row == Forgetful(job[p].row, box[job[p].box].public)
  <2>2. row \in BoxRows
    BY <1>3, <2>1 DEF Forgetful
  <2>3. job' = [job EXCEPT ![p] = [job[p] EXCEPT !.row = row]]
    BY <1>7 DEF Compare
  <2> HIDE DEF row
  <2>4. [job[p] EXCEPT !.row = row] \in [box : Boxes, row : BoxRows]
    BY <2>1, <2>2
  <2>5. pc' = [pc EXCEPT ![p] = "save"] /\ UNCHANGED <<box, locals>>
    BY <1>7 DEF Compare
  <2> QED
    BY <2>3, <2>4, <2>5 DEF Typed, TypeOK, JobHeld
<1>8. ASSUME NEW p \in Procs, Save(p) PROVE Fine
  <2>1. job[p] \in [box : Boxes, row : BoxRows]
    BY <1>8 DEF Save, Typed, JobHeld
  <2>2. box' = box \/ box' = [box EXCEPT ![job[p].box] = job[p].row]
    BY <1>8 DEF Save
  <2>3. box' \in [Boxes -> BoxRows]
    BY <2>1, <2>2 DEF Typed, TypeOK
  <2>4. /\ pc' = [pc EXCEPT ![p] = "idle"] /\ job' = [job EXCEPT ![p] = None]
        /\ UNCHANGED locals
    BY <1>8 DEF Save
  <2> QED
    BY <2>3, <2>4 DEF Typed, TypeOK, JobHeld
<1>9. ASSUME NEW w \in Workers,
             (\E m \in Sendable : Arrive(w, m)) \/ Ignore(w) \/ Pass(w) \/ Find(w)
      PROVE  UNCHANGED settings
  BY <1>9 DEF Arrive, Ignore, Pass, Find
<1>10. ASSUME NEW t \in Tickets, Reply(t) \/ End(t) \/ DeleteTicket(t)
       PROVE  UNCHANGED settings
  BY <1>10 DEF Reply, End, DeleteTicket
<1>11. ASSUME NEW n \in Numbers, MailReply(n) \/ DeleteMessage(n) PROVE UNCHANGED settings
  BY <1>11 DEF MailReply, DeleteMessage
<1>12. ASSUME NEW o \in Orgs, NEW s \in Senders,
              Erase(o, s) \/ \E t \in Tickets : OpenTicket(t, o, s)
       PROVE  UNCHANGED settings
  BY <1>12 DEF Erase, OpenTicket
<1>13. Erased \/ UNCHANGED vars => UNCHANGED settings
  BY DEF Erased, vars
<1> HIDE DEF Fine
<1> QED
  BY <1>2, <1>4, <1>5, <1>6, <1>7, <1>8, <1>9, <1>10, <1>11, <1>12, <1>13, Zenon DEF Next

(* The changes made are counted.                                           *)
LEMMA EditsNext == Typed /\ [Next]_vars => edits' \in 0 .. MaxEdits
<1> SUFFICES ASSUME Typed, [Next]_vars PROVE edits' \in 0 .. MaxEdits
  OBVIOUS
<1> USE MailRoutingAssumption
<1>1. UNCHANGED edits \/ Edits => edits' \in 0 .. MaxEdits
  BY DEF Edits, Typed, TypeOK
<1>2. ASSUME NEW w \in Workers,
             (\E m \in Sendable : Arrive(w, m)) \/ Ignore(w) \/ Pass(w) \/ Find(w) \/ Land(w)
      PROVE  UNCHANGED edits
  BY <1>2 DEF Arrive, Ignore, Pass, Find, Land
<1>3. ASSUME NEW t \in Tickets, Reply(t) \/ End(t) \/ DeleteTicket(t)
      PROVE  UNCHANGED edits \/ Edits
  BY <1>3 DEF Reply, End, DeleteTicket
<1>4. ASSUME NEW n \in Numbers, MailReply(n) \/ DeleteMessage(n)
      PROVE  UNCHANGED edits \/ Edits
  BY <1>4 DEF MailReply, DeleteMessage
<1>5. ASSUME NEW o \in Orgs, NEW s \in Senders,
             Erase(o, s) \/ \E t \in Tickets : OpenTicket(t, o, s)
      PROVE  UNCHANGED edits \/ Edits
  BY <1>5 DEF Erase, OpenTicket
<1>6. ASSUME NEW b \in Boxes, RegenerateAddress(b) PROVE Edits
  BY <1>6 DEF RegenerateAddress
<1>7. ASSUME NEW p \in Procs, Compare(p) \/ Save(p) \/ \E b \in Boxes : Edit(p, b)
      PROVE  UNCHANGED edits \/ Edits
  BY <1>7 DEF Compare, Save, Edit
<1>8. Erased \/ UNCHANGED vars => UNCHANGED edits
  BY DEF Erased, vars
<1> QED
  BY <1>1, <1>2, <1>3, <1>4, <1>5, <1>6, <1>7, <1>8, Zenon DEF Next

(* What happened is a fault.                                               *)
LEMMA HappenedNext == Typed /\ [Next]_vars => happened' \in SUBSET Faults
<1> SUFFICES ASSUME Typed, [Next]_vars PROVE happened' \in SUBSET Faults
  OBVIOUS
<1>1. UNCHANGED happened => happened' \in SUBSET Faults
  BY DEF Typed, TypeOK
<1>2. ASSUME NEW w \in Workers, Land(w) PROVE happened' \in SUBSET Faults
  BY <1>2 DEF Land, FaultIf, Typed, TypeOK
<1>3. ASSUME NEW w \in Workers,
             (\E m \in Sendable : Arrive(w, m)) \/ Ignore(w) \/ Pass(w) \/ Find(w)
      PROVE  UNCHANGED happened
  BY <1>3 DEF Arrive, Ignore, Pass, Find
<1>4. ASSUME NEW t \in Tickets, Reply(t) \/ End(t) \/ DeleteTicket(t)
      PROVE  UNCHANGED happened
  BY <1>4 DEF Reply, End, DeleteTicket
<1>5. ASSUME NEW n \in Numbers, MailReply(n) \/ DeleteMessage(n) PROVE UNCHANGED happened
  BY <1>5 DEF MailReply, DeleteMessage
<1>6. ASSUME NEW o \in Orgs, NEW s \in Senders,
             Erase(o, s) \/ \E t \in Tickets : OpenTicket(t, o, s)
      PROVE  UNCHANGED happened
  BY <1>6 DEF Erase, OpenTicket
<1>7. ASSUME NEW b \in Boxes, RegenerateAddress(b) PROVE UNCHANGED happened
  BY <1>7 DEF RegenerateAddress
<1>8. ASSUME NEW p \in Procs, Compare(p) \/ Save(p) \/ \E b \in Boxes : Edit(p, b)
      PROVE  UNCHANGED happened
  BY <1>8 DEF Compare, Save, Edit
<1>9. Erased \/ UNCHANGED vars => UNCHANGED happened
  BY DEF Erased, vars
<1> QED
  BY <1>1, <1>2, <1>3, <1>4, <1>5, <1>6, <1>7, <1>8, <1>9, Zenon DEF Next

(* Every step keeps the types.                                             *)
LEMMA TypedNext == Typed /\ [Next]_vars => Typed'
<1> SUFFICES ASSUME Typed, [Next]_vars PROVE Typed'
  OBVIOUS
<1>1. ticket' \in [Tickets -> TicketRows \cup {None}]
  BY TicketsNext
<1>2. /\ thread' \in [Numbers -> Messages \cup {None}] /\ written' \in 0 .. MaxMessages
      /\ happened' \in SUBSET Faults /\ edits' \in 0 .. MaxEdits
  BY ThreadNext, HappenedNext, EditsNext DEF Threads
<1>3. /\ mail' \in [Workers -> Rows \cup {None}] /\ received' \in 0 .. MaxMails
      /\ MailHeld'
  BY MailNext
<1>4. /\ box' \in [Boxes -> BoxRows] /\ locals' \in [Boxes -> Locals]
      /\ pc' \in [Procs -> {"idle", "compare", "save"}]
      /\ job' \in [Procs -> [box : Boxes, row : BoxRows] \cup {None}]
      /\ JobHeld'
  BY SettingsNext
<1> QED
  BY <1>1, <1>2, <1>3, <1>4, Zenon DEF Typed, TypeOK

(* Every variable keeps its type: a mail in hand, and a request under way, *)
(* go on with what they loaded.                                            *)
THEOREM TypeCorrect == Spec => []TypeOK
<1>1. Typed => TypeOK
  BY DEF Typed
<1> QED
  BY <1>1, InitTyped, TypedNext, PTL DEF Spec

-----------------------------------------------------------------------------

(***************************************************************************)
(* LandsRight                                                              *)
(***************************************************************************)

(* What a mail was found to answer is the ticket found.                    *)
Matched ==
  \A w \in Workers : mail[w] # None /\ mail[w].step = "found" =>
    \A t \in mail[w].answers : t = mail[w].match

RoutingInv == Typed /\ OwnIds /\ Matched

(* There is no mail, and no message, at first.                             *)
LEMMA InitRouting == Init => RoutingInv
<1> SUFFICES ASSUME Init PROVE RoutingInv
  OBVIOUS
<1>1. OwnIds /\ Matched
  BY DEF Init, OwnIds, Matched
<1> QED
  BY <1>1, InitTyped DEF RoutingInv

(* What the code's search finds for an id is what it answers: an agent's   *)
(* message that bears it is the one whose it is, and comes first.          *)
LEMMA NamedIsAnswered ==
  ASSUME Typed, OwnIds, NEW i \in Ids, NEW o
  PROVE  Named(i, o) = Answered(i, o)
<1> DEFINE B == Bearing(i, o)
<1>1. \A n \in B : n \in Numbers /\ n \in Int /\ thread[n] # None /\ thread[n].id = i
  BY DEF Bearing, Posted, Numbers
<1>2. \A n \in B : thread[n].from = "agent" => i = OfReply(n)
  BY <1>1, NoneAssumption DEF OwnIds
<1>3. \A n, k : OfReply(n) = OfReply(k) => n = k
  BY DEF OfReply
<1>4. RepliedTo(i, o) = {thread[n].ticket : n \in {m \in B : i = OfReply(m)
                                                            /\ thread[m].from = "agent"}}
  BY DEF RepliedTo
<1> HIDE DEF B
<1>5. CASE \E m \in B : thread[m].from = "agent"
  <2>1. PICK m \in B : thread[m].from = "agent"
    BY <1>5
  <2>2. \A n \in B : thread[n].from = "agent" => n = m
    BY <1>2, <1>3, <2>1
  <2>3. m \in First(B)
    <3>1. ASSUME NEW k \in B PROVE Precedes(m, k)
      BY <1>1, <2>1, <2>2 DEF Precedes
    <3> QED
      BY <3>1 DEF First
  <2>4. ASSUME NEW n \in First(B) PROVE n = m
    <3>1. n \in B /\ Precedes(n, m)
      BY <2>4 DEF First
    <3> QED
      BY <2>1, <2>2, <3>1 DEF Precedes
  <2>5. First(B) = {m}
    BY <2>3, <2>4
  <2>6. {k \in B : i = OfReply(k) /\ thread[k].from = "agent"} = {m}
    BY <1>2, <2>1, <2>2
  <2>7. RepliedTo(i, o) = {thread[m].ticket} /\ Named(i, o) = {thread[m].ticket}
    BY <1>4, <2>1, <2>5, <2>6 DEF Named, B
  <2> QED
    BY <2>7 DEF Answered
<1>6. CASE ~ \E m \in B : thread[m].from = "agent"
  <2>1. RepliedTo(i, o) = {}
    BY <1>4, <1>6
  <2>2. First(B) = {m \in B : \A k \in B : m <= k}
    BY <1>6 DEF First, Precedes
  <2> QED
    BY <2>1, <2>2 DEF Answered, Named, FirstBearing, B
<1> QED
  BY <1>5, <1>6

(* An id names one ticket at most.                                         *)
LEMMA NamedOnce ==
  ASSUME NEW i, NEW o, NEW t \in Named(i, o), NEW u \in Named(i, o)
  PROVE  t = u
<1>1. CASE Bearing(i, o) # {}
  <2>1. PICK n \in First(Bearing(i, o)) : t = thread[n].ticket
    BY <1>1 DEF Named
  <2>2. PICK k \in First(Bearing(i, o)) : u = thread[k].ticket
    BY <1>1 DEF Named
  <2>3. n \in Int /\ k \in Int /\ Precedes(n, k) /\ Precedes(k, n)
    BY DEF First, Bearing, Numbers
  <2>4. n = k
    BY <2>3 DEF Precedes
  <2> QED
    BY <2>1, <2>2, <2>4
<1>2. CASE Bearing(i, o) = {}
  <2>1. i = OfNotice(t) /\ i = OfNotice(u)
    BY <1>2 DEF Named
  <2> QED
    BY <2>1 DEF OfNotice
<1> QED
  BY <1>1, <1>2

(* What a mail answers is the one ticket that its headers name.            *)
LEMMA AnswersNamed ==
  ASSUME Typed, OwnIds, NEW c \in Citable, NEW o
  PROVE  /\ Answers(c, o) \subseteq ByHeaders(c, o)
         /\ \A t, u \in ByHeaders(c, o) : t = u
<1>1. PICK d \in Nat : c \in [1 .. d -> Known]
  <2>1. PICK d \in 0 .. MaxCited : c \in [1 .. d -> Known]
    BY DEF Citable
  <2> QED
    BY <2>1, MailRoutingAssumption
<1>2. \A k \in DOMAIN c : c[k] \in Ids /\ k \in 1 .. d
  <2>1. Known \subseteq Ids
    BY DEF Known, Ids, OfReply, OfNotice
  <2> QED
    BY <1>1, <2>1
<1>3. \A k \in DOMAIN c : \A l \in 1 .. k - 1 : l \in DOMAIN c
  BY <1>1
<1>4. \A k \in DOMAIN c : Answered(c[k], o) = Named(c[k], o)
  BY <1>2, NamedIsAnswered
<1>5. ASSUME NEW t \in Answers(c, o) PROVE t \in ByHeaders(c, o)
  <2>1. PICK k \in DOMAIN c : /\ t \in Answered(c[k], o)
                              /\ \A l \in 1 .. k - 1 : Answered(c[l], o) = {}
    BY <1>5 DEF Answers
  <2>2. t \in Named(c[k], o) /\ \A l \in 1 .. k - 1 : Named(c[l], o) = {}
    BY <1>3, <1>4, <2>1
  <2> QED
    BY <2>2 DEF ByHeaders
<1>6. ASSUME NEW t \in ByHeaders(c, o), NEW u \in ByHeaders(c, o) PROVE t = u
  <2>1. PICK j \in DOMAIN c : t \in Named(c[j], o) /\ \A l \in 1 .. j - 1 : Named(c[l], o) = {}
    BY DEF ByHeaders
  <2>2. PICK k \in DOMAIN c : u \in Named(c[k], o) /\ \A l \in 1 .. k - 1 : Named(c[l], o) = {}
    BY DEF ByHeaders
  <2>3. j = k
    <3>1. j \in 1 .. d /\ k \in 1 .. d
      BY <1>2
    <3>2. ~(j \in 1 .. k - 1) /\ ~(k \in 1 .. j - 1)
      BY <2>1, <2>2
    <3> QED
      BY <1>1, <3>1, <3>2
  <2> QED
    BY <2>1, <2>2, <2>3, NamedOnce
<1> QED
  BY <1>5, <1>6

(* A mail in hand goes on by the steps of its own worker, and lands by one.*)
LEMMA InHand ==
  ASSUME Typed, [Next]_vars, NEW w \in Workers
  PROVE  \/ mail'[w] = None \/ mail'[w] = mail[w]
         \/ mail'[w] \in Rows /\ mail'[w].step # "found"
         \/ Find(w)
<1>1. \A v \in Workers : \A q : mail' = [mail EXCEPT ![v] = q] =>
        mail'[w] = IF v = w THEN q ELSE mail[w]
  BY DEF Typed, TypeOK
<1>2. ASSUME NEW v \in Workers, NEW m \in Sendable, Arrive(v, m)
      PROVE  mail'[w] = mail[w] \/ (mail'[w] \in Rows /\ mail'[w].step # "found")
  <2>1. PICK b \in Boxes \cup {None} : mail' = [mail EXCEPT ![v] = Row(m, b)]
    BY <1>2, ArriveIs
  <2>2. Row(m, b) \in Rows /\ Row(m, b).step = "stored"
    BY <1>2, ArriveIs, RowsTyped
  <2> QED
    BY <1>1, <2>1, <2>2
<1>3. ASSUME NEW v \in Workers, Pass(v)
      PROVE  mail'[w] = mail[w] \/ (mail'[w] \in Rows /\ mail'[w].step # "found")
  <2>1. PICK o \in Orgs : mail' = [mail EXCEPT ![v] = Triaged(mail[v], o, Forwarded(mail[v]))]
    BY <1>3, PassIs
  <2> DEFINE q == Triaged(mail[v], o, Forwarded(mail[v]))
  <2>2. q \in Rows /\ q.step = "triaged"
    BY <1>3, PassIs, RowsTyped
  <2> HIDE DEF q
  <2>3. mail' = [mail EXCEPT ![v] = q]
    BY <2>1 DEF q
  <2> QED
    BY <1>1, <2>2, <2>3
<1>4. ASSUME NEW v \in Workers, Find(v) PROVE v = w \/ mail'[w] = mail[w]
  BY <1>1, <1>4, FindIs
<1>5. ASSUME NEW v \in Workers, Land(v) \/ Ignore(v)
      PROVE  mail'[w] = None \/ mail'[w] = mail[w]
  BY <1>1, <1>5 DEF Land, Ignore, Drop
<1>6. ASSUME NEW t \in Tickets, Reply(t) \/ End(t) \/ DeleteTicket(t) PROVE mail' = mail
  BY <1>6 DEF Reply, End, DeleteTicket
<1>7. ASSUME NEW n \in Numbers, MailReply(n) \/ DeleteMessage(n) PROVE mail' = mail
  BY <1>7 DEF MailReply, DeleteMessage
<1>8. ASSUME NEW o \in Orgs, NEW s \in Senders,
             Erase(o, s) \/ \E t \in Tickets : OpenTicket(t, o, s)
      PROVE  mail'[w] = None \/ mail'[w] = mail[w]
  BY <1>8 DEF Erase, OpenTicket
<1>9. ASSUME NEW b \in Boxes, RegenerateAddress(b) PROVE mail' = mail
  BY <1>9 DEF RegenerateAddress, routing
<1>10. ASSUME NEW p \in Procs, Compare(p) \/ Save(p) \/ \E b \in Boxes : Edit(p, b)
       PROVE  mail' = mail
  BY <1>10 DEF Compare, Save, Edit, routing
<1>11. Erased \/ UNCHANGED vars => mail' = mail
  BY DEF Erased, vars, routing
<1> QED
  BY <1>2, <1>3, <1>4, <1>5, <1>6, <1>7, <1>8, <1>9, <1>10, <1>11, Zenon DEF Next

(* The ticket found is what the mail answers, since it was found.          *)
LEMMA MatchedNext == Typed /\ OwnIds /\ Matched /\ [Next]_vars => Matched'
<1> SUFFICES ASSUME Typed, OwnIds, Matched, [Next]_vars, NEW w \in Workers,
                    mail'[w] # None, mail'[w].step = "found", NEW t \in mail'[w].answers
             PROVE  t = mail'[w].match
  BY DEF Matched
<1>1. CASE mail'[w] = mail[w]
  BY <1>1 DEF Matched
<1>2. CASE Find(w)
  <2>1. PICK c \in Citable, u \in Tickets \cup {None} :
          /\ mail' = [mail EXCEPT ![w] = Matching(mail[w], Answers(c, mail[w].org), u)]
          /\ ByHeaders(c, mail[w].org) # {} => u \in ByHeaders(c, mail[w].org)
    BY <1>2, FindIs
  <2>2. mail[w] \in Rows /\ Answers(c, mail[w].org) \in SUBSET Tickets
    BY <1>2, FindIs, AnswersTickets
  <2>3. mail'[w].answers = Answers(c, mail[w].org) /\ mail'[w].match = u
    <3>1. mail'[w] = Matching(mail[w], Answers(c, mail[w].org), u)
      BY <2>1 DEF Typed, TypeOK
    <3> QED
      BY <2>2, <3>1, MatchTyped
  <2>4. t \in ByHeaders(c, mail[w].org)
    BY <2>3, AnswersNamed
  <2> QED
    BY <2>1, <2>3, <2>4, AnswersNamed
<1> QED
  BY <1>1, <1>2, InHand

(* A mail that lands is on a ticket of its organization, the one found if  *)
(* it takes mails.                                                         *)
LEMMA LandsOn ==
  ASSUME Typed, NEW w \in Workers, Land(w)
  PROVE  \E u \in Tickets :
           /\ thread'[written'].ticket = u
           /\ ticket'[u].org = mail[w].org
           /\ ticket'[u].life \in {"live", "erasing"}
           /\ ticket'[u].life = "erasing" => "erasing" \in happened'
           /\ mail[w].match \in Tickets /\ Continuable(mail[w].match, mail[w].org)
                /\ ticket[mail[w].match].life = "live" => u = mail[w].match
<1> DEFINE r == mail[w]
<1>1. /\ r.org \in Orgs /\ r.box \in Boxes \cup {None}
      /\ r.mail.sender \in Senders /\ r.mail.id \in Ids
  BY LandIs DEF Rows, Mails
<1>2. \A u \in Tickets : MessageOf(u, r) \in Messages /\ MessageOf(u, r).ticket = u
  BY <1>1 DEF MessageOf, Messages
<1>3. \A u \in Tickets : Post(MessageOf(u, r)) => thread'[written'].ticket = u
  BY <1>2, Posting
<1>4. CASE /\ r.match \in Tickets /\ Continuable(r.match, r.org)
           /\ ticket[r.match].life # "old" /\ ticket' = ticket
           /\ Post(MessageOf(r.match, r))
           /\ ticket[r.match].life = "erasing" => "erasing" \in happened'
  <2>1. ticket[r.match] \in TicketRows
    BY <1>4 DEF Continuable, Exists, Typed, TypeOK
  <2>2. ticket[r.match].life \in {"live", "erasing"}
    BY <1>4, <2>1 DEF Continuable, Exists, TicketRows
  <2>3. thread'[written'].ticket = r.match
    BY <1>3, <1>4
  <2> QED
    BY <1>4, <2>2, <2>3 DEF Continuable
<1>5. ASSUME NEW u \in NewTickets,
             ticket' = [ticket EXCEPT ![u] = NewRow(r.org, r.box, r.mail.sender)],
             Post(MessageOf(u, r)),
             r.match \in Tickets /\ Continuable(r.match, r.org) => ticket[r.match].life = "old"
      PROVE  /\ u \in Tickets /\ thread'[written'].ticket = u
             /\ ticket'[u].org = r.org
             /\ ticket'[u].life \in {"live", "erasing"}
             /\ ticket'[u].life = "erasing" => "erasing" \in happened'
             /\ r.match \in Tickets /\ Continuable(r.match, r.org)
                  /\ ticket[r.match].life = "live" => u = r.match
  <2>1. u \in Tickets /\ thread'[written'].ticket = u
    BY <1>3, <1>5 DEF NewTickets
  <2>2. ticket'[u] = NewRow(r.org, r.box, r.mail.sender)
    BY <1>5, <2>1 DEF Typed, TypeOK
  <2>3. ticket'[u].life = "live" /\ ticket'[u].org = r.org
    BY <2>2 DEF NewRow
  <2> QED
    BY <1>5, <2>1, <2>3
<1> QED
  BY <1>4, <1>5, LandIs, Zenon

(* Only a mail that lands is in hand no more as a message is posted.       *)
LEMMA OnlyLands ==
  ASSUME Typed, [Next]_vars, NEW w \in Workers, Lands(w)
  PROVE  Land(w)
<1>1. ASSUME NEW v \in Workers, Land(v) PROVE v = w
  BY <1>1, LandIs DEF Lands, Typed, TypeOK
<1>2. ASSUME NEW v \in Workers,
             (\E m \in Sendable : Arrive(v, m)) \/ Ignore(v) \/ Pass(v) \/ Find(v)
      PROVE  written' = written
  BY <1>2 DEF Arrive, Ignore, Pass, Find
<1>3. ASSUME NEW t \in Tickets, Reply(t) \/ End(t) \/ DeleteTicket(t)
      PROVE  mail' = mail \/ written' = written
  BY <1>3 DEF Reply, End, DeleteTicket
<1>4. ASSUME NEW n \in Numbers, MailReply(n) \/ DeleteMessage(n) PROVE written' = written
  BY <1>4 DEF MailReply, DeleteMessage
<1>5. ASSUME NEW o \in Orgs, NEW s \in Senders,
             Erase(o, s) \/ \E t \in Tickets : OpenTicket(t, o, s)
      PROVE  written' = written
  BY <1>5 DEF Erase, OpenTicket
<1>6. ASSUME NEW b \in Boxes, RegenerateAddress(b) PROVE written' = written
  BY <1>6 DEF RegenerateAddress, routing
<1>7. ASSUME NEW p \in Procs, Compare(p) \/ Save(p) \/ \E b \in Boxes : Edit(p, b)
      PROVE  written' = written
  BY <1>7 DEF Compare, Save, Edit, routing
<1>8. Erased \/ UNCHANGED vars => written' = written
  BY DEF Erased, vars, routing
<1>9. written' # written /\ mail' # mail
  BY DEF Lands
<1> QED
  BY <1>1, <1>2, <1>3, <1>4, <1>5, <1>6, <1>7, <1>8, <1>9, Zenon DEF Next

(* What a step that lands a mail does of it.                               *)
LandsRightStep ==
  \A w \in Workers : Lands(w) =>
    LET t == thread'[written'].ticket IN
    /\ ticket'[t].org = mail[w].org
    /\ Without({"erasing"})' => ticket'[t].life = "live"
    /\ \A u \in mail[w].answers :
         Exists(u) /\ ticket[u].org = mail[w].org /\ ticket[u].life = "live" => t = u

(* A mail that lands is put where it should be.                            *)
LEMMA LandsRightNext == RoutingInv /\ [Next]_vars => LandsRightStep
<1> SUFFICES ASSUME RoutingInv, [Next]_vars, NEW w \in Workers, Lands(w)
             PROVE  LET t == thread'[written'].ticket IN
                    /\ ticket'[t].org = mail[w].org
                    /\ Without({"erasing"})' => ticket'[t].life = "live"
                    /\ \A u \in mail[w].answers :
                         Exists(u) /\ ticket[u].org = mail[w].org /\ ticket[u].life = "live"
                         => t = u
  BY Zenon DEF LandsRightStep
<1>1. Typed /\ Matched /\ Land(w)
  BY OnlyLands DEF RoutingInv
<1>2. PICK t \in Tickets :
        /\ thread'[written'].ticket = t
        /\ ticket'[t].org = mail[w].org
        /\ ticket'[t].life \in {"live", "erasing"}
        /\ ticket'[t].life = "erasing" => "erasing" \in happened'
        /\ mail[w].match \in Tickets /\ Continuable(mail[w].match, mail[w].org)
             /\ ticket[mail[w].match].life = "live" => t = mail[w].match
  BY <1>1, LandsOn
<1>3. Without({"erasing"})' => ticket'[t].life = "live"
  BY <1>2 DEF Without
<1>4. mail[w] \in Rows /\ mail[w].step = "found" /\ mail[w] # None
  BY <1>1, LandIs DEF Lands
<1>5. ASSUME NEW u \in mail[w].answers,
             Exists(u), ticket[u].org = mail[w].org, ticket[u].life = "live"
      PROVE  t = u
  <2>1. u = mail[w].match /\ u \in Tickets
    BY <1>1, <1>4 DEF Matched, Rows
  <2> QED
    BY <1>2, <1>5, <2>1 DEF Continuable
<1> QED
  BY <1>2, <1>3, <1>5

(* A mail lands where it was delivered, and on the ticket it answers: one  *)
(* of its organization, whatever it cites, that was not erased since it    *)
(* was found, though its ticket is looked up again under the lock of that  *)
(* ticket alone. The ticket found is the one answered because no agent's   *)
(* message bears an id but its own, and the search puts that first.        *)
THEOREM LandsRightCorrect == Spec => LandsRight
<1>1. RoutingInv /\ [Next]_vars => RoutingInv'
  BY TypedNext, ThreadNext, MatchedNext DEF RoutingInv
<1> QED
  BY <1>1, InitRouting, LandsRightNext, PTL DEF Spec, LandsRight, LandsRightStep

-----------------------------------------------------------------------------

(***************************************************************************)
(* ProofOfOneAddress                                                       *)
(***************************************************************************)

(* An admin's request, alone.                                              *)
OneRequest == \A p, q \in Procs : p = q

(* The proof is of the addresses a, l, and allows the choice of replies.   *)
ProofOf(row, a, l) ==
  /\ row.proof \in {None, <<a, l>>}
  /\ row.replyTo => row.proof # None

Sound(row) == ProofOf(row, row.public, row.local)

(* Before it was compared, the row in hand has the proof of the stored     *)
(* public address.                                                         *)
InHandSound ==
  \A p \in Procs :
    /\ pc[p] = "compare" => ProofOf(job[p].row, box[job[p].box].public, job[p].row.local)
    /\ pc[p] = "save" => Sound(job[p].row)

SettingsInv == Typed /\ (\A b \in Boxes : Sound(box[b])) /\ InHandSound

(* There are no proofs at first.                                           *)
LEMMA InitSettings == Init => SettingsInv
<1> SUFFICES ASSUME Init PROVE SettingsInv
  OBVIOUS
<1>1. ASSUME NEW b \in Boxes PROVE Sound(box[b])
  <2>1. box[b] \in [public : Publics \cup {None}, local : {1}, proof : {None},
                    replyTo : {FALSE}]
    BY DEF Init
  <2>2. box[b].proof = None /\ box[b].replyTo = FALSE
    BY <2>1
  <2> QED
    BY <2>2 DEF Sound, ProofOf
<1>2. InHandSound
  BY DEF Init, InHandSound
<1> QED
  BY <1>1, <1>2, InitTyped, Zenon DEF SettingsInv

(* Forgetting the proof leaves none to be wrong.                           *)
LEMMA UnprovenIs ==
  ASSUME NEW row \in BoxRows
  PROVE  /\ Unproven(row) \in BoxRows /\ Unproven(row).proof = None
         /\ Unproven(row).replyTo = FALSE
  BY DEF Unproven, BoxRows

(* The requests under way are the same, and the public addresses they      *)
(* compare with.                                                           *)
LEMMA SameRequests ==
  ASSUME Typed, InHandSound, UNCHANGED <<pc, job>>,
         \A b \in Boxes : box'[b].public = box[b].public
  PROVE  InHandSound'
<1>1. ASSUME NEW p \in Procs, pc[p] = "compare"
      PROVE  ProofOf(job[p].row, box'[job[p].box].public, job[p].row.local)
  <2>1. job[p].box \in Boxes
    BY <1>1 DEF Typed, JobHeld
  <2>2. ProofOf(job[p].row, box[job[p].box].public, job[p].row.local)
    BY <1>1, Zenon DEF InHandSound
  <2> QED
    BY <2>1, <2>2
<1>2. ASSUME NEW p \in Procs, pc[p] = "save" PROVE Sound(job[p].row)
  BY <1>2, Zenon DEF InHandSound
<1> QED
  BY <1>1, <1>2, Zenon DEF InHandSound

(* A mail proves the forwarding it came by while both addresses are still  *)
(* the mailbox's.                                                          *)
LEMMA LandSound ==
  ASSUME SettingsInv, NEW w \in Workers, Land(w)
  PROVE  (\A b \in Boxes : Sound(box[b])') /\ InHandSound'
<1> DEFINE r == mail[w]
<1>1. Typed /\ InHandSound /\ UNCHANGED <<pc, job>>
  BY DEF SettingsInv, Land
<1>2. CASE box' = box
  BY <1>1, <1>2, SameRequests DEF SettingsInv
<1>3. CASE box' # box
  <2>1. /\ r.loaded # None /\ Unchanged(r) /\ r # None
        /\ box' = [box EXCEPT ![r.box].proof = r.loaded]
    <3>1. StampForwarding(r) /\ r # None
      BY DEF Land, At
    <3> QED
      BY <1>3, <3>1, Zenon DEF StampForwarding
  <2>2. r.box \in Boxes /\ r.loaded \in Proofs
    BY <1>1, <2>1 DEF Typed, TypeOK, MailHeld, Rows
  <2> HIDE DEF r
  <2>3. \A row \in BoxRows : LET q == [row EXCEPT !.proof = r.loaded] IN
          q.proof = r.loaded /\ q.public = row.public /\ q.local = row.local
    BY <2>2 DEF BoxRows
  <2>4. \A b \in Boxes : box[b] \in BoxRows
    BY <1>1 DEF Typed, TypeOK
  <2>5. \A b \in Boxes : box'[b] = IF b = r.box THEN [box[b] EXCEPT !.proof = r.loaded]
                                  ELSE box[b]
    BY <1>1, <2>1 DEF Typed, TypeOK
  <2>6. \A b \in Boxes : box'[b].public = box[b].public
    BY <2>3, <2>4, <2>5
  <2>7. ASSUME NEW b \in Boxes PROVE Sound(box[b])'
    <3>1. CASE b = r.box
      <4>1. r.loaded = <<box[b].public, box[b].local>>
        BY <2>1, <3>1 DEF Unchanged
      <4>2. /\ box'[b].proof = r.loaded /\ box'[b].public = box[b].public
            /\ box'[b].local = box[b].local
        <5>1. box'[b] = [box[b] EXCEPT !.proof = r.loaded] /\ box[b] \in BoxRows
          BY <2>4, <2>5, <3>1
        <5> QED
          BY <2>3, <5>1
      <4> QED
        BY <2>1, <4>1, <4>2, Zenon DEF Sound, ProofOf
    <3>2. CASE b # r.box
      BY <2>5, <3>2, Zenon DEF SettingsInv, Sound, ProofOf
    <3> QED
      BY <3>1, <3>2
  <2> QED
    BY <1>1, <2>6, <2>7, SameRequests
<1> QED
  BY <1>2, <1>3

(* A new inbound address is unproven.                                      *)
LEMMA RegenerateSound ==
  ASSUME SettingsInv, NEW b \in Boxes, RegenerateAddress(b)
  PROVE  (\A c \in Boxes : Sound(box[c])') /\ InHandSound'
<1>1. Typed /\ InHandSound /\ UNCHANGED <<pc, job>> /\ box[b] \in BoxRows
  BY DEF SettingsInv, RegenerateAddress, Typed, TypeOK
<1>2. locals'[b] \in Locals
  BY SettingsNext, <1>1 DEF Next
<1> DEFINE row == [Unproven(box[b]) EXCEPT !.local = locals'[b]]
<1>3. row.public = box[b].public /\ row.proof = None /\ row.replyTo = FALSE
  BY <1>1 DEF Unproven, BoxRows
<1>4. \A c \in Boxes : box'[c] = IF c = b THEN row ELSE box[c]
  BY <1>1 DEF RegenerateAddress, Typed, TypeOK
<1> HIDE DEF row
<1>5. \A c \in Boxes : box'[c].public = box[c].public
  BY <1>3, <1>4
<1>6. ASSUME NEW c \in Boxes PROVE Sound(box[c])'
  <2>1. CASE c = b
    <3>1. box'[c].proof = None /\ box'[c].replyTo = FALSE
      BY <1>3, <1>4, <2>1
    <3> QED
      BY <3>1 DEF Sound, ProofOf
  <2>2. CASE c # b
    BY <1>4, <2>2, Zenon DEF SettingsInv, Sound, ProofOf
  <2> QED
    BY <2>1, <2>2
<1> QED
  BY <1>1, <1>5, <1>6, SameRequests

(* A request loads the row with its proof, and may choose replies by it.   *)
LEMMA EditSound ==
  ASSUME OneRequest, SettingsInv, NEW p \in Procs, NEW b \in Boxes, Edit(p, b)
  PROVE  (\A c \in Boxes : Sound(box[c])') /\ InHandSound'
<1>1. PICK row \in Edited(b) : job' = [job EXCEPT ![p] = [box |-> b, row |-> row]]
  BY DEF Edit
<1>2. box' = box /\ pc' = [pc EXCEPT ![p] = "compare"]
  BY DEF Edit
<1>3. pc'[p] = "compare" /\ job'[p].box = b /\ job'[p].row = row
  BY <1>1, <1>2 DEF SettingsInv, Typed, TypeOK
<1>4. ProofOf(row, box[b].public, row.local)
  <2>1. Sound(box[b])
    BY DEF SettingsInv
  <2>2. row.local = box[b].local /\ row.proof = box[b].proof
    BY DEF Edited, KeepsReadOnly
  <2>3. row.proof \in {None, <<box[b].public, row.local>>}
    BY <2>1, <2>2 DEF Sound, ProofOf
  <2>4. row.replyTo => box[b].replyTo \/ row.proof # None
    BY Zenon DEF Edited, MayReplyTo
  <2>5. row.replyTo => row.proof # None
    BY <2>1, <2>2, <2>4, Zenon DEF Sound, ProofOf
  <2> QED
    BY <2>3, <2>5, Zenon DEF ProofOf
<1>5. \A q \in Procs : q = p
  BY DEF OneRequest
<1>6. InHandSound'
  BY <1>2, <1>3, <1>4, <1>5 DEF InHandSound
<1> QED
  BY <1>2, <1>6 DEF SettingsInv

(* It forgets the proof unless the public address is the stored one.       *)
LEMMA CompareSound ==
  ASSUME OneRequest, SettingsInv, NEW p \in Procs, Compare(p)
  PROVE  (\A c \in Boxes : Sound(box[c])') /\ InHandSound'
<1>1. /\ job[p] \in [box : Boxes, row : BoxRows]
      /\ ProofOf(job[p].row, box[job[p].box].public, job[p].row.local)
  BY DEF Compare, SettingsInv, Typed, JobHeld, InHandSound
<1> DEFINE row == Forgetful(job[p].row, box[job[p].box].public)
<1>2. Sound(row)
  <2>1. CASE job[p].row.public = box[job[p].box].public
    BY <1>1, <2>1, Zenon DEF Forgetful, Sound
  <2>2. CASE job[p].row.public # box[job[p].box].public
    <3>1. row = Unproven(job[p].row) /\ job[p].row \in BoxRows
      BY <1>1, <2>2 DEF Forgetful
    <3>2. row.proof = None /\ row.replyTo = FALSE
      BY <3>1, UnprovenIs
    <3> QED
      BY <3>2 DEF Sound, ProofOf
  <2> QED
    BY <2>1, <2>2
<1>3. /\ job' = [job EXCEPT ![p].row = row] /\ pc' = [pc EXCEPT ![p] = "save"]
      /\ box' = box
  BY DEF Compare
<1> HIDE DEF row
<1>4. pc'[p] = "save" /\ job'[p].row = row
  BY <1>1, <1>3 DEF SettingsInv, Typed, TypeOK
<1>5. \A q \in Procs : q = p
  BY DEF OneRequest
<1>6. InHandSound'
  BY <1>2, <1>4, <1>5 DEF InHandSound
<1> QED
  BY <1>3, <1>6 DEF SettingsInv

(* It writes a row whose proof is of the addresses it writes.              *)
LEMMA SaveSound ==
  ASSUME OneRequest, SettingsInv, NEW p \in Procs, Save(p)
  PROVE  (\A c \in Boxes : Sound(box[c])') /\ InHandSound'
<1>1. job[p].box \in Boxes /\ Sound(job[p].row)
  BY DEF Save, SettingsInv, Typed, JobHeld, InHandSound
<1>2. box' = box \/ box' = [box EXCEPT ![job[p].box] = job[p].row]
  BY DEF Save
<1>3. \A c \in Boxes : box'[c] = box[c] \/ box'[c] = job[p].row
  BY <1>1, <1>2 DEF SettingsInv, Typed, TypeOK
<1>4. \A c \in Boxes : Sound(box'[c])
  BY <1>1, <1>3 DEF SettingsInv
<1>5. pc'[p] = "idle" /\ \A q \in Procs : q = p
  BY DEF Save, SettingsInv, Typed, TypeOK, OneRequest
<1>6. InHandSound'
  BY <1>5 DEF InHandSound
<1> QED
  BY <1>4, <1>6 DEF Sound

(* Every step keeps the proofs of present addresses.                       *)
LEMMA SettingsInvNext == OneRequest /\ SettingsInv /\ [Next]_vars => SettingsInv'
<1> SUFFICES ASSUME OneRequest, SettingsInv, [Next]_vars PROVE SettingsInv'
  OBVIOUS
<1> DEFINE Fine == (\A b \in Boxes : Sound(box[b])') /\ InHandSound'
<1>1. UNCHANGED settings => Fine
  BY SameRequests DEF settings, SettingsInv
<1>2. ASSUME NEW w \in Workers, Land(w) PROVE Fine
  BY <1>2, LandSound
<1>3. ASSUME NEW b \in Boxes, RegenerateAddress(b) PROVE Fine
  BY <1>3, RegenerateSound
<1>4. ASSUME NEW p \in Procs, Compare(p) \/ Save(p) \/ \E b \in Boxes : Edit(p, b)
      PROVE  Fine
  BY <1>4, EditSound, CompareSound, SaveSound
<1>5. ASSUME NEW w \in Workers,
             (\E m \in Sendable : Arrive(w, m)) \/ Ignore(w) \/ Pass(w) \/ Find(w)
      PROVE  UNCHANGED settings
  BY <1>5 DEF Arrive, Ignore, Pass, Find
<1>6. ASSUME NEW t \in Tickets, Reply(t) \/ End(t) \/ DeleteTicket(t)
      PROVE  UNCHANGED settings
  BY <1>6 DEF Reply, End, DeleteTicket
<1>7. ASSUME NEW n \in Numbers, MailReply(n) \/ DeleteMessage(n) PROVE UNCHANGED settings
  BY <1>7 DEF MailReply, DeleteMessage
<1>8. ASSUME NEW o \in Orgs, NEW s \in Senders,
             Erase(o, s) \/ \E t \in Tickets : OpenTicket(t, o, s)
      PROVE  UNCHANGED settings
  BY <1>8 DEF Erase, OpenTicket
<1>9. Erased \/ UNCHANGED vars => UNCHANGED settings
  BY DEF Erased, vars
<1>10. Fine
  <2> HIDE DEF Fine
  <2> QED
    BY <1>1, <1>2, <1>3, <1>4, <1>5, <1>6, <1>7, <1>8, <1>9, Zenon DEF Next
<1>11. Typed'
  BY TypedNext DEF SettingsInv
<1> QED
  BY <1>10, <1>11, Zenon DEF SettingsInv

(* A mailbox's proof of forwarding is of its present addresses, and allows *)
(* its choice of replies, with any mails landing, and addresses renewed,   *)
(* while a request has the row in hand; for one request at a time. The     *)
(* mailbox_proof run shows two that break it.                              *)
THEOREM ProofOfOneAddressCorrect ==
  ASSUME OneRequest
  PROVE  Spec => []ProofOfOneAddress
<1>1. SettingsInv => ProofOfOneAddress
  BY Zenon DEF SettingsInv, Sound, ProofOf, ProofOfOneAddress
<1>2. SettingsInv /\ [Next]_vars => SettingsInv'
  BY SettingsInvNext
<1> QED
  BY <1>1, <1>2, InitSettings, PTL DEF Spec

=============================================================================
