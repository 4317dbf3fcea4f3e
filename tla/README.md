# Showdesk: a verification project

TLA+ models of Showdesk's server (`backend/`), checked with TLC on small
instances and proved with TLAPS for all: the inbound mail log and its routing,
the replies' mail, tickets, contacts, uploads, sending domains and accounts.
Paths below are relative to `backend/apps/` unless they say otherwise; a line is
written `file.py:12`.

Showdesk is a support desk: visitors open tickets in a widget or by mail, agents
answer them in a web application, answers go back to the widget or by mail. The
server is a Django application run by several web processes, several Celery
workers and one beat; they share a PostgreSQL database, a Redis that is both
cache and broker, a file storage, and mail providers. Nothing but the database
is transactional, and any of the others may fail between two of its
transactions: that is where the models look. Most requests besides load a row,
do something slow, and write it; the models keep what was loaded apart from what
is stored.

## 1. Inventory

| Component | State it keeps | Operations | What is hard | What makes it correct | Modelled |
|---|---|---|---|---|---|
| **Inbound mail log and pipeline** `email_channel/{inbound,pipeline,tasks,signals,webhooks}.py` | `InboundEmail` rows (status, Message-ID, mailbox), raw files, messages, attachment files, Celery tasks | store, queue, process (triage, files, write, announce), retry, sweep, replay, purge, delete | two transactions with nothing held in between; runs of one row overlap; broker, worker, storage and commit fail; the provider delivers again | a mail lands once, with its files; waiting mails keep their content; a pending mail moves on | `InboundMail`, `MailLedger` |
| **Triage, matching, content** `recipients.py filters.py thread_matching.py content.py tokens.py` | none, but tickets' status on reopening and a mailbox's proof of forwarding | resolve, classify, match, lock, open, stamp | tests made in another transaction than the writes they protect | a mail lands in its organization, on the ticket it answers or a new one; a duplicate never lands | `MailRouting`, `Tickets` |
| **Reply mail** `email_channel/outbound.py`, `tickets/tasks.py` | `email_delivery_status`, the reader's mark, a lock in the cache, tasks with their counts | queue now or later, stand down, lock, build, send, mark, retry, give up, bounce | tasks in any order; a lock that expires; mail sent but not recorded | no reply mailed twice, none forgotten | `ReplyMail` |
| **Sending domains** `email_channel/sending/` | `OrganizationDomain.sending_*`, `SendingRemoval`, a lock in the cache, registrations at a provider | enable, check, disable, remove, sweep, change of provider | slow provider calls under an expiring lock; answers out of order; crash between provider and database | no registration nobody knows of; none removed while in use; sending needs a proof of the row's own | `SendingDomains` |
| **Domain ownership** `organizations/{services,dns_verification,tasks}.py` | domain rows, tokens, their status | claim, check DNS, verify, transfer, delete | a check's answer arrives after the token or the owner changed | one owner; a TXT left published wins nothing back; the former owner keeps nothing | `SendingDomains` |
| **Tickets** `tickets/{views,models,serializers}.py` | tickets, messages, attachments, a counter per organization | create, reply, assign, resolve, close, reopen, bulk update, delete | saves of a ticket read earlier; the counter read after its increment | references held by a transaction are nobody else's; a message reopens a ticket in time, or goes elsewhere | `Tickets`, `Contacts`, `ReplyMail`, `Uploads` |
| **Widget sessions, conversation pages** `tickets/views.py`, `access.py`, `conversation_views.py` | sessions, their tickets, mailed links, reading marks | start, identify, prove an address, move a conversation, write, read | an anonymous session writes while its conversation moves | every message in one conversation; a history opens on a real proof | `Contacts`, `ReplyMail` |
| **Contacts** `contacts/services.py`, `backfill.py` | contacts: external id, address, verified or declared | identify, absorb, verify, declare, edit, delete, backfill | a proof is checked while its session or contact changes; two row locks | proofs stay with the address proved; nothing lost in an absorption | `Contacts` |
| **GDPR** `contacts/gdpr.py` | the same, files, inbound rows | export, erase | requests, mails and uploads under way while their sender is erased | nothing personal comes back | `Contacts`, `Uploads`, `MailRouting`, `InboundMail` |
| **Organizations, signup, codes** `organizations/{models,views,signup_views,auth_views}.py`, `core/{setup_views,admin_auth}.py` | users, roles, join requests, `OTPCode` | set up, sign up, found, join, approve, invite, promote, demote, deactivate, delete, log in | codes generated and tried at once; admins who remove each other | guesses bounded; a code lets in once; an admin is left; nobody changes organization | `Accounts` |
| **Mailboxes and forwarding** `email_channel/{views,serializers,models}.py` | addresses, a proof of forwarding, the choice it allows | edit, new inbound address, delete | a row saved whole as it was loaded, or while its domain changes hands | a proof is of the present addresses | `MailRouting`, `SendingDomains` |
| **Uploads and videos** `tickets/views.py`, `videos/tasks.py`, `contacts/gdpr.py` | attachments, recordings, objects in the storage, tasks | upload, link, rename, delete, process, expire, purge, erase | rows are transactional, objects are not | a reply keeps its files; an erased contact's go; no recording is forgotten | `Uploads` |
| **Notifications, presence** `notifications/`, `email_channel/presence.py` | channel groups, a cache key per session | send, connect, disconnect | best effort: a missed event is fetched later | presence only chooses between two delays | no: both delays allowed in `ReplyMail` |
| **Knowledge base**, **application** `frontend/`, **widget** `widget/`, **deployment** | articles; interfaces; scripts | | one-row writes, or no server state | | no |

How they meet: a webhook calls `inbound.store`, which queues
`process_inbound_email` once committed; the pipeline calls recipients, filters,
matching and contacts, writes a ticket message, and announces it from
`on_commit`. An agent's reply is committed by the tickets API, which then queues
one of two reply tasks; `outbound` decides which and what it carries. Bounces
come back as inbound mail and mark a reply failed. Whose a ticket is, and who
sees it, is decided by contacts and sessions; a domain's verification decides
which mailboxes and which sending an organization keeps. Beat runs the sweeps,
the purges, the expiry of recordings and the checks of domains. Erasure and the
deletion of mailboxes or organizations delete rows under everybody's feet.

`PROJECT.json` lists the hazards, each at its line, with the properties that
would show it, or the reason none does.

## 2. Modules

```
MailLedger          what a log of mails promises
   ^ refined by
InboundMail         webhook, pipeline, tasks               InboundMail_proofs
MailRouting         recipients, matching, landing,         MailRouting_proofs
                    mailboxes, forwarding
ReplyMail           agents' replies, their mails           ReplyMail_proofs
Tickets             references, status, reopening          Tickets_proofs
Contacts            contacts, sessions, proofs,            Contacts_proofs
                    conversations, links, erasure
Uploads             attachments, recordings, the storage   Uploads_proofs
SendingDomains      domain ownership composed with         SendingDomains_proofs
                    sending and mailboxes
Accounts            codes, signup, organizations' staff,   Accounts_proofs
                    the instance's setup
```

Each module has an `MC` module of that name, which extends it, names the sets of
faults and the symmetry of its runs. The modules meet on the states they share
rather than in one product, which TLC could not explore: a run of `InboundMail`
that takes a row is one mail of `MailRouting`; its `Land` is a message of
`Tickets` (`Find` and `WriteMessage` by "mail") and a ticket of `Contacts`
(`MailTicket`); a reply of `ReplyMail` is `PostReply` of `Uploads` with its
files; `Anonymize` of `Contacts` is `Erase` of `Uploads` and of `MailRouting`
and `Delete` of `InboundMail`. What is composed is what interferes: ownership
with sending and mailboxes; sessions with contacts, tickets and erasure; matching
with forwarding and erasure.

Conventions, in every module but `MailLedger`: a request or task under way is a
`pc` and a `job`, what it loaded; a transaction that holds the lock of what it
writes is one action, and one that does not is several. What may go wrong is
counted: an action that needs a fault adds its kind to `happened`, up to
`MaxFaults`, among the kinds the run allows. A property that a kind of fault
really breaks says so with `Without({...})`; each such excuse is one of the known
divergences of section 4.

### MailLedger

The abstract specification: each mail of the log is at a stage (none, waiting,
landed, refused, gone), its content is kept or not, and it has landed some
number of times. A mail lands from waiting, with its content, and once. It
models no code by itself, so the map does not have it: `InboundMail` is
shown to implement it (`KeepsLedger`), with the row's status as the stage and
"named by the row and in storage" as kept.

### InboundMail

One action for each handler, or for each part of one that a failure or another
process can come after.

| Code | Actions |
|---|---|
| `inbound.store` | `Receive` (the look for duplicates), `Insert`, `InsertConflict` (IntegrityError), `InsertFails` (rolled back once the raw file is stored), `QueueAfterCommit`, `RequestFails`, `Redeliver` |
| `pipeline.process`, first transaction | `BeginTriage` (`_locked`, skip_locked), then `Settle`, `Pass` or `Unreadable` |
| between the two | `StoreFiles`, `StoreFails` |
| second transaction | `BeginWrite`, `Write`, `CommitFails`, `CommitUnanswered` |
| its `finally` | `DeleteFiles`, `DeletionFails` |
| any exception | `Raise`, then `MarkFailed` and `Retry` in the task |
| `_announce` (on_commit) | `Announce` |
| worker lost | `Crash` |
| `requeue_stale_inbound`, `replay`, `purge_inbound_raw`, deletions | `Age`, `RequeueStale`, `RequeueFails`; `Replay`, `ReplayUnqueued`; `PurgeRaw`; `Delete` |

State: `status`, `mail`, `box` are the columns of `InboundEmail`; `raw` and
`rawFiles` the raw field and the file it names; `messages`, `attached` the
committed messages and their attachments; `files` the storage; `queue` the
broker; `reqPc`, `pc` where each process is. The row lock is not a variable: it
is held by the workers inside a transaction (`Holding`). `leaked` is a history
variable: the files a counted fault left.

Choices a reader should know:

- Tasks are acknowledged when taken (Celery's default), so a crash loses one.
  The broker delivers no task twice by itself; redeliveries of the provider,
  sweeps, replays and retries give the overlapping runs.
- `Raise` may happen at any step: an exception costs no fault from the budget,
  since the retries already bound its effect.
- A triage that ends the row (no recipient, an inactive organization, a
  filter's verdict) is one action with either final status. The marks a bounce
  report makes are `ReplyMail`'s (`Bounce`).
- A commit has three outcomes: done, not done, done without an answer. `landed`
  is set inside the block (`pipeline.py:180`), so the files stay in all three.
- A worker's file is named by the row and the worker. A run that fails and is
  taken again by the same worker for the same row stores under new names in the
  code; the model reuses the name, once nothing refers to it, or leaves it in
  `leaked`.

Left out: mails the MIME parser refuses (`store_unparseable`), the quota of
refused mails, what a mail's text becomes, the adapters of `webhooks.py`.

### MailRouting

| Code | Actions |
|---|---|
| `recipients.resolve`, `inbound.store` | `Arrive` |
| `stored_recipient`, `filters` | `Pass`, with `OrgOf` and `IsDuplicate`; `Ignore` |
| `thread_matching.find_ticket` | `Find`: by headers (`ByHeaders`, over the ids cited in order; `Named`, by the messages that bear one, `Precedes` for ties, else by a notice's own ticket), reply address, or subject |
| `lock_matched_ticket`, the new ticket, `proves_forwarding` and its stamp | `Land`, with `Lock` and `StampForwarding` |
| `MailboxSerializer.validate`, `Mailbox.save` | `Edit`, `Compare` (with the stored address), `Save` (of the whole row) |
| `regenerate_address` | `RegenerateAddress` |
| an agent's reply, its mail (which gives it its Message-ID), a message deleted | `Reply`, `MailReply`, `DeleteMessage` |
| tickets opened, ended, deleted; `anonymize_contact` | `OpenTicket`, `End`, `DeleteTicket`; `Erase`, then `Erased` once committed |

Each worker has one mail in hand; overlapping runs of a row, failures and retries
are `InboundMail`'s. `thread` is the messages, with who wrote them and the
Message-ID they bear: `OfReply(n)` is that of the mail of our message `n`,
`OfNotice(t)` that of a mail of ours about ticket `t` that sends no message, and
the others are made up by senders, who may use any id they know as their own and
cite any sequence of distinct ones. A mail without a Message-ID has a new one, as
the code makes it from its content. `answers` is history: when a mail is matched,
the ticket it answers, told by what the ids it cites are and not by a search:
`RepliedTo`, whose message of ours the id is the mail of; `FirstBearing`, the
first message that bore it; the ticket of a notice. Left out: deactivated organizations and
mailboxes, mails without an envelope, the criteria of the filters, Gmail's
confirmation, staff addresses, the header that only says how a mail matched.

### ReplyMail

One ticket. Messages are numbered by `created_at`; `kind` is who wrote each.
`AgentReplies` is `perform_create`'s commit and `QueueReplyEmail` what follows
it; `UserWrites`, `Read`, `Delete`, `Unsubscribe` the others who act on the
ticket. A worker runs a task through `Load` (the message, the ticket and its
reading mark are read here, once), `Consider` (only the delayed task), `TakeLock`,
`LockBusy` or `LockOutage`, `Build`, `Send` and `MarkSent`. `Expire` is the end
of the lock's 300 seconds, `SendUnanswered` a mail the server took without the
task knowing, `Crash` a worker lost. `excused` is a history variable: replies of
a mail that could not be recorded, or that bounced, which the next mail
rightly carries again.

Left out: internal notes (never mailed), the files' size limits, a contact who
subscribes again, errors of the database inside `Build` (the task then ends as
in `Crash`, with the lock freed), the other mails of `tickets/tasks.py`.

### Tickets

| Code | Actions |
|---|---|
| `perform_create` of the API and of the public form, outside a transaction | `Count` (the increment commits), `ReadCounter`, `Insert` |
| a mail's ticket, a conversation's first message, in one | `FirstMessage` or `OpenTicket`, then `Commit`, which may fail |
| a requester's message, by a page or by mail | `Find`, then `WriteMessage`: `Take` (reopens a ticket that ended lately) or `TurnAway` (a mail opens another ticket, a page is refused) |
| `assign`, `resolve`, `close`, `reopen`, `partial_update`, `bulk_update`, `destroy` | `Assign`, `Resolve`, `Close`, `Reopen`, `Patch`, `BulkUpdate` and `BulkSave`, `Destroy` |
| days | `Age` |

A date is recent or old, by `INBOUND_EMAIL_REOPEN_DAYS`. `ended`, `took` and
`turned` are history: when a ticket really ended, and what became of messages.
Left out: assignment, priority, tags and the first response, which no step here
reads; waiting is a status in progress; the ticket's own row lock while a mail
opens another one, since nothing more is read of it; days pass only when nothing is under way.

### Contacts

| Code | Actions |
|---|---|
| `WidgetSessionView` (visit, signed or not; login) | `WidgetSession`: `Visit`, `UpdateSession` or `Login`, then `Save`, `Link`, `Move`, `DeleteEmptied` |
| `link_session` and what it resolves, absorbs, moves | `Link` (`Found`, `Absorbed`, `LeaveTickets`, `MoveTickets`, `RecordProof`) |
| codes of the widget | `SendCode` (only if `WouldOpen`), `VerifyCode` |
| first message, further messages | `FirstMessage`, `OpenTicket`; `MessageOn`, `Write` |
| public form, ticket by mail | `SubmitForm`, `FormContact`, `AttachForm`; `MailTicket` |
| conversation links | `MailLink`, `OpenLink` and `MarkProven`, `PostLink` and `Post` |
| `backfill.py` | `BackfillSession`, `BackfillTicket`, `BackfillLink`, `BackfillTickets` |
| agents, erasure | `EditEmail`, `DeleteContact`, `SetContact`, `Anonymize` |
| who sees, who writes (`access.py`, `views.py`) | `HistoryOpens`, `Sees`, `ShownTo`, `WritableFrom`, `SenderVerified` |

A transaction that holds its contact's lock is one action; `proofs`, `opened` and
`wrote` are history, of what people really proved. Left out: companies, names,
attributes and notes; the expiry of links and the quota of their renewal; the
reply address as a way to write on a mail's ticket; the source of a proof, of
which only the address is kept; contacts that agents create; a database error of
linking. The backfill's rows are linked one step each, in the code in one
transaction.

### Uploads

| Code | Actions |
|---|---|
| agents' uploads, `perform_create` with files, PATCH, deletions | `AgentUploads`; `ChooseFiles`, `PostReply`; `Patch`, `SavePatch`; `DestroyAttachment`, `DeleteMessage`, `DeleteRecording`, `DeleteTicket` |
| the public form's endpoints | `FindTicket`, `SaveUpload` |
| the widget's, the page's | `WidgetMessage`, `SaveAttachment`, `Record`; `PostAttachment` |
| queuing and `process_video` | `QueueProcessing`; `Start`, `Probe`, `Finish`, `Crash` |
| `cleanup_expired_videos` | `Sweep`, `DeleteFiles`, `MarkExpired` |
| `purge_orphan_attachments`, `anonymize_contact` | `Purge` and `Erase`, rows first; then `Shred`, their objects |

`stored` is the storage. `strayed` and `late` are history: the objects left by
rows deleted otherwise, and those stored once the contact was erased, which wait
for a new erasure. Left out: content and limits, transcription (a placeholder),
recordings that agents create, accounts of agents that are deleted, and the
accounts of requesters who are end users of the organization.

### SendingDomains

| Code | Actions |
|---|---|
| `OrganizationDomain` created, token replaced | `Create` (`Challenge` or `AutoVerify`), `RegenerateToken`, then `SaveToken`; `Publish` is the DNS |
| `verify`, `recheck_pending_domains` | `Verify`, `RecheckPending`, then `VerifyByTxt` |
| `verify_domain` and all a transfer frees | `Verified`, with `FreeTokens`, `FreeAddresses`, `FreeSending` |
| deletion; a mailbox's address | `Destroy`; `AskAddress` (tested), `SaveAddress` |
| `enable_sending` | `Enable` (to the test of the status), `Replace` and `Remove` of a failed registration, `Register`, `Store`, `Undo` of a commit in doubt |
| `check_sending`, the hourly checks | `CheckSending`, `Ask`, `ApplyCheck` |
| `disable_sending`, `run_removal`, the sweep | `Disable`, `StartRemoval`, `Remove` |
| the lock's end, the instance's settings, a kill | `LockExpires`, `SwitchProvider`, `Crash` |

One domain, one row per organization. The lock in the cache is a variable, free
to expire under its holder (a fault). `outdated` is history: whose check's answer
is of a registration its row has let go of. `Reusing` is the providers that give a
removed registration's id again: Mailjet does, Scaleway does not. Left out: the instance's own and webmail
domains, a row's purposes, the manual provider (it registers nothing), the
window between the lock's get and delete, a row created again after its
deletion, mails to admins. Whether a removal is pending and the registration made after it are
one action, under the domain's lock. A provider is switched only
with nothing under way: the instance restarts.

### Accounts

| Code | Actions |
|---|---|
| `OTPCode.generate` | `RequestOTP` (cancels), `Generate` (creates) |
| `OTPCode.redeem` | `Redeem` (reads the newest), `Attempt` (the conditional update), `Compare` |
| `SetupInitializeView` | `SetupInitialize` (what it saw), `Setup` |
| `SignupCreateOrgView`, join requests | `CreateOrg`, `Found`; `RequestJoin`, `Decide`, then `Approve` or `Reject` |
| `UserViewSet` | `Invite`, `Promote`; `LockTarget` and `Change` (demote, dismiss, toggle, delete) |

`compared` and `letIn` are history. One organization in view, another behind
"founder". Left out: the change of an address, teams and settings, throttling,
the widget's codes (the same class, another purpose). An expired code is one
nobody tries any more; whether the admin site lets a user in is left open
(`is_staff`); a setup's check and its deletions are one step, though in the code
two (`core/setup_views.py:80`): the excuse "stale" has what two setups at once do.

## 3. Runs

Deadlock is not checked in any of them: once every bounded thing was done and all
is settled, nothing has to happen.

| Run | Instance | Shows |
|---|---|---|
| `inbound_rows` | 2 rows, 1 Message-ID, 1 mailbox and none, 2 requests, 1 worker, no retry, 1 fault of any kind | `TypeOK`, `WaitingIsKept`, `OneRowPerMailbox`, `KeepsLedger`: rows stay one per mailbox, waiting mails keep their content, and the log implements the ledger |
| `inbound_runs` | 1 row, 2 workers, 1 retry, 2 faults of any kind; fairness | `LandsOnce`, `FilesRight`, `AnnouncedOnce`, `PendingMovesOn`: overlapping runs write once, with their files and no others, are announced once at most, and a pending mail moves on |
| `inbound_two_rows` | 2 rows of 1 mail, 2 workers, no fault | `MailLandsOnce` violated (section 4) |
| `mail_routing` | 2 organizations, 1 mailbox, 1 public address, 2 inbound ones, 1 sender, 2 workers, 2 tickets, 3 messages, 2 ids cited, 1 change by staff, 1 request, the fault "erasing" | `TypeOK`, `LandsRight`, `ProofOfOneAddress`: a mail lands in its organization, where it answers, while replies are mailed and messages and tickets go; a proof is of the present addresses |
| `mailbox_proof` | 2 public addresses, 2 requests, 3 edits, no fault | `ProofOfOneAddress` violated (section 4) |
| `reply_once` | 3 messages, 2 workers, 1 retry of each kind, 2 faults of any kind but a slow mail | `TypeOK`, `MailedOnce`: no reply is mailed twice that was not lost or bounced |
| `reply_reached` | the same, 1 fault among outage, refusal and slow mail; fairness | `Covered`, `Reached`: a reply still owed is always some task's, and is in the end mailed, read or given up |
| `tickets` | 2 tickets, 3 requests, 3 edits, 2 processes, 1 fault | `TypeOK`, `NeverClashes`, `ReopensInTime`: a transaction's reference is its own; a message reopens a ticket that ended lately, and no other |
| `contacts` | 2 addresses, 2 sessions, 2 contacts, 1 ticket, 3 requests, 2 edits, 2 processes, 1 fault | `TypeOK`, `ProofsReal`, `SenderProved`, `StaysErased`, `OneConversation`, `NothingLost`, `ProofOpens` |
| `uploads` | 1 file, 1 recording, 1 message, 1 retry, 2 processes, 1 fault of any kind | `TypeOK`, `RepliesWhole`, `ErasedIsGone`, `NoneForgotten` |
| `sending_owner` | 2 organizations, 2 processes, 2 providers (one gives ids again), 2 tokens, 2 registrations, 1 removal recorded, mailboxes' addresses, 1 fault among a lost lock, a commit in doubt, a loss and a change of provider | `TypeOK`, `OnlyOwnerRegistered`, `Registrations`, `SendersProved` |
| `accounts` | 2 users, 2 processes, 2 codes, 2 attempts, 1 fault | `TypeOK`, `GuessesBounded`, `LetsInOnce`, `Administered`, `OneOrganization` |

**Bounds.** Two processes are what a lock, or a stale row, separates: every
interleaving hazard of the list is between two. Retries (5 of a mail, 3 of a
recording) are 0 or 1: one more finds the states of the first, since a run keeps
nothing of the one before but what the database and storage hold. `MaxAttempts`
(5) is 2, so that the last attempt is not the first. Two rows of one Message-ID
are what the constraints and the duplicate test compare; two tokens and two
registrations are an old one and a new one; two contacts are one absorbed and one
that absorbs, one ticket what they dispute; three messages are the fewest for a
mail that carries an earlier reply while a later one's task stands down; two
inbound addresses are one and its successor. One removal recorded at a time is
enough for a removal tried twice and for one that meets a later registration, and
not for two that wait. `MaxRequests` and `MaxEdits` are how long a history gets:
three requests let a proof be asked for, given and used while something else
moves. `MaxFaults` bounds all faults together. Two ids cited are
one that names nothing, or another ticket, before the other (the code stops at 20,
which only shortens the search). One id on two tickets needs two messages of them
and a third mail that cites it, hence three messages; a bound leaves room for the
messages of the mails in hand (`Room`). In `mail_routing` senders make up no
Message-ID (`MaxMails` is 0): each mail bears one of ours, a notice's or a reply's,
mailed or not yet. Borne by a message, it is told from one they made up only by
being ours as well, which is the case that matters. One change by staff is an end, a
deletion, an erasure or a change of the mailbox's addresses, anywhere among the
other steps.

**Symmetry.** Rows and requests in `inbound_rows`, workers in `reply_once`, and
processes (with users, organizations, sessions or addresses, where a definition
tells none apart) in the modules that state safety only, as their `MC` modules say. The runs with fairness use none.

**Fairness.** `InboundMail`: requests and workers finish what they began (weak
fairness); a task in the broker is taken in the end even if workers are often
busy (strong fairness: the broker's list is first in, first out); the sweep runs
every few minutes (weak fairness). A row becomes stale only when no run has it
(`AgeQuietly`): a run's hard time limit is 150 seconds and staleness takes 10
minutes. Without that, a sweep could for ever queue runs that only meet the lock
of another. Faults are counted, so they end. `ReplyMail`: requests queue what
they stored, workers take tasks and go on, the key of the lock expires. Nothing
is assumed of readers, agents, faults or admins: they may act or not. The other
modules state no fairness: what they promise is safety, `Uploads.NoneForgotten`
included (every recording is ready, expired, or some task's or sweep's to end).

## 4. Where the code and what it says part

### Two violations

1. **One mail, two rows, two messages** (`filters.py:274`, `inbound_two_rows`). A
   mail addressed both to a ticket's reply address and to the inbound address is
   stored twice, on purpose; "it must land once". The duplicate test only sees
   messages already written, and the second transaction does not repeat it. Two
   workers are enough.
2. **A proof of forwarding put back** (`models.py:130`, `mailbox_proof`). Two
   PATCHes of a mailbox bring the same new public address. The first one's save
   clears the proof; the second finds the address already stored, clears nothing,
   and saves the whole row as it loaded it, with the proof of the old address.

### Excused in a property

Each is a kind of fault that a property names with `Without`, so the runs show
both that it is reachable and that nothing else breaks the property.

- `Accounts`, "race": two codes generated at once for one address are both live
  (`organizations/models.py:642`). "stale": two setups at once each delete the
  attempts they saw (`core/setup_views.py:80`); a join request decided by two
  administrators at once (`organizations/views.py:848`), or approved in the middle
  of its requester's founding of an organization.
- `Contacts`, "stale": a message or a link under way is written on a contact or
  ticket erased since it was loaded. `backfill.py` may link a row to a contact
  erased since its lookup, although its docstring says otherwise.
- `Tickets`, "kept" and "undated": `bulk_update` keeps an old date
  (`tickets/views.py:1171`), and a PATCH of the status dates nothing.
- `SendingDomains`, "loss": a process killed between the provider and the
  database leaves a registration no row names (`services.py:339`); "race": a
  set-up that outlasts its lock, or a removal tried twice; "doubt": a registration
  stored by a commit whose answer was lost is recorded for removal although its
  row has it (`services.py:359`). The last two are excused in what a row's
  registration is, never in that each registration is known to somebody.
- `Uploads`: "late", an upload's row saved whole over a deletion; "crash", a
  killed worker leaves a recording processing for ever; "unqueued" and "storage".
- `MailRouting`, "erasing": a third party's mail, written while its ticket is
  being erased, stays unscrubbed (`thread_matching.py:148` locks the ticket only).

### Met while modelling, without a run

- A check applied to the next registration (`sending/services.py:662`). A check is
  answered "verified"; before it is applied, an admin disables sending and enables
  it again, and Mailjet gives the deleted sender's id to the new one
  (`mailjet.py:158-161`). `apply_check` knows a registration by its id only, so the
  new one is good before anything checked it. `SendersProved` says so: an outdated
  answer counts only where the provider gives ids again.
- An old TXT wins the domain back (`organizations/services.py:219`). A check looks
  up the TXT of a pending row; another one verifies that row, then another
  organization takes the domain, which clears the loser's token ("winning back
  needs a new token", line 249); the first check, answered late, verifies the loser
  again (`VerifyByTxt`). It compares no token when it writes.
- An address kept on a domain that changed hands (`serializers.py:138`). The domain
  is tested when a mailbox's address is validated (`AskAddress`); a transfer frees
  the addresses it sees; the mailbox is then saved (`SaveAddress`). "Nobody may
  reserve an address on a domain they haven't proven theirs" (line 125).
- A notice's Message-ID taken (`thread_matching.py:97`). A customer's mail bears
  the Message-ID of one of our notices, and lands on another ticket. An answer to
  the notice then goes there, since messages that bear an id are looked for before
  the ticket the id names, while "the id of a mail of ours sending no message names
  its ticket" (lines 73-74). `Answered`, which `LandsRight` goes by, follows the code.
- A mail slower than the reply lock lets a second task carry the same reply
  (`outbound.py:353`, `tasks.py:212`); `MailedOnce` is of the other faults.
- A commit that fails leaves its attachment files: `landed` is true before it
  (`pipeline.py:180`, against 150). Set after the block, it would delete the files
  of a commit done but not answered, which is a mutant of `FilesRight`.
- A delayed reply task stands down for a later reply already given up
  (`tasks.py:455`): the earlier one is neither mailed nor marked.
- A code's session whose contact link a concurrent login cleared stays unlinked
  until its next page. A ticket opened between the two reads of
  `tickets/views.py:376-382` keeps no contact. A message under way may be written
  on an erased ticket whose contact an agent had cleared.
- Two requests outside a transaction may read one number from the counter, and
  the second insertion fails (`organizations/models.py:370`).
- Thumbnails are never told to the row, so never deleted (`videos/tasks.py:75-88`,
  `193`, against `243`); files of deleted messages, and a chat's recordings
  (no `expires_at`, `tickets/views.py:1422`), stay.
- A raw file stays when the transaction that stored it rolls back
  (`inbound.py:140`); a bounce marks one reply of those its mail carried
  (`filters.py:228`).
- `Mailbox.save` of a whole row can also undo a new inbound address. A pending
  mail of an erased sender to a ticket without a mailbox is not deleted, and
  opens a new ticket.

## 5. Proofs

All proofs are of the specifications the runs check, for every value of the
constants that satisfies the module's assumption: naturals for the bounds,
`Faults` among the kinds, `None` (and `NoMailbox`) no member of the other sets.
No finiteness is assumed of rows, workers, requests, mails or mailboxes.

`InboundMail_proofs`: `InvCorrect` proves the inductive invariant `IInv`; the
others follow from it. Its parts beyond the properties themselves:

- `InHandIsReal`: a process that is not idle has a row, or a delivery, in hand.
  Every step reads it.
- `LockProtects`: inside a transaction the row is still to process, and no
  other worker is inside one for the same row. It is what makes `Land` happen from
  pending or failed only, hence `LandsOnce`; others change the row only when it
  is not held.
- `OwnFiles`: before it has written, a run's file is no message's; that is why
  a cleanup takes nothing back (`AttachmentsExist`). A row with attached files
  is processed or gone, which is why a run that finds the row lockable knows no
  earlier run of its own wrote it.
- `Announcing`: the run that announces is the only one, and has not yet
  (`AnnouncedOnce`).
- `FreeIsEmpty`: a row not yet created names no file, for `WaitingIsKept` when
  it is created without one.

The invariance proof has one lemma per part (`TypedNext`, `LockNext`,
`LandsNext`, `KeptNext`, `OwnNext`, `AttachNext`, `AccountNext`, `AnnounceNext`,
`OneRowNext`, ...), each with one step per action that can disturb it; `Bystanders`
and `LandLands` carry what they share. `FilesRight` is the conjunction of
`AttachmentsExist` (`NoFileTakenBack`) and `FilesAccounted` (`FilesKnown`).
`SettledForGood` proves that no step reopens a settled row, and `LogKeepsLedger`
the refinement: `LedgerStart` for the initial states, `Stages`, `StageMoves` and
`LedgerStep` for the steps. The ledger's own promise is inductive (`LedgerCorrect`),
so the log keeps it (`LogKeepsPromise`).

`Tickets_proofs` proves `TypeOK`, `NeverClashes` and `ReopensInTime` from
`TicketsAssumption` (the bounds are numbers, no process is called as a date or
as `None`) and `NoneAssumption` (no row is `None`), by an invariant of four parts:

- `Typed`: the types of `TypeOK`, one reference per ticket (the database's
  unique constraint), and `InHandIsReal`, what a request that goes on has in
  hand: the ticket it found, the row a bulk update read.
- `Counted`: no reference, given or read by a creation outside a transaction, is
  beyond the counter.
- `LockNumbers`: a transaction that incremented the counter holds its row, and
  has the number after the committed one. With `Counted`, that number is no
  ticket's: `NeverClashes` (`NumberIsFree`).
- `Dated`: what a row's dates and the time of its last save say of when the
  ticket really `ended`, unless one of the two faults that leave no true date
  happened (an end without a date, an earlier date kept). It is what makes
  `EndDate`, which reads the row only, decide as `ReopensInTime` asks.

`RowsNext`, `ProcsNext`, `CountsNext` and `CounterNext` say how a step may move
each part of the state; `LockNext`, `CountedNext` and `DatedNext` preserve the
invariant from them, and `StepInTime` reads the action property off it
(`ReopensRight`).

`ReplyMail_proofs` proves `TypeOK`, `MailedOnce` and `Covered`, the last two with
a hypothesis each on the faults, that of the run that checks them:

- `MailedOnce`, while no mail outlasts the lock (`"slow" \notin Faults`; with one
  it is false, section 4). The invariant is `OneMail`: a worker between its
  reading and its marking has the lock (`LockKept`), a reply mailed is marked, or
  carried by the worker about to mark it (`Recorded`), and what a worker is about
  to send was not mailed (`Unsent`).
- `Covered`, while the faults are passing ones (an outage of the lock's cache, a
  refusal of the mail server, a slow mail) and no more than either count of
  retries (`OnlyPassing`). `Counted` bounds the failures a task has counted by
  the faults that happened, so that no task gives up. `Looked` is the argument
  why tasks may stand down for one another: replies with no reader's message nor
  mailed reply between them are carried together (`SentTogether`,
  `CarryTogether`), so the last one's task carries them all (`DueCarried`).

`UnreadAre`, the lemma under both, says which replies a mail carries: the code
reads back to the last break (`Max` of a set, of which `MaxIsGreatest` says that
it is one and the greatest).

`Accounts_proofs` proves the five properties the run checks, with no hypothesis:

- `GuessesBounded`: the submissions counted and not compared yet, and those
  compared, add up to `attempts` (`Counted`). The count is a cardinality, and
  each step adds or removes one member.
- `LetsInOnce`: `CodesInv`. An unused code has let nobody in (`Consumed`); a
  submission holds a code of its address (`OwnCode`); where no two codes were
  made at once, all but the newest of an address are cancelled (`OneCode`).
- `OneOrganization`, from the types and what each step may write of an account.
- `Administered`: `StaffInv`. Who removes an admin has the lock (`Locked`), and
  the other admin it saw when it took it still is one (`SpareLeft`): no step
  removes an admin without the lock. `OneCandidate` is the same for the setup of
  the instance.

`SendingDomains_proofs` proves the four properties of its run, with no
hypothesis:

- `OnlyOwnerRegistered` is inductive with the types.
- `SendersProved`: an answer is outdated once its row let go of what was checked,
  and is otherwise of the row's own registration; where no id is given again, an
  outdated one is of none its row has (`Dated`), since what is being stored is in
  nobody else's hands (`Fresh`). Who found a registration good found the TXT
  (`FoundTxt`), and the provider had validated it and has not taken it back
  (`FoundActive`, from `Kept` below, while no lock was lost and no commit in
  doubt). `Here`, what a process made or checks is of the provider in use: a change
  of provider ends what was under way.
- `Registrations`: `Known` (one row with a registration, ids never given twice,
  each process's record its own) and, while no two processes worked under an
  expired lock and no commit was in doubt, `Undisturbed`: who sets a row up is
  alone, and the row had none but one to replace (`Alone`); a record has one
  process and lasts until its removal (`OneTry`); what is registered and not stored yet, or a row's, is at the provider and not to be
  removed (`ToStore`, `Kept`). While no answer was lost, all that is held is
  accounted for (`NobodysLost`).

`Uploads_proofs` proves the four properties of its run, with no hypothesis:

- `TypeOK` with `JobFor`, what a process has loaded at each of its steps: the
  rows it will save, the objects it will delete.
- `NoneForgotten`: a recording gets under way with its task (`GetsUnderWay`), and
  each process that ends a task ends the recording, queues the task again or is
  counted (`MindedKept`).
- `ErasedIsGone`: `Accounted`, every object of the requester's has a row, or is in
  the hands of a process that deletes it, or left by a counted fault; with
  `Uploaded`, the rows say whose files are, since an erasure selects by row.
- `RepliesWhole`: `Linked`. Every row's object is stored (`ShownStored`), objects
  being deleted are of rows gone for good (`GoneForGood`), and a reply's files are
  on it and an agent's (`OnTheirReply`), which a purge and an erasure leave.

`MailRouting_proofs` proves the three properties of `mail_routing`, from
`MailRoutingAssumption` and `NoneAssumption` (no ticket, message, row nor id is
`None`):

- `LandsRight`: `RoutingInv`. A message of ours bears its own Message-ID or none
  yet (`OwnIds`), so at most one of those that bear an id is the one it is the
  mail of, and comes first in the code's order (`NamedIsAnswered`): what the
  search finds for an id is what the id is of, one ticket at most (`NamedOnce`), and
  the search through a sequence of ids stops at the same one (`AnswersNamed`).
  Hence what a mail answers is the ticket found (`Matched`). No ticket starts
  taking mails after the search, changes organization or comes back
  (`TicketsKept`): that is why looking the ticket up again under its own lock is
  enough. A mail lands by no other step, and one step lands one (`OnlyLands`).
- `ProofOfOneAddress`, for one request at a time (`OneRequest`, as in that run; with
  two it is false, section 4). `SettingsInv`: the proof of the row in hand is of
  the stored public address until the comparison, of its own after it
  (`InHandSound`), whatever lands or is renewed in between.

`Contacts_proofs` proves the seven properties of its run, from
`ContactsAssumption` and `NoneAssumption` (no row of a ticket is `None`), with
no hypothesis on the faults:

- `TypeOK` with `OnlyLiveHold` (only a live contact has an id, an address or a
  mark of verification; hence one contact has each when another is emptied in the
  same step) and `JobHeld`, what a request has loaded at each of its steps.
  `ContactMoves`, `SessionMoves`, `TicketMoves` and `RequestMoves` then say what a
  step may do of each, and with which proof (`Given`, `Removed`, `SessionFine`,
  `TicketFine`, `Shown`): the invariants below are proved from those.
- `OneConversation`: `Conversing`, a message written as its ticket's own is on the
  session of the ticket; the move of a login takes both in one step.
- `ProofsReal`: `ProofHeld`, whatever proof a session or a request under way
  carries was proved, and a verified contact's address too; its last part, that
  the list of who is shown a ticket is that of who sees it, from the types.
- `SenderProved`: `SenderHeld`, whoever wrote a ticket no login moved had proved,
  by then, what the ticket's session proves, unless it proved that since.
- `StaysErased` is inductive with the types: a step that erases empties the
  tickets and sessions at once (`ErasedBy`, `NoMessage`); others land on a live
  contact, or are counted as "stale" (`LandsOn`).
- `NothingLost`: who absorbs a contact is itself kept (`AbsorbedIsKept`), and one
  left empty has no row left.
- `ProofOpens`: `LinkOnly` (a link that ends with these conditions did link),
  `ProofReaches` (the contact that has the address, or the id, is the one linked
  or absorbed) and `LinkLeads` (the session then proves what opens it).

In these modules a proof goes by groups of variables: for each, a lemma lists the
steps that may change it (`FileMoves`, `VideoMoves`, `ProviderMoves`, ...) and
what each does, and the lemmas of the invariants split on that list only.

Only model-checked: liveness (`PendingMovesOn`, `Reached`), which is out of the
prover's reach (ENABLED). Every invariant and every action property of the runs
that pass is a theorem. The two violated statements are false, so not proved.

## 6. Not modelled

- Mails the parser refuses (`store_unparseable`): a delivery kind of its own,
  planned.
- Notifications, WebSocket consumers and presence: best effort, their failures
  are logged and the clients fetch again; presence only chooses between two
  delays, and `ReplyMail` allows both.
- The knowledge base: reads and writes of one row at a time.
- Serializers, permissions, forms and throttling, where they test one request
  alone: data validation that unit tests reach. What they read and another request
  changes is in the modules.
- Adapters of one mail provider, FFmpeg, DNS and HTTP clients: what they answer
  is left open in the actions that call them.
- The application, the widget's script, deployment, updates and development
  tools: no server state of the program's own.

## 7. Plan

1. Refinements: `InboundMail` implements `MailLedger`; an abstract statement of
   what a reply's mail promises, and one of who may be shown a ticket, would be
   the next two, proved in `ReplyMail_proofs` and `Contacts_proofs`.
2. `InboundMail`: deliveries the parser refuses, so that rows without a mailbox
   and rejected are inserted by get_or_create.
3. A larger `contacts` instance (two tickets) by splitting links and backfill off.
