----------------------------- MODULE MailLedger -----------------------------
(***************************************************************************)
(* What the inbound log promises of a mail, whatever workers, retries and  *)
(* crashes do to it: once stored it waits, with its content, until it is   *)
(* settled; it is settled once, as one message or as a refusal; nothing    *)
(* settled is ever undone; and its content goes only once it is settled,   *)
(* or when the row itself is erased.                                       *)
(*                                                                         *)
(* InboundMail implements this specification.                              *)
(***************************************************************************)
EXTENDS Naturals

CONSTANT Rows        \* the ids of the log's rows

VARIABLES
  stage,             \* where each row stands
  kept,              \* the rows whose raw mail can be read
  landings           \* how many messages each row became

ledger == <<stage, kept, landings>>

Stage == {"none", "waiting", "landed", "refused", "gone"}

LedgerTypeOK ==
  /\ stage \in [Rows -> Stage]
  /\ kept \in SUBSET Rows
  /\ landings \in [Rows -> Nat]

LedgerInit ==
  /\ stage = [r \in Rows |-> "none"]
  /\ kept = {}
  /\ landings = [r \in Rows |-> 0]

Move(r, to) == stage' = [stage EXCEPT ![r] = to]

Arrive(r) ==         \* stored, with its content
  /\ stage[r] = "none"
  /\ Move(r, "waiting")
  /\ kept' = kept \cup {r}
  /\ UNCHANGED landings

TurnAway(r) ==       \* logged as refused, without its content
  /\ stage[r] = "none"
  /\ Move(r, "refused")
  /\ UNCHANGED <<kept, landings>>

Land(r) ==           \* becomes a message, from its content
  /\ stage[r] = "waiting"
  /\ r \in kept
  /\ Move(r, "landed")
  /\ landings' = [landings EXCEPT ![r] = @ + 1]
  /\ UNCHANGED kept

Refuse(r) ==         \* ignored or rejected once read
  /\ stage[r] = "waiting"
  /\ r \in kept
  /\ Move(r, "refused")
  /\ UNCHANGED <<kept, landings>>

Empty(r) ==          \* its content is purged
  /\ stage[r] \in {"landed", "refused"}
  /\ r \in kept
  /\ kept' = kept \ {r}
  /\ UNCHANGED <<stage, landings>>

Erase(r) ==          \* its row goes, its content with it
  /\ stage[r] # "gone"
  /\ Move(r, "gone")
  /\ kept' = kept \ {r}
  /\ UNCHANGED landings

LedgerNext ==
  \E r \in Rows :
    Arrive(r) \/ TurnAway(r) \/ Land(r) \/ Refuse(r) \/ Empty(r) \/ Erase(r)

LedgerSpec == LedgerInit /\ [][LedgerNext]_ledger

-----------------------------------------------------------------------------

(* A row becomes at most one message, and none before it is settled as     *)
(* landed.                                                                 *)
LandsAtMostOnce ==
  \A r \in Rows :
    /\ landings[r] <= 1
    /\ stage[r] \in {"none", "waiting", "refused"} => landings[r] = 0

(* What waits can still be read.                                           *)
WaitingIsKept == \A r \in Rows : stage[r] = "waiting" => r \in kept

LedgerInv == LedgerTypeOK /\ LandsAtMostOnce /\ WaitingIsKept

=============================================================================
