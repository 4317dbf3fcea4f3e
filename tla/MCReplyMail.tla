---------------------------- MODULE MCReplyMail ----------------------------
(***************************************************************************)
(* ReplyMail on small instances: a ticket of three messages, two workers.  *)
(***************************************************************************)
EXTENDS ReplyMail, TLC

(* All but what the lock cannot stand, a mail slower than it lasts.        *)
InTime == FaultKinds \ {"slow"}

(* What retries, the lock's end and a mail server that comes back make up  *)
(* for: it costs a reply a second mail at worst.                           *)
Passing == {"outage", "smtp", "slow"}

Symmetry == Permutations(Workers)

=============================================================================
