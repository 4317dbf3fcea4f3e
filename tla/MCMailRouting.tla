--------------------------- MODULE MCMailRouting ---------------------------
(***************************************************************************)
(* MailRouting on small instances: two organizations, one with a mailbox.  *)
(***************************************************************************)
EXTENDS MailRouting, TLC

CONSTANTS acme, other, support

OneBox == support :> acme

NoFaults == {}

Symmetry ==
  Permutations(Senders) \cup Permutations(Publics) \cup Permutations(Procs)
  \cup Permutations(Workers)

=============================================================================
