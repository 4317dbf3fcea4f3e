----------------------------- MODULE MCContacts -----------------------------
(***************************************************************************)
(* Contacts on small instances: two sessions, two requests at a time.      *)
(***************************************************************************)
EXTENDS Contacts, TLC

Symmetry == Permutations(Procs) \cup Permutations(Sessions) \cup Permutations(Addrs)

=============================================================================
