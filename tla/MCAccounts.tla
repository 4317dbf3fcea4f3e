---------------------------- MODULE MCAccounts ----------------------------
(***************************************************************************)
(* Accounts on small instances: two addresses, two requests at a time.     *)
(***************************************************************************)
EXTENDS Accounts, TLC

Symmetry == Permutations(Procs) \cup Permutations(Users)

=============================================================================
