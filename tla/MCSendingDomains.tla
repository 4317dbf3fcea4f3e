------------------------- MODULE MCSendingDomains --------------------------
(***************************************************************************)
(* SendingDomains on small instances: two organizations, two processes and *)
(* two providers.                                                          *)
(***************************************************************************)
EXTENDS SendingDomains, TLC

Symmetry ==
  Permutations(Procs) \cup Permutations(Orgs)

=============================================================================
