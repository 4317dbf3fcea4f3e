----------------------------- MODULE MCTickets -----------------------------
(***************************************************************************)
(* Tickets on small instances: two requests, or tasks, at a time.          *)
(***************************************************************************)
EXTENDS Tickets, TLC

Symmetry == Permutations(Procs)

=============================================================================
