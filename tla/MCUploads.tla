----------------------------- MODULE MCUploads -----------------------------
(***************************************************************************)
(* Uploads on small instances: a file, a recording, a message, and two     *)
(* requests or tasks at a time.                                            *)
(***************************************************************************)
EXTENDS Uploads, TLC

Symmetry == Permutations(Procs)

=============================================================================
