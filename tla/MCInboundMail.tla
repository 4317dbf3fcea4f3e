--------------------------- MODULE MCInboundMail ---------------------------
(***************************************************************************)
(* InboundMail on small instances: two rows and two requests for what      *)
(* deliveries of a mail share, two workers for what runs of a row share.   *)
(* Rows, workers and requests are interchangeable.                         *)
(***************************************************************************)
EXTENDS InboundMail, TLC

AllFaults == FaultKinds
NoFaults == {}

Symmetry ==
  Permutations(Rows) \cup Permutations(Workers) \cup Permutations(Requests)

=============================================================================
