------------------------ MODULE MCQuotaAdjustment ------------------------
(* TLC instances of QuotaAdjustment: symmetry. *)
EXTENDS QuotaAdjustment, TLC

Symmetry == Permutations(Requests) \cup Permutations(Collectors) \cup Permutations(Limits)
=============================================================================
