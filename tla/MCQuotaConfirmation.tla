----------------------- MODULE MCQuotaConfirmation -----------------------
(* TLC instances of QuotaConfirmation: symmetry. *)
EXTENDS QuotaConfirmation, TLC

Symmetry == Permutations(Confirmations) \cup Permutations(Deciders)
=============================================================================
