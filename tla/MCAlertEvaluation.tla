------------------------- MODULE MCAlertEvaluation -------------------------
(* TLC instances of AlertEvaluation: constants and symmetry. *)
EXTENDS AlertEvaluation, TLC

Rule(a, b, c, x, y, z) == [threshold |-> <<a, b, c>>, repeat |-> <<x, y, z>>]

\* Two levels within reach of the ratios, a repetition after two ticks.
FirstRule == Rule(1, 2, 9, 2, 2, 2)
OneRule == {FirstRule}

\* The second rule calls serious what is important under the first.
TwoRules == {FirstRule, Rule(0, 1, 9, 2, 1, 1)}

EvaluatorSymmetry == Permutations(Evaluators)
=============================================================================
