------------------------------- MODULE Evaluator -------------------------------
(***************************************************************************)
(* FixtureEvaluator.evaluate (src/evaluator.py): whether a candidate is    *)
(* eligible, given what its fixture found out and the scores to beat.      *)
(* Phase2, Phase3 and Phase4 decide by it; the module has no state.        *)
(*                                                                         *)
(* spec is the part of the RunSpec the evaluator reads: [predicates, keys, *)
(* comparison, strict].  An outcome is [correctness, scores], functions of *)
(* predicates and of score keys; a baseline is a function of score keys.   *)
(* evaluate raises for a comparison it does not implement and for missing  *)
(* predicates or scores: no RunSpec of the controllers leads there.        *)
(***************************************************************************)
EXTENDS Integers

Better(comparison, a, b) == IF comparison = "minimize" THEN a < b ELSE a > b

Correct(spec, outcome) == \A p \in spec.predicates : outcome.correctness[p]

NonRegressing(spec, scores, baseline) ==
    \A k \in spec.keys : ~Better(spec.comparison, baseline[k], scores[k])

StrictlyBetter(spec, scores, baseline) ==
    \E k \in spec.keys : Better(spec.comparison, scores[k], baseline[k])

Eligible(spec, outcome, baseline) ==
    /\ Correct(spec, outcome)
    /\ NonRegressing(spec, outcome.scores, baseline)
    /\ spec.strict => StrictlyBetter(spec, outcome.scores, baseline)
=============================================================================
