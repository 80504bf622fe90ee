----------------------------- MODULE MCLlmBudget ------------------------------
(* Instances of LlmBudget.tla for TLC: the budgets around every boundary of     *)
(* plan_shares, a negative setting included.                                    *)
EXTENDS LlmBudget

SmallTotals == {-1, 2, 5}
===============================================================================
