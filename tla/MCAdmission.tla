----------------------------- MODULE MCAdmission -----------------------------
(* Small instances of Admission. *)
EXTENDS Admission, TLC

CONSTANTS r1, r2, r3

Symmetric == Permutations(Requests)

\* A day of three ticks, a month of two days.
DayAndMonth == [daily |-> 3, monthly |-> 6]
TwoPeriods == {"daily", "monthly"}

NoBudget == [daily |-> 0, monthly |-> 0]
SmallBudget == [daily |-> 3, monthly |-> 4]

\* Rates: every request counts one token and costs nothing.
FreeEstimates == {[tokens |-> 1, cost |-> Unknown]}
FreeActuals == {[tokens |-> 2, cost |-> Unknown], [tokens |-> Unknown, cost |-> Unknown]}
RecentPrior == <<[at |-> 2, tokens |-> 1, cost |-> 0]>>

\* Budgets: priced and unpriced requests, cheaper and dearer than estimated.
PricedEstimates == {[tokens |-> 1, cost |-> 2], [tokens |-> 1, cost |-> Unknown]}
PricedActuals == {[tokens |-> 1, cost |-> 1], [tokens |-> 1, cost |-> 3],
                  [tokens |-> Unknown, cost |-> 1]}
PricedPrior == <<[at |-> 2, tokens |-> 1, cost |-> 1], [at |-> 3, tokens |-> 1, cost |-> 1]>>
=============================================================================
