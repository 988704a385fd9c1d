-------------------------------- MODULE Plan --------------------------------
(* The seeded plan: what a Step row holds that never changes.              *)
EXTENDS Naturals

CONSTANTS
    Steps,        \* the step numbers of the seeded plan
    MaxAttempts   \* Step.max_attempts

ASSUME StepsAreNumbered == Steps \subseteq Nat \ {0}
ASSUME BudgetsArePositive == MaxAttempts \in [Steps -> Nat \ {0}]

=============================================================================
