----------------------------- MODULE MCSpendCap -----------------------------
\* Priced steps A and B of two items and one, which are dispatched one after the other or
\* side by side; and a step C of three items without a price.
EXTENDS SpendCap

CONSTANTS A, B, C, A1, A2, B1, C1, C2, C3
MCRoster == [s \in Step |-> CASE s = A -> <<A1, A2>> [] s = B -> <<B1>>
                              [] OTHER -> <<C1, C2, C3>>]
MCAttempts == [s \in Step |-> IF s = B THEN 2 ELSE 1]
MCStepLimit == [s \in Step |-> IF s = B THEN 1 ELSE 0]
MCPlans == {[levels |-> <<{A}, {B}>>, priced |-> {A, B}],
            [levels |-> <<{A, B}>>, priced |-> {A, B}],
            [levels |-> <<{C}>>, priced |-> {}]}
=============================================================================
