--------------------------- MODULE MCHostAdmission ---------------------------
\* Three pools with a launch each, so that one can die and two judge the slot it leaves;
\* the first two wait as long as it takes, the third is a scalar leaf, which goes ahead
\* without a slot after a while.
EXTENDS HostAdmission

CONSTANTS P, Q, R, X, Y, Z
MCHome == [l \in Launch |-> CASE l = X -> P [] l = Y -> Q [] OTHER -> R]
MCReach == [p \in Pool |-> IF p = R THEN 1 ELSE Limit]
=============================================================================
