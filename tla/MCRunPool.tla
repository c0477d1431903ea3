----------------------------- MODULE MCRunPool -----------------------------
(* An instance of RunPool: a submission p and two code leaves.               *)
EXTENDS RunPool
CONSTANTS p, c, d
=============================================================================
