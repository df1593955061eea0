----------------------------- MODULE MCOperator -----------------------------
EXTENDS Refinement, TLC

CONSTANTS u1, u2, s1, s2, p1, p2, none
=============================================================================
