------------------------------ MODULE MCGrants ------------------------------
EXTENDS Grants, TLC

CONSTANTS u1, u2
=============================================================================
