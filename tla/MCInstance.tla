----------------------------- MODULE MCInstance -----------------------------
EXTENDS InstanceController, TLC

CONSTANTS d1, d2, c1, c2, c3, conn, none
=============================================================================
