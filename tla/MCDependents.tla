---------------------------- MODULE MCDependents ----------------------------
EXTENDS Dependents, TLC

CONSTANTS password, url, none
=============================================================================
