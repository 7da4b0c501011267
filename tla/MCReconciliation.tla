-------------------------- MODULE MCReconciliation --------------------------
EXTENDS Reconciliation

CONSTANTS p1, p2, v1
=============================================================================
