------------------------------ MODULE MCBoard ------------------------------
EXTENDS Board
CONSTANTS o1, o2, f1, f2, p1, p2
=============================================================================
