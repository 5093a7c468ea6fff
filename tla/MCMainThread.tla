---------------------------- MODULE MCMainThread ----------------------------
EXTENDS MainThread
CONSTANTS r1, m1

MCReads == {r1}
MCMutations == {m1}
=============================================================================
