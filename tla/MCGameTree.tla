----------------------------- MODULE MCGameTree -----------------------------
EXTENDS GameTree
=============================================================================
