---------------------------- MODULE MCHandEngine ----------------------------
EXTENDS HandEngine
=============================================================================
