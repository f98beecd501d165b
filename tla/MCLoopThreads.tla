---------------------------- MODULE MCLoopThreads ----------------------------
EXTENDS LoopThreads
=============================================================================
