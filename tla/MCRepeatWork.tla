---------------------------- MODULE MCRepeatWork ----------------------------
EXTENDS RepeatWork
=============================================================================
