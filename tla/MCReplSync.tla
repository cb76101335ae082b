---------------------------- MODULE MCReplSync ----------------------------
EXTENDS ReplSync

CONSTANTS m0, m1, m2, none

MCOthers == {m1, m2}
=============================================================================
