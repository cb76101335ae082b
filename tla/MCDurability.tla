---------------------------- MODULE MCDurability ----------------------------
EXTENDS Durability

CONSTANTS c1, c2, d, none

MCClients == {c1, c2}

=============================================================================
