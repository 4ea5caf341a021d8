---------------------------- MODULE MCResultPass ----------------------------
EXTENDS ResultPass
MCIds == 1 .. 3
=============================================================================
