---------------------------- MODULE MCProvision ----------------------------
EXTENDS Provision, TLC
CONSTANTS o1, o2
=============================================================================
