------------------------------ MODULE MCFleet ------------------------------
EXTENDS Fleet, TLC
MCRetryAfters == {2}
=============================================================================
