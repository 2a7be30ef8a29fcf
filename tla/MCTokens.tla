------------------------------ MODULE MCTokens ------------------------------
(* A small instance of Tokens for TLC.                                      *)
EXTENDS Tokens
=============================================================================
