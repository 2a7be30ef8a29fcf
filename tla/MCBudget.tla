------------------------------ MODULE MCBudget ------------------------------
(* A small instance of Budget for TLC: three days, of two months.           *)
EXTENDS Budget

MCMonthOf == <<1, 1, 2>>
MCCaps == {[daily |-> 2, monthly |-> 4], [daily |-> 4, monthly |-> 5]}
=============================================================================
