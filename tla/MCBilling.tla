------------------------------ MODULE MCBilling ------------------------------
(* Billing for TLC.  Once handlers have come between one another nothing is  *)
(* claimed any more, and "apart" never becomes TRUE again: states beyond the *)
(* first disturbed one are left out.                                         *)
EXTENDS Billing

Undisturbed == apart
=============================================================================
