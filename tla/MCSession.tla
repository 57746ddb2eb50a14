------------------------------ MODULE MCSession ------------------------------
(* Session with one sender, and the bugs its properties find.              *)
EXTENDS Session

CONSTANT s1
=============================================================================
