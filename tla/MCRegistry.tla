------------------------------ MODULE MCRegistry ------------------------------
(***************************************************************************)
(* CallbackRegistry under churn: two goroutines and two native threads on  *)
(* one token, which is issued, invoked, deleted and invoked again in every *)
(* interleaving.                                                           *)
(***************************************************************************)
EXTENDS CallbackRegistry
=============================================================================
