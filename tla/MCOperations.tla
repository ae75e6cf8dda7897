----------------------------- MODULE MCOperations -----------------------------
(***************************************************************************)
(* Values for the constants of Operations that a .cfg file cannot write.   *)
(***************************************************************************)
EXTENDS OperationsInvariant

NoneMinted == <<>>
=============================================================================
