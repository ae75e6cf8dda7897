---------------------------- MODULE MCRegistration ----------------------------
(***************************************************************************)
(* Values for the constants of Registration that a .cfg cannot write.      *)
(***************************************************************************)
EXTENDS Registration

NoneMinted == <<>>
=============================================================================
