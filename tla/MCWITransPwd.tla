---------------------------- MODULE MCWITransPwd ----------------------------
(***************************************************************************)
(* Instances of the transaction passwords for TLC.                         *)
(***************************************************************************)
EXTENDS WITransPwd, TLC
=============================================================================
