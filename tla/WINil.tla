------------------------------- MODULE WINil -------------------------------
(***************************************************************************)
(* Objective-C nil: an absent keychain item, an unset user default, a      *)
(* missing argument.                                                       *)
(***************************************************************************)
CONSTANT Nil
=============================================================================
