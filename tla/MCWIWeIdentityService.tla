---------------------------- MODULE MCWIWeIdentityService ----------------------------
(***************************************************************************)
(* Instance of the creation of WeIds for TLC.                              *)
(***************************************************************************)
EXTENDS WIWeIdentityService, TLC

\* Neither mnemonics nor passwords are told apart by the code.
Symmetry == Permutations(Mnemonics) \cup Permutations(UnlockPwds)
=============================================================================
