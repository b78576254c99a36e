---------------------------- MODULE MCWIRestorationService ----------------------------
(***************************************************************************)
(* Instance of the restore of a wallet for TLC.                              *)
(***************************************************************************)
EXTENDS WIRestorationService, TLC

\* Neither mnemonics nor passwords are told apart by the code.
Symmetry == Permutations(Mnemonics) \cup Permutations(UnlockPwds)
=============================================================================
