------------------------ MODULE MCWIRestorationFile ------------------------
(***************************************************************************)
(* Instance of the wallet life cycle and its restoration file for TLC.     *)
(***************************************************************************)
EXTENDS WIRestorationFile, TLC

\* Neither mnemonics nor passwords are told apart by the code.
Symmetry ==
  Permutations(Mnemonics) \cup Permutations(UnlockPwds) \cup Permutations(RestorePwds)
=============================================================================
