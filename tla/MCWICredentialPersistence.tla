--------------------- MODULE MCWICredentialPersistence ---------------------
(***************************************************************************)
(* Instance of the credential store for TLC.                               *)
(***************************************************************************)
EXTENDS WICredentialPersistence, TLC

\* None of these values is told apart by the code.
Symmetry ==
  Permutations(Mnemonics) \cup Permutations(DbPwds) \cup Permutations(Contents)
=============================================================================
