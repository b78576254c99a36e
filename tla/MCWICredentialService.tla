----------------------- MODULE MCWICredentialService -----------------------
(***************************************************************************)
(* Instances of the credential service for TLC.                            *)
(***************************************************************************)
EXTENDS WICredentialService, TLC

\* Ids and claims are not told apart by the code.
Symmetry == Permutations(Uuids) \cup Permutations(Claims)
=============================================================================
