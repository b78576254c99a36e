------------------------------ MODULE WIVault ------------------------------
(***************************************************************************)
(* What the wallet promises its user: one vault that holds a mnemonic      *)
(* under an unlock password, and a session opened with that password.  The *)
(* vault is replaced in one step or not at all; only a process killed in   *)
(* the middle of a replacement may lose it, and then the session is over   *)
(* and a wallet can still be imported.  Nothing else a handler does,       *)
(* refused writes included, shows here.                                    *)
(***************************************************************************)
CONSTANTS Secrets, Pwds, Empty, Lost

VARIABLES
  vault,    \* Empty, Lost or [mnemonic, pwd]
  session   \* Empty or the password the session goes on using

vaultVars == <<vault, session>>

Vaults == [mnemonic : Secrets, pwd : Pwds]

VaultInit == vault = Empty /\ session = Empty

\* A first wallet, or one that takes the place of another.
Put(v) == vault' = v /\ session' = v.pwd

Open ==
  /\ vault \in Vaults
  /\ session' = vault.pwd
  /\ UNCHANGED vault

Close == session' = Empty /\ UNCHANGED vault

Forget == vault' = Empty /\ session' = Empty

Lose == vault # Empty /\ vault' = Lost /\ session' = Empty

VaultNext ==
  \/ \E v \in Vaults : Put(v)
  \/ Open
  \/ Close
  \/ Forget
  \/ Lose

VaultSpec == VaultInit /\ [][VaultNext]_vaultVars
=============================================================================
