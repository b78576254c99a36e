--------------------------- MODULE WIVault_proofs ---------------------------
(***************************************************************************)
(* The wallet implements the vault of WIVault: under the mapping VaultBar, *)
(* SessionBar every step of the wallet is one step of the vault or none.   *)
(***************************************************************************)
EXTENDS WIHDWallet_proofs

\* A whole wallet holds one mnemonic under one password.
LEMMA OneSecret ==
  ASSUME NEW s, NEW m \in Mnemonics, NEW p \in UnlockPwds, IsWallet(s, m, p)
  PROVE  ~Gone(s) /\ VaultOf(s) = [mnemonic |-> m, pwd |-> p]
<1> DEFINE V == [mnemonic : Mnemonics, pwd : UnlockPwds]
           v == [mnemonic |-> m, pwd |-> p]
<1>1. LoadMasterKey(s, p) # Nil
  BY MasterKeyExists DEF IsWallet
<1>2. ~Gone(s)
  BY <1>1, GoneDoesNotOpen
<1>3. v \in V /\ IsWallet(s, v.mnemonic, v.pwd)
  OBVIOUS
<1>4. ASSUME NEW w \in V, IsWallet(s, w.mnemonic, w.pwd)
      PROVE  w = v
  <2>1. LoadMasterKey(s, w.pwd) # Nil
    BY <1>4, MasterKeyExists DEF IsWallet
  <2>2. Keccak256(HashTwice(p)) = s.pwdHash /\ Keccak256(HashTwice(w.pwd)) = s.pwdHash
    BY <1>1, <2>1 DEF LoadMasterKey
  <2>3. w.pwd = p
    BY <2>2, PwdHashInjective
  <2>4. w.mnemonic = m
    BY <1>4, <2>3 DEF IsWallet
  <2> QED BY <2>3, <2>4
<1> HIDE DEF V, v
<1>5. VaultOf(s) = v
  <2>1. VaultOf(s) = CHOOSE w \in V : IsWallet(s, w.mnemonic, w.pwd)
    BY DEF VaultOf, V
  <2> QED BY <1>3, <1>4, <2>1
<1> QED BY <1>2, <1>5 DEF v

\* The mapping of the current wallet, before and after a step.
VaultIs ==
  /\ current = Nil => VaultBar = Nil
  /\ current # Nil /\ Gone(keychain[current]) => VaultBar = LostWallet
  /\ \A m \in Mnemonics, p \in UnlockPwds :
       current # Nil /\ IsWallet(keychain[current], m, p) =>
         VaultBar = [mnemonic |-> m, pwd |-> p]

\* The mapped vault now, and after a step.
LEMMA VaultBarOf == VaultIs
BY OneSecret DEF VaultIs, VaultBar

LEMMA VaultBarNext == VaultIs'
BY VaultBarOf, PTL

\* A new wallet, created or imported, is one Put.
LEMMA NewWalletPuts ==
  ASSUME WalletInv, NewNameOnly,
         NEW m \in Mnemonics, NEW i, NEW p \in UnlockPwds, NewWallet(m, i, p)
  PROVE  Vault!VaultNext
<1> DEFINE v == [mnemonic |-> m, pwd |-> p]
<1>1. /\ NextName # Nil /\ current' = NextName /\ inited' = TRUE /\ unlockPwd' = p
      /\ IsWallet(keychain'[current'], m, p)
  BY NilIsNoName DEF NewNameOnly, TakeNextName, NewWallet, SetCurrentWallet, InitHDWalletSuccess
<1>2. VaultBar' = v
  BY <1>1, VaultBarNext DEF VaultIs
<1>3. SessionBar' = p
  BY <1>1 DEF SessionBar
<1>4. v \in Vault!Vaults /\ v.pwd = p
  BY DEF Vault!Vaults
<1> HIDE DEF v
<1> QED BY <1>2, <1>3, <1>4 DEF Vault!VaultNext, Vault!Put

\* As long as the current wallet and its items stay, so does the vault.
LEMMA VaultKept ==
  ASSUME current' = current, current # Nil => keychain'[current] = keychain[current]
  PROVE  VaultBar' = VaultBar
BY DEF VaultBar

\* A handler that was refused shows nothing.
LEMMA SameWalletStutters ==
  ASSUME SameWallet
  PROVE  UNCHANGED Vault!vaultVars
BY VaultKept DEF SameWallet, memory, Vault!vaultVars, SessionBar

\* The end of the process closes the session.
LEMMA SessionCloses ==
  ASSUME LoseMemory, VaultBar' = VaultBar
  PROVE  Vault!VaultNext
BY DEF LoseMemory, SessionBar, Vault!VaultNext, Vault!Close

\* initHDWallet loads a wallet with the password it is kept under.
LEMMA LoadOpens ==
  ASSUME WalletInv, NEW p \in UnlockPwds, LoadHDWallet(p)
  PROVE  Vault!VaultNext
<1>1. /\ current # Nil /\ LoadMasterKey(keychain[current], p) # Nil
      /\ current' = current /\ keychain' = keychain /\ inited' = TRUE /\ unlockPwd' = p
  BY DEF LoadHDWallet, IsHDWalletCreated, InitHDWalletSuccess, defaults
<1>2. Whole(keychain[current])
  BY <1>1, GoneDoesNotOpen DEF WalletInv, CurrentWalletWhole
<1>3. PICK m \in Mnemonics : IsWallet(keychain[current], m, p)
  BY <1>1, <1>2, OpensOwn
<1>4. VaultBar = [mnemonic |-> m, pwd |-> p]
  BY <1>1, <1>3, VaultBarOf DEF VaultIs
<1>5. VaultBar \in Vault!Vaults /\ VaultBar.pwd = p
  BY <1>4 DEF Vault!Vaults
<1>6. VaultBar' = VaultBar /\ SessionBar' = p
  BY <1>1, VaultKept DEF SessionBar
<1> QED BY <1>5, <1>6 DEF Vault!VaultNext, Vault!Open

\* A process killed inside a replacement loses the vault, unless it was lost
\* before; the session is over.
LEMMA CrashInReplaceLoses ==
  ASSUME WalletInv, NEW m \in Mnemonics, NEW i \in ImportIndexes,
         NEW p \in UnlockPwds, NEW list \in BOOLEAN, NEW prev \in BOOLEAN,
         CrashInReplace(m, i, p, list, prev)
  PROVE  Vault!VaultNext
<1>1. current # Nil /\ current' = current /\ LoseMemory
  BY DEF CrashInReplace, IsHDWalletCreated
<1>2. VaultBar' = LostWallet
  BY <1>1, CrashInReplaceStep, VaultBarNext DEF VaultIs
<1>3. CASE Gone(keychain[current])
  BY <1>1, <1>2, <1>3, VaultBarOf, SessionCloses DEF VaultIs
<1>4. CASE Whole(keychain[current])
  <2>1. PICK n \in Mnemonics, q \in UnlockPwds : IsWallet(keychain[current], n, q)
    BY <1>4 DEF Whole
  <2>2. VaultBar = [mnemonic |-> n, pwd |-> q]
    BY <1>1, <2>1, VaultBarOf DEF VaultIs
  <2>3. SessionBar' = Nil
    BY <1>1 DEF LoseMemory, SessionBar
  <2> QED BY <1>2, <2>2, <2>3, NilAssumption DEF Vault!VaultNext, Vault!Lose
<1> QED BY <1>1, <1>3, <1>4 DEF WalletInv, CurrentWalletWhole

-----------------------------------------------------------------------------
\* An import of any index from a restoration file is a Put or shows nothing.
LEMMA ImportMaps ==
  ASSUME WalletInv, NEW m \in Mnemonics, NEW i \in Nat, NEW p \in UnlockPwds,
         NEW delete \in BOOLEAN, NEW refused \in SUBSET LifecycleItems,
         ImportHDWallet(m, i, p, delete, refused)
  PROVE  [Vault!VaultNext]_(Vault!vaultVars)
<1>1. CASE refused = {}
  BY <1>1, ImportOutcome, NewWalletPuts
<1>2. CASE refused # {}
  BY <1>2, ImportOutcome, SameWalletStutters
<1> QED BY <1>1, <1>2

\* Every step of the wallet is a step of the vault, or shows nothing.
LEMMA WalletMaps ==
  ASSUME WalletInv, [WalletNext]_walletVars
  PROVE  [Vault!VaultNext]_(Vault!vaultVars)
<1>1. CASE InitHDWallet
  <2>1. ASSUME NEW p \in UnlockPwds, NEW m \in Mnemonics,
               NEW refused \in Refusals(LifecycleItems), CreateHDWallet(m, p, refused)
        PROVE  [Vault!VaultNext]_(Vault!vaultVars)
    <3>1. refused \in SUBSET LifecycleItems
      BY RefusalsType
    <3>2. CASE refused = {}
      BY <2>1, <3>1, <3>2, CreateOutcome, NewWalletPuts
    <3>3. CASE refused # {}
      BY <2>1, <3>1, <3>3, CreateOutcome, SameWalletStutters
    <3> QED BY <3>2, <3>3
  <2> QED BY <1>1, <2>1, LoadOpens DEF InitHDWallet
<1>2. CASE InitHDWalletWithMnemonics
  <2>1. CASE \E m \in BadMnemonics : ImportBadMnemonics(m)
    BY <2>1, VaultKept DEF ImportBadMnemonics, walletVars, defaults, memory,
                           Vault!vaultVars, SessionBar
  <2> QED BY <1>2, <2>1, ImportMaps, ImportIndexType, RefusalsType
          DEF InitHDWalletWithMnemonics
<1>3. CASE DeleteCurrentWallet
  <2>1. current' = current /\ keychain' = keychain /\ inited' = FALSE
    BY <1>3 DEF DeleteCurrentWallet, IsHDWalletCreated
  <2>2. VaultBar' = VaultBar /\ SessionBar' = Nil
    BY <2>1, VaultKept DEF SessionBar
  <2> QED BY <2>2 DEF Vault!VaultNext, Vault!Close
<1>4. CASE Restart
  BY <1>4, VaultKept, SessionCloses DEF Restart, defaults
<1>5. CASE Reinstall
  <2>1. VaultBar' = Nil
    BY <1>5, VaultBarNext DEF Reinstall, VaultIs
  <2>2. SessionBar' = Nil
    BY <1>5 DEF Reinstall, LoseMemory, SessionBar
  <2> QED BY <2>1, <2>2 DEF Vault!VaultNext, Vault!Forget
<1>6. CASE Crash
  <2>1. ASSUME NEW m \in Mnemonics, NEW i \in ImportIndexes, NEW p \in UnlockPwds,
               NEW missing, NEW prev \in BOOLEAN, CrashInSave(m, i, p, missing, prev)
        PROVE  Vault!VaultNext
    <3>1. current' = current /\ LoseMemory
      BY <2>1 DEF CrashInSave
    <3> QED BY <2>1, <3>1, CrashInSaveStep, VaultKept, SessionCloses
  <2> QED BY <1>6, <2>1, CrashInReplaceLoses DEF Crash
<1>7. CASE UNCHANGED walletVars
  BY <1>7, VaultKept DEF walletVars, defaults, memory, Vault!vaultVars, SessionBar
<1> QED BY <1>1, <1>2, <1>3, <1>4, <1>5, <1>6, <1>7 DEF WalletNext

\* A new installation has no wallet and no session, as the vault begins.
LEMMA WalletInitMaps ==
  ASSUME WalletInit PROVE Vault!VaultInit
BY VaultBarOf DEF WalletInit, VaultIs, SessionBar, Vault!VaultInit

\* WIHDWallet implements WIVault: whatever is refused or killed, the wallet and
\* its session are replaced together, in one step, or stay; only a kill inside a
\* replacement loses the wallet.
THEOREM WalletRefinesVault == WalletSpec => RefinesVault
BY WalletInitMaps, WalletMaps, WalletInvariance, PTL
   DEF WalletSpec, RefinesVault, Vault!VaultSpec
=============================================================================
