----------------------------- MODULE WIHDWallet -----------------------------
(***************************************************************************)
(* The life of a hierarchical-deterministic wallet: WIHDWallet.m and       *)
(* WIWalletManager.mm on top of the keychain and of NSUserDefaults.        *)
(*                                                                         *)
(* A wallet is a keychain domain whose name is numbered by a counter kept  *)
(* in NSUserDefaults; the counter's value stands for the name.             *)
(* NSUserDefaults also keeps the name of the current and of the previous   *)
(* wallet and, per wallet, the list of its WeIds.  The shared WIHDWallet   *)
(* object keeps the open wallet in memory.  Every handler runs to its end  *)
(* on the main queue, so it is one action; the process may be killed       *)
(* between two of its writes.                                              *)
(***************************************************************************)
EXTENDS Integers, Sequences, WICryptoUtils, WIKeychainPersistence

CONSTANTS
  Mnemonics,      \* the mnemonics a master key can be made from
  BadMnemonics,   \* texts wedpr_create_master_key refuses
  UnlockPwds,     \* unlock passwords
  ImportIndexes,  \* current indexes an import may carry
  Domains,        \* what an app calls its databases
  DbPwds,         \* random passwords of databases
  StartIndex,     \* WI_HDWALLET_START_INDEX
  MaxIndex,       \* bound on the index of a key pair
  MaxWallets      \* bound on the number of wallet names of an installation

ASSUME WalletAssumption ==
  /\ MaxWallets \in Nat \ {0}
  /\ StartIndex \in Nat /\ MaxIndex \in Nat /\ StartIndex <= MaxIndex
  /\ ImportIndexes \subseteq 0 .. MaxIndex
  /\ Mnemonics \cap BadMnemonics = {}
  /\ Nil \notin Mnemonics \cup BadMnemonics \cup UnlockPwds
  /\ Nil \notin Int

\* nil is not a key, a ciphertext, a hash or a wallet's secret with its password.
ASSUME NilAssumption ==
  \A m \in Mnemonics, p \in UnlockPwds :
    /\ [masterOf |-> m] # Nil
    /\ [mnemonic |-> m, pwd |-> p] # Nil
    /\ AesEncrypt([masterOf |-> m], HashTwice(p)) # Nil
    /\ AesEncrypt(m, HashTwice(p)) # Nil
    /\ Keccak256(HashTwice(p)) # Nil

VARIABLES
  keychain,       \* keychain[w]: the items of the domain of wallet w
  current,        \* NSUserDefaults current_wallet
  previous,       \* NSUserDefaults previous_wallet
  walletIndex,    \* NSUserDefaults wallet_index; -1 when unset
  weIdList,       \* NSUserDefaults <wallet>_wallet_weid_list
  keyStore,       \* WIHDWallet.keyStore: the domain it works on
  currentIndex,   \* WIHDWallet.currentIndex
  inited,         \* WIHDWallet.inited
  unlockPwd       \* WIHDWallet.unlockPwd

defaults == <<current, previous, walletIndex, weIdList>>
memory == <<keyStore, currentIndex, inited, unlockPwd>>
walletVars == <<keychain, defaults, memory>>

-----------------------------------------------------------------------------
(***************************************************************************)
(* Data.                                                                   *)
(***************************************************************************)
Names == 0 .. MaxWallets - 1
Indexes == StartIndex .. MaxIndex

\* __createMasterKeyFromMnemonic: Nil for a text that is no mnemonic.
MasterKey(mnemonic) ==
  IF mnemonic \in Mnemonics THEN [masterOf |-> mnemonic] ELSE Nil

\* __createKeyPair:index: derives one key pair per master key and index.
KeyPair(masterKey, index) == <<masterKey.masterOf, index>>
KeyPairs == {KeyPair(MasterKey(m), i) : m \in Mnemonics, i \in Indexes}

\* A WeId is computed from the public key it was registered with.
WeIdOf(keyPair) == <<"did:weid", keyPair>>
WeIds == {WeIdOf(k) : k \in KeyPairs}

LifecycleItems == {"master", "mnemonics", "index", "pwdHash"}

EmptyStore == [master    |-> Nil, \* wi_master_key
               mnemonics |-> Nil, \* wi_mnemonics
               index     |-> Nil, \* wi_current_index, not encrypted
               pwdHash   |-> Nil, \* wi_unlock_pwd_hash
               pairs     |-> [w \in WeIds |-> Nil], \* wi_public_key_pair_<weid>
               dbPwds    |-> [d \in Domains |-> Nil]] \* wi_domain_pwd_<wallet>_<d>

MasterKeyCiphers ==
  {AesEncrypt(MasterKey(m), HashTwice(p)) : m \in Mnemonics, p \in UnlockPwds}
MnemonicCiphers ==
  {AesEncrypt(m, HashTwice(p)) : m \in Mnemonics, p \in UnlockPwds}
DbPwdCiphers ==
  {EciesEncrypt(p, MasterKey(m)) : p \in DbPwds, m \in Mnemonics}
PwdHashes == {Keccak256(HashTwice(p)) : p \in UnlockPwds}

Stores == [master    : MasterKeyCiphers \cup {Nil},
           mnemonics : MnemonicCiphers \cup {Nil},
           index     : Nat \cup {Nil},
           pwdHash   : PwdHashes \cup {Nil},
           pairs     : [WeIds -> KeyPairs \cup {Nil}],
           dbPwds    : [Domains -> DbPwdCiphers \cup {Nil}]]

-----------------------------------------------------------------------------
(***************************************************************************)
(* Reading a domain.                                                       *)
(***************************************************************************)

\* __loadMasterKeyFromLocal: the master key, or Nil on any of its errors.
LoadMasterKey(s, pwd) ==
  IF /\ s.master # Nil
     /\ s.pwdHash # Nil
     /\ Keccak256(HashTwice(pwd)) = s.pwdHash
  THEN AesDecrypt(s.master, HashTwice(pwd))
  ELSE Nil

\* __loadWalletInfo: the index a loaded wallet goes on with; an import has the same
\* lower bound.
AtLeastStartIndex_AsGiven(i) == i
AtLeastStartIndex(i) == IF i < StartIndex THEN StartIndex ELSE i
LoadIndex(s) == IF s.index = Nil THEN StartIndex ELSE AtLeastStartIndex(s.index)

\* __loadMnemonicsInfo: the mnemonics and index handed out by an export.
LoadMnemonics(s, pwd) ==
  IF s.mnemonics = Nil \/ s.index = Nil
  THEN Nil
  ELSE AesDecrypt(s.mnemonics, HashTwice(pwd))

(***************************************************************************)
(* Writing a domain.                                                       *)
(***************************************************************************)

\* Before a name is used its domain is emptied: an earlier installation of
\* the app may have left items there, which the keychain keeps.
CleanDomain_Skipped(s) == s
CleanDomain(s) == EmptyStore

\* __saveMasterKeyToKeyStore: a batchAdd of which some adds may be refused.
SaveMasterKey_OneAdd(s, mnemonic, index, pwd, refused) ==
  [s EXCEPT !.master = Add(AesEncrypt(MasterKey(mnemonic), HashTwice(pwd)),
                           "master" \notin refused)]
SaveMasterKey(s, mnemonic, index, pwd, refused) ==
  [s EXCEPT
     !.master    = Add(AesEncrypt(MasterKey(mnemonic), HashTwice(pwd)),
                       "master" \notin refused),
     !.mnemonics = Add(AesEncrypt(mnemonic, HashTwice(pwd)),
                       "mnemonics" \notin refused),
     !.index     = Add(index, "index" \notin refused),
     !.pwdHash   = Add(Keccak256(HashTwice(pwd)), "pwdHash" \notin refused)]

-----------------------------------------------------------------------------
(***************************************************************************)
(* Pieces of the handlers.                                                 *)
(***************************************************************************)
IsHDWalletCreated == current # Nil

\* getNextWalletName: counts first, and the count is never taken back.
NextName == walletIndex + 1
TakeNextName == NextName \in Names /\ walletIndex' = NextName

\* __createNewMasterKeyAndSave and the import: clean the domain of the new name
\* and save the master key there.
SavedAsNext(mnemonic, index, pwd, refused) ==
  [keychain EXCEPT ![NextName] =
     SaveMasterKey(CleanDomain(@), mnemonic, index, pwd, refused)]

SetCurrentWallet(w) == previous' = current /\ current' = w

\* __initHDWalletSuccess
InitHDWalletSuccess_HashedPwd(w, index, pwd) ==
  /\ keyStore' = w
  /\ currentIndex' = index
  /\ inited' = TRUE
  /\ unlockPwd' = HashTwice(pwd)
InitHDWalletSuccess(w, index, pwd) ==
  /\ keyStore' = w
  /\ currentIndex' = index
  /\ inited' = TRUE
  /\ unlockPwd' = pwd

\* The process ends: the shared object is gone.
LoseMemory ==
  /\ keyStore' = Nil
  /\ currentIndex' = 0
  /\ inited' = FALSE
  /\ unlockPwd' = Nil

\* deleteWallet: the domain's items and the wallet's list of WeIds.
DeletedFrom(kc, w) == IF w = Nil THEN kc ELSE [kc EXCEPT ![w] = EmptyStore]
ForgetWeIds(lists, w) == IF w = Nil THEN lists ELSE [lists EXCEPT ![w] = <<>>]

-----------------------------------------------------------------------------
(***************************************************************************)
(* initHDWallet: does nothing when inited; loads the current wallet if     *)
(* there is one; otherwise makes a wallet from new mnemonics.              *)
(***************************************************************************)
LoadHDWallet_AnyPwd(pwd) ==
  /\ ~inited
  /\ IsHDWalletCreated
  /\ keychain[current].master # Nil
  /\ InitHDWalletSuccess(current, LoadIndex(keychain[current]), pwd)
  /\ UNCHANGED <<keychain, defaults>>
LoadHDWallet(pwd) ==
  /\ ~inited
  /\ IsHDWalletCreated
  /\ LoadMasterKey(keychain[current], pwd) # Nil
  /\ InitHDWalletSuccess(current, LoadIndex(keychain[current]), pwd)
  /\ UNCHANGED <<keychain, defaults>>

CreateHDWallet(mnemonic, pwd, refused) ==
  /\ ~inited
  /\ ~IsHDWalletCreated
  /\ TakeNextName
  /\ keychain' = SavedAsNext(mnemonic, StartIndex, pwd, refused)
  /\ UNCHANGED weIdList
  /\ IF BatchAddDone(LifecycleItems, refused)
     THEN /\ SetCurrentWallet(NextName)
          /\ InitHDWalletSuccess(NextName, StartIndex, pwd)
     ELSE UNCHANGED <<current, previous, memory>>

(***************************************************************************)
(* initHDWalletWithMnemonics and, with delete, initHDWalletWithFile.  The  *)
(* new wallet is saved under a new name first; only then is the current    *)
(* one deleted, if asked for.  A failed save deletes what it left under    *)
(* the new name, but only if there was a wallet before.                    *)
(***************************************************************************)
ImportHDWallet_DeleteFirst(mnemonic, index, pwd, delete, refused) ==
  /\ MasterKey(mnemonic) # Nil
  /\ TakeNextName
  /\ keychain' = [DeletedFrom(keychain, IF delete THEN current ELSE Nil)
                    EXCEPT ![NextName] =
                      SaveMasterKey(CleanDomain(@), mnemonic,
                                    AtLeastStartIndex(index), pwd, refused)]
  /\ UNCHANGED weIdList
  /\ IF BatchAddDone(LifecycleItems, refused)
     THEN /\ SetCurrentWallet(NextName)
          /\ InitHDWalletSuccess(NextName, AtLeastStartIndex(index), pwd)
     ELSE UNCHANGED <<current, previous, memory>>
ImportHDWallet(mnemonic, index, pwd, delete, refused) ==
  /\ MasterKey(mnemonic) # Nil
  /\ TakeNextName
  /\ LET kc == SavedAsNext(mnemonic, AtLeastStartIndex(index), pwd, refused)
         old == IF delete THEN current ELSE Nil
     IN IF BatchAddDone(LifecycleItems, refused)
        THEN /\ keychain' = DeletedFrom(kc, old)
             /\ weIdList' = ForgetWeIds(weIdList, old)
             /\ SetCurrentWallet(NextName)
             /\ InitHDWalletSuccess(NextName, AtLeastStartIndex(index), pwd)
        ELSE LET new == IF IsHDWalletCreated THEN NextName ELSE Nil
             IN /\ keychain' = DeletedFrom(kc, new)
                /\ weIdList' = ForgetWeIds(weIdList, new)
                /\ UNCHANGED <<current, previous, memory>>

\* Without a mnemonic there is no master key, and nothing is written.
ImportBadMnemonics(mnemonic) ==
  /\ MasterKey(mnemonic) = Nil
  /\ UNCHANGED walletVars

(***************************************************************************)
(* deleteCurrentWallet returns when a wallet IS created, so that only the  *)
(* reset of an unset name and unInit are ever reached.                     *)
(***************************************************************************)
DeleteCurrentWallet ==
  /\ ~IsHDWalletCreated
  /\ current' = Nil
  /\ inited' = FALSE
  /\ UNCHANGED <<keychain, previous, walletIndex, weIdList,
                 keyStore, currentIndex, unlockPwd>>

-----------------------------------------------------------------------------
(***************************************************************************)
(* What happens to the process and to the app.                             *)
(***************************************************************************)
Restart ==
  /\ LoseMemory
  /\ UNCHANGED <<keychain, defaults>>

\* The app is removed and installed again: NSUserDefaults is emptied, the
\* keychain is not.
Reinstall ==
  /\ LoseMemory
  /\ current' = Nil
  /\ previous' = Nil
  /\ walletIndex' = -1
  /\ weIdList' = [w \in Names |-> <<>>]
  /\ UNCHANGED keychain

\* Killed after the new name is taken: the domain may not be cleaned yet, some
\* items may be missing; the last write before the switch is previous_wallet.
CrashInSave(mnemonic, index, pwd, missing, previousWritten) ==
  /\ TakeNextName
  /\ \/ keychain' = keychain
     \/ keychain' = SavedAsNext(mnemonic, AtLeastStartIndex(index), pwd, missing)
  /\ previous' = IF missing = {} /\ previousWritten THEN current ELSE previous
  /\ LoseMemory
  /\ UNCHANGED <<current, weIdList>>

\* Killed between the writes that replace the current wallet: it is deleted,
\* its list and the name of the previous wallet may be written or not.
CrashInReplace(mnemonic, index, pwd, listWritten, previousWritten) ==
  /\ IsHDWalletCreated
  /\ TakeNextName
  /\ keychain' = DeletedFrom(
                   SavedAsNext(mnemonic, AtLeastStartIndex(index), pwd, {}), current)
  /\ weIdList' = IF listWritten THEN ForgetWeIds(weIdList, current) ELSE weIdList
  /\ previous' = IF listWritten /\ previousWritten THEN current ELSE previous
  /\ LoseMemory
  /\ UNCHANGED current

-----------------------------------------------------------------------------
WalletInit ==
  /\ keychain = [w \in Names |-> EmptyStore]
  /\ current = Nil
  /\ previous = Nil
  /\ walletIndex = -1
  /\ weIdList = [w \in Names |-> <<>>]
  /\ keyStore = Nil
  /\ currentIndex = 0
  /\ inited = FALSE
  /\ unlockPwd = Nil

InitHDWallet ==
  \E pwd \in UnlockPwds :
    \/ LoadHDWallet(pwd)
    \/ \E m \in Mnemonics, refused \in Refusals(LifecycleItems) :
         CreateHDWallet(m, pwd, refused)

InitHDWalletWithMnemonics ==
  \/ \E m \in Mnemonics, i \in ImportIndexes, pwd \in UnlockPwds,
        delete \in BOOLEAN, refused \in Refusals(LifecycleItems) :
       ImportHDWallet(m, i, pwd, delete, refused)
  \/ \E m \in BadMnemonics : ImportBadMnemonics(m)

Crash ==
  \E m \in Mnemonics, i \in ImportIndexes, pwd \in UnlockPwds :
    \/ \E missing \in SUBSET LifecycleItems, prev \in BOOLEAN :
         CrashInSave(m, i, pwd, missing, prev)
    \/ \E list, prev \in BOOLEAN : CrashInReplace(m, i, pwd, list, prev)

WalletNext ==
  \/ InitHDWallet
  \/ InitHDWalletWithMnemonics
  \/ DeleteCurrentWallet
  \/ Restart
  \/ Reinstall
  \/ Crash

WalletSpec == WalletInit /\ [][WalletNext]_walletVars

-----------------------------------------------------------------------------
(***************************************************************************)
(* Properties.                                                             *)
(***************************************************************************)

\* Every item and every default is of the kind the code writes there.
WalletTypeOK ==
  /\ keychain \in [Names -> Stores]
  /\ current \in Names \cup {Nil}
  /\ previous \in Names \cup {Nil}
  /\ walletIndex \in -1 .. MaxWallets - 1
  /\ weIdList \in [Names -> Seq(WeIds)]
  /\ keyStore \in Names \cup {Nil}
  /\ currentIndex \in Nat
  /\ inited \in BOOLEAN
  /\ unlockPwd \in UnlockPwds \cup {Nil}

\* The four items of a wallet made from one mnemonic and one password.
IsWallet(s, m, pwd) ==
  /\ LoadMasterKey(s, pwd) = MasterKey(m)
  /\ LoadMnemonics(s, pwd) = m

Whole(s) == \E m \in Mnemonics, pwd \in UnlockPwds : IsWallet(s, m, pwd)

Gone(s) == s.master = Nil /\ s.mnemonics = Nil /\ s.index = Nil /\ s.pwdHash = Nil

\* The wallet current_wallet names is whole, so that its password opens it
\* and its exported mnemonics give back its master key, or it is deleted: a
\* refused add (__saveMasterKeyToKeyStore) or a killed process never makes a
\* part of a wallet the current one.
CurrentWalletWhole ==
  current # Nil => Whole(keychain[current]) \/ Gone(keychain[current])

\* While the wallet is inited, the domain in memory is the current wallet's and
\* the password in memory opens it, so __createKeyPair and __getMnemonics, which
\* reload the domain with that password, succeed; and the index in memory is not
\* behind the stored one (addAndUpdateCurrentIndex writes memory first).
SessionOpens ==
  inited =>
    /\ keyStore = current
    /\ current # Nil
    /\ \E m \in Mnemonics : IsWallet(keychain[current], m, unlockPwd)
    /\ currentIndex >= keychain[current].index

\* The inductive invariant behind the two properties above: names are handed
\* out upwards, so a new wallet never gets the current wallet's name.
NamesTaken == current # Nil => current <= walletIndex
WalletInv == WalletTypeOK /\ NamesTaken /\ CurrentWalletWhole /\ SessionOpens

\* Whatever fails or is interrupted, a step leaves the items of the current
\* wallet alone unless a whole new wallet is already saved under the newest
\* name (the order of __initHDWalletWithMnemonics: save, then delete).
ReplacedOnlyByWhole ==
  [][current # Nil =>
       \/ keychain'[current] = keychain[current]
       \/ Gone(keychain'[current]) /\ Whole(keychain'[walletIndex'])]_walletVars

\* The vault of WIVault as the wallet implements it.
VaultOf(s) ==
  CHOOSE v \in [mnemonic : Mnemonics, pwd : UnlockPwds] : IsWallet(s, v.mnemonic, v.pwd)

LostWallet == [mnemonic |-> Nil, pwd |-> Nil]

VaultBar ==
  CASE current = Nil -> Nil
    [] current # Nil /\ Gone(keychain[current]) -> LostWallet
    [] OTHER -> VaultOf(keychain[current])

SessionBar == IF inited THEN unlockPwd ELSE Nil

Vault ==
  INSTANCE WIVault WITH
    Secrets <- Mnemonics, Pwds <- UnlockPwds, Empty <- Nil, Lost <- LostWallet,
    vault <- VaultBar, session <- SessionBar

\* The wallet implements the vault: every handler, whatever is refused, replaces
\* the wallet and the session in one step or leaves both alone, and only a kill
\* inside a replacement loses it.
RefinesVault == Vault!VaultSpec
=============================================================================
