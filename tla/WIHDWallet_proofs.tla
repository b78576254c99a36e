------------------------- MODULE WIHDWallet_proofs -------------------------
(***************************************************************************)
(* Proofs about the life of a wallet, for every set of mnemonics and       *)
(* passwords and every number of wallets, with refused adds and killed     *)
(* processes anywhere.                                                     *)
(***************************************************************************)
EXTENDS WIHDWallet, TLAPS

\* Equal password hashes come from equal passwords (__loadMasterKeyFromLocal).
LEMMA PwdHashInjective ==
  ASSUME NEW p, NEW q, Keccak256(HashTwice(p)) = Keccak256(HashTwice(q))
  PROVE  p = q
BY DEF Keccak256, HashTwice

\* A mnemonic has a master key.
LEMMA MasterKeyExists ==
  ASSUME NEW m \in Mnemonics, NEW p \in UnlockPwds
  PROVE  MasterKey(m) = [masterOf |-> m] /\ MasterKey(m) # Nil
BY NilAssumption DEF MasterKey

\* What is encrypted with a key is decrypted with it.
LEMMA DecryptEncrypt ==
  ASSUME NEW x, NEW k
  PROVE  AesDecrypt(AesEncrypt(x, k), k) = x
BY DEF AesDecrypt, AesEncrypt

\* A cleaned domain is a domain without items.
LEMMA EmptyStoreGone == EmptyStore \in Stores /\ Gone(EmptyStore)
BY DEF EmptyStore, Stores, Gone

\* Cleaning keeps the kinds of the items.
LEMMA CleanedType ==
  ASSUME NEW s PROVE CleanDomain(s) \in Stores
BY EmptyStoreGone DEF CleanDomain

\* __saveMasterKeyToKeyStore writes items of the right kinds, whichever adds
\* are refused.
LEMMA SaveType ==
  ASSUME NEW s \in Stores, NEW m \in Mnemonics, NEW i \in Nat,
         NEW p \in UnlockPwds, NEW refused
  PROVE  SaveMasterKey(s, m, i, p, refused) \in Stores
<1>1. /\ AesEncrypt(MasterKey(m), HashTwice(p)) \in MasterKeyCiphers
      /\ AesEncrypt(m, HashTwice(p)) \in MnemonicCiphers
      /\ Keccak256(HashTwice(p)) \in PwdHashes
  BY DEF MasterKeyCiphers, MnemonicCiphers, PwdHashes
<1> QED BY <1>1 DEF SaveMasterKey, Stores, Add

\* When no add is refused, the password opens what was saved.
LEMMA SaveWhole ==
  ASSUME NEW s \in Stores, NEW m \in Mnemonics, NEW i \in Nat,
         NEW p \in UnlockPwds
  PROVE  /\ IsWallet(SaveMasterKey(s, m, i, p, {}), m, p)
         /\ SaveMasterKey(s, m, i, p, {}).index = i
<1> DEFINE t == SaveMasterKey(s, m, i, p, {})
<1>1. /\ t.master = AesEncrypt(MasterKey(m), HashTwice(p))
      /\ t.mnemonics = AesEncrypt(m, HashTwice(p))
      /\ t.index = i
      /\ t.pwdHash = Keccak256(HashTwice(p))
  BY DEF SaveMasterKey, Stores, Add
<1>2. t.master # Nil /\ t.mnemonics # Nil /\ t.pwdHash # Nil
  BY <1>1, MasterKeyExists, NilAssumption
<1>3. t.index # Nil
  BY <1>1, WalletAssumption
<1> HIDE DEF t
<1>4. LoadMasterKey(t, p) = MasterKey(m)
  BY <1>1, <1>2, DecryptEncrypt DEF LoadMasterKey
<1>5. LoadMnemonics(t, p) = m
  BY <1>1, <1>2, <1>3, DecryptEncrypt DEF LoadMnemonics
<1> QED BY <1>1, <1>4, <1>5 DEF IsWallet, t

\* A password that opens a whole wallet is the one it was saved with.
LEMMA OpensOwn ==
  ASSUME NEW s, NEW p \in UnlockPwds, Whole(s), LoadMasterKey(s, p) # Nil
  PROVE  \E m \in Mnemonics : IsWallet(s, m, p)
<1>1. PICK m \in Mnemonics, q \in UnlockPwds : IsWallet(s, m, q)
  BY DEF Whole
<1>2. LoadMasterKey(s, q) # Nil
  BY <1>1, MasterKeyExists DEF IsWallet
<1>3. Keccak256(HashTwice(p)) = s.pwdHash /\ Keccak256(HashTwice(q)) = s.pwdHash
  BY <1>2 DEF LoadMasterKey
<1>4. p = q
  BY <1>3, PwdHashInjective
<1> QED BY <1>1, <1>4

\* The lower bound of an index is a natural number.
LEMMA IndexType == ASSUME NEW i \in Nat PROVE AtLeastStartIndex(i) \in Nat
BY WalletAssumption DEF AtLeastStartIndex

\* A new wallet starts at the first index.
LEMMA StartIndexKept == AtLeastStartIndex(StartIndex) = StartIndex /\ StartIndex \in Nat
BY WalletAssumption DEF AtLeastStartIndex

\* deleteWallet empties one domain and leaves the others.
LEMMA DeletedDomain ==
  ASSUME NEW kc \in [Names -> Stores], NEW w \in Names \cup {Nil}
  PROVE  /\ DeletedFrom(kc, w) \in [Names -> Stores]
         /\ \A v \in Names : v # w => DeletedFrom(kc, w)[v] = kc[v]
         /\ w # Nil => DeletedFrom(kc, w)[w] = EmptyStore
BY EmptyStoreGone DEF DeletedFrom

\* deleteWallet keeps the lists lists of WeIds.
LEMMA ForgottenType ==
  ASSUME NEW lists \in [Names -> Seq(WeIds)], NEW w \in Names \cup {Nil}
  PROVE  ForgetWeIds(lists, w) \in [Names -> Seq(WeIds)]
<1> DEFINE S == Seq(WeIds)
<1>1. <<>> \in S
  OBVIOUS
<1>2. lists \in [Names -> S]
  OBVIOUS
<1> HIDE DEF S
<1>3. ForgetWeIds(lists, w) \in [Names -> S]
  BY <1>1, <1>2 DEF ForgetWeIds
<1> QED BY <1>3 DEF S

-----------------------------------------------------------------------------
(***************************************************************************)
(* A new wallet gets a name above every name in use.                       *)
(***************************************************************************)

\* nil is not the name of a wallet.
LEMMA NilIsNoName == Nil \notin Names
BY WalletAssumption DEF Names

\* getNextWalletName: the name it counts to is not the current one.
LEMMA NextNameFree ==
  ASSUME WalletTypeOK, NamesTaken, TakeNextName
  PROVE  /\ NextName \in Names
         /\ current # NextName
         /\ walletIndex' = NextName
         /\ walletIndex' \in -1 .. MaxWallets - 1
         /\ current # Nil => current <= walletIndex'
<1>1. NextName \in Names /\ walletIndex' = NextName
  BY DEF TakeNextName
<1>2. NextName = walletIndex + 1 /\ walletIndex \in Int
  BY WalletAssumption DEF NextName, WalletTypeOK
<1>3. current # Nil => current <= walletIndex /\ current \in Int
  BY DEF NamesTaken, WalletTypeOK, Names
<1>4. NextName \in -1 .. MaxWallets - 1
  BY <1>1, WalletAssumption DEF Names
<1>5. current # NextName
  BY <1>1, <1>2, <1>3, NilIsNoName
<1> QED BY <1>1, <1>2, <1>3, <1>4, <1>5

\* Saving under the new name leaves the other domains alone.
LEMMA SavedAsNextDomain ==
  ASSUME WalletTypeOK, NextName \in Names,
         NEW m \in Mnemonics, NEW i \in Nat, NEW p \in UnlockPwds, NEW refused
  PROVE  /\ SavedAsNext(m, i, p, refused) \in [Names -> Stores]
         /\ \A v \in Names : v # NextName => SavedAsNext(m, i, p, refused)[v] = keychain[v]
         /\ refused = {} => /\ IsWallet(SavedAsNext(m, i, p, refused)[NextName], m, p)
                            /\ SavedAsNext(m, i, p, refused)[NextName].index = i
<1> DEFINE t == SaveMasterKey(CleanDomain(keychain[NextName]), m, i, p, refused)
<1>1. t \in Stores
  BY CleanedType, SaveType
<1>2. refused = {} => IsWallet(t, m, p) /\ t.index = i
  BY CleanedType, SaveWhole
<1> HIDE DEF t
<1>3. keychain \in [Names -> Stores]
  BY DEF WalletTypeOK
<1>4. SavedAsNext(m, i, p, refused) = [keychain EXCEPT ![NextName] = t]
  BY DEF SavedAsNext, t
<1> QED BY <1>1, <1>2, <1>3, <1>4

-----------------------------------------------------------------------------
(***************************************************************************)
(* The inductive invariant, action by action.                              *)
(***************************************************************************)

\* An import index is a natural number.
LEMMA ImportIndexType ==
  ASSUME NEW i \in ImportIndexes
  PROVE  i \in Nat /\ AtLeastStartIndex(i) \in Nat
BY WalletAssumption, IndexType

\* After the end of the process nothing is left in memory.
LEMMA NoMemory ==
  ASSUME LoseMemory
  PROVE  /\ keyStore' \in Names \cup {Nil} /\ currentIndex' \in Nat
         /\ inited' \in BOOLEAN /\ unlockPwd' \in UnlockPwds \cup {Nil}
         /\ SessionOpens'
BY DEF LoseMemory, SessionOpens

\* A deleted domain does not open.
LEMMA GoneDoesNotOpen ==
  ASSUME NEW s, NEW p, Gone(s)
  PROVE  LoadMasterKey(s, p) = Nil
BY DEF Gone, LoadMasterKey

\* initHDWallet loads only a whole wallet, with its own password, and goes on
\* with an index that is not behind the stored one.
LEMMA LoadStep ==
  ASSUME WalletInv, NEW p \in UnlockPwds, LoadHDWallet(p)
  PROVE  WalletInv'
<1> DEFINE s == keychain[current]
<1>1. /\ current \in Names /\ current # Nil
      /\ s \in Stores
      /\ LoadMasterKey(s, p) # Nil
      /\ keyStore' = current /\ currentIndex' = LoadIndex(s)
      /\ inited' = TRUE /\ unlockPwd' = p
      /\ keychain' = keychain /\ current' = current /\ previous' = previous
      /\ walletIndex' = walletIndex /\ weIdList' = weIdList
  BY DEF WalletInv, WalletTypeOK, LoadHDWallet, IsHDWalletCreated,
         InitHDWalletSuccess, defaults
<1>2. Whole(s)
  BY <1>1, GoneDoesNotOpen DEF WalletInv, CurrentWalletWhole
<1>3. PICK m \in Mnemonics : IsWallet(s, m, p)
  BY <1>1, <1>2, OpensOwn
<1>4. s.index \in Nat
  <2>1. LoadMnemonics(s, p) # Nil
    BY <1>3, WalletAssumption DEF IsWallet
  <2>2. s.index # Nil
    BY <2>1 DEF LoadMnemonics
  <2> QED BY <1>1, <2>2 DEF Stores
<1>5. currentIndex' \in Nat /\ currentIndex' >= s.index
  BY <1>1, <1>4, WalletAssumption DEF LoadIndex, AtLeastStartIndex
<1>6. WalletTypeOK'
  BY <1>1, <1>5 DEF WalletInv, WalletTypeOK
<1>7. NamesTaken' /\ CurrentWalletWhole'
  BY <1>1 DEF WalletInv, NamesTaken, CurrentWalletWhole
<1>8. SessionOpens'
  BY <1>1, <1>3, <1>5 DEF SessionOpens
<1> QED BY <1>6, <1>7, <1>8 DEF WalletInv

\* A wallet saved without a refusal and made current is whole, and open.
LEMMA SwitchStep ==
  ASSUME WalletInv, TakeNextName,
         NEW m \in Mnemonics, NEW i \in Nat, NEW p \in UnlockPwds,
         keychain' \in [Names -> Stores],
         IsWallet(keychain'[NextName], m, p),
         keychain'[NextName].index = i,
         weIdList' \in [Names -> Seq(WeIds)],
         SetCurrentWallet(NextName),
         InitHDWalletSuccess(NextName, i, p)
  PROVE  WalletInv'
<1>1. /\ current' = NextName /\ previous' = current /\ keyStore' = NextName
      /\ currentIndex' = i /\ inited' = TRUE /\ unlockPwd' = p
  BY DEF SetCurrentWallet, InitHDWalletSuccess
<1>2. /\ NextName \in Names /\ NextName # Nil /\ NextName \in Int
      /\ walletIndex' = NextName /\ walletIndex' \in -1 .. MaxWallets - 1
  BY NextNameFree, NilIsNoName DEF WalletInv, Names
<1>3. WalletTypeOK'
  BY <1>1, <1>2 DEF WalletInv, WalletTypeOK
<1>4. NamesTaken'
  BY <1>1, <1>2 DEF NamesTaken
<1>5. CurrentWalletWhole'
  BY <1>1 DEF CurrentWalletWhole, Whole
<1>6. SessionOpens'
  BY <1>1, <1>2 DEF SessionOpens
<1> QED BY <1>3, <1>4, <1>5, <1>6 DEF WalletInv

\* A handler that only writes under the new name keeps the invariant.
LEMMA KeepStep ==
  ASSUME WalletInv, TakeNextName,
         keychain' \in [Names -> Stores],
         current # Nil => keychain'[current] = keychain[current],
         weIdList' \in [Names -> Seq(WeIds)],
         current' = current,
         previous' \in Names \cup {Nil}
  PROVE  /\ UNCHANGED memory => WalletInv'
         /\ LoseMemory => WalletInv'
<1>1. /\ walletIndex' \in -1 .. MaxWallets - 1
      /\ current # Nil => current <= walletIndex'
  BY NextNameFree DEF WalletInv
<1>2. NamesTaken' /\ CurrentWalletWhole'
  BY <1>1 DEF WalletInv, NamesTaken, CurrentWalletWhole
<1>3. ASSUME UNCHANGED memory PROVE WalletInv'
  <2>1. WalletTypeOK'
    BY <1>1, <1>3 DEF WalletInv, WalletTypeOK, memory
  <2>2. SessionOpens'
    BY <1>3 DEF WalletInv, SessionOpens, memory
  <2> QED BY <1>2, <2>1, <2>2 DEF WalletInv
<1>4. ASSUME LoseMemory PROVE WalletInv'
  <2>1. WalletTypeOK'
    BY <1>1, <1>4, NoMemory DEF WalletInv, WalletTypeOK
  <2> QED BY <1>2, <1>4, <2>1, NoMemory DEF WalletInv
<1> QED BY <1>3, <1>4

\* A handler that ends with a new wallet, open with p, at the index i.
NewWallet(m, i, p) ==
  /\ IsWallet(keychain'[NextName], m, p)
  /\ keychain'[NextName].index = i
  /\ SetCurrentWallet(NextName)
  /\ InitHDWalletSuccess(NextName, i, p)

\* A handler that ends with the wallet and the session it began with.
SameWallet ==
  /\ UNCHANGED <<current, previous, memory>>
  /\ current # Nil => keychain'[current] = keychain[current]

\* Either way only the new name was taken, and every item has its kind.
NewNameOnly ==
  /\ TakeNextName
  /\ keychain' \in [Names -> Stores]
  /\ weIdList' \in [Names -> Seq(WeIds)]

\* initHDWallet with new mnemonics: a whole new wallet, or none as before.
LEMMA CreateOutcome ==
  ASSUME WalletInv, NEW m \in Mnemonics, NEW p \in UnlockPwds,
         NEW refused \in SUBSET LifecycleItems, CreateHDWallet(m, p, refused)
  PROVE  /\ NewNameOnly
         /\ IF refused = {} THEN NewWallet(m, StartIndex, p) ELSE SameWallet
<1>1. TakeNextName /\ WalletTypeOK /\ NextName \in Names
  BY DEF CreateHDWallet, WalletInv, TakeNextName
<1>2. /\ keychain' = SavedAsNext(m, StartIndex, p, refused)
      /\ weIdList' = weIdList
  BY DEF CreateHDWallet
<1>3. weIdList' \in [Names -> Seq(WeIds)]
  BY <1>1, <1>2 DEF WalletTypeOK
<1>4. keychain' \in [Names -> Stores]
  BY <1>1, <1>2, SavedAsNextDomain, StartIndexKept
<1>5. CASE refused = {}
  <2>1. BatchAddDone(LifecycleItems, refused)
    BY <1>5 DEF BatchAddDone, LifecycleItems
  <2>2. /\ IsWallet(keychain'[NextName], m, p)
        /\ keychain'[NextName].index = StartIndex
    BY <1>1, <1>2, <1>5, SavedAsNextDomain, StartIndexKept
  <2>3. SetCurrentWallet(NextName) /\ InitHDWalletSuccess(NextName, StartIndex, p)
    BY <2>1 DEF CreateHDWallet
  <2> QED BY <1>1, <1>3, <1>4, <1>5, <2>2, <2>3 DEF NewNameOnly, NewWallet
<1>6. CASE refused # {}
  <2>1. ~BatchAddDone(LifecycleItems, refused)
    BY <1>6 DEF BatchAddDone
  <2>2. UNCHANGED <<current, previous, memory>> /\ current = Nil
    BY <2>1 DEF CreateHDWallet, IsHDWalletCreated
  <2> QED BY <1>1, <1>3, <1>4, <1>6, <2>2 DEF NewNameOnly, SameWallet
<1> QED BY <1>5, <1>6

\* initHDWalletWithMnemonics: a whole new wallet, and the old one deleted if that
\* was asked for; or the old one as before.
LEMMA ImportOutcome ==
  ASSUME WalletInv, NEW m \in Mnemonics, NEW i \in Nat,
         NEW p \in UnlockPwds, NEW delete \in BOOLEAN,
         NEW refused \in SUBSET LifecycleItems,
         ImportHDWallet(m, i, p, delete, refused)
  PROVE  /\ NewNameOnly
         /\ IF refused = {}
            THEN /\ NewWallet(m, AtLeastStartIndex(i), p)
                 /\ current # Nil =>
                      keychain'[current] = IF delete THEN EmptyStore ELSE keychain[current]
            ELSE SameWallet
<1> DEFINE j == AtLeastStartIndex(i)
           kc == SavedAsNext(m, j, p, refused)
           old == IF delete THEN current ELSE Nil
           new == IF IsHDWalletCreated THEN NextName ELSE Nil
<1>1. TakeNextName /\ WalletTypeOK /\ NextName \in Names /\ j \in Nat
  BY IndexType DEF ImportHDWallet, WalletInv, TakeNextName
<1>2. /\ current \in Names \cup {Nil} /\ weIdList \in [Names -> Seq(WeIds)]
      /\ old \in Names \cup {Nil} /\ new \in Names \cup {Nil}
  BY <1>1 DEF WalletTypeOK
<1>3. current # NextName /\ NextName # Nil
  BY <1>1, NextNameFree, NilIsNoName DEF WalletInv
<1>4. /\ kc \in [Names -> Stores]
      /\ \A v \in Names : v # NextName => kc[v] = keychain[v]
  BY <1>1, SavedAsNextDomain
<1>5. CASE refused = {}
  <2>1. BatchAddDone(LifecycleItems, refused)
    BY <1>5 DEF BatchAddDone, LifecycleItems
  <2>2. /\ keychain' = DeletedFrom(kc, old)
        /\ weIdList' = ForgetWeIds(weIdList, old)
        /\ SetCurrentWallet(NextName)
        /\ InitHDWalletSuccess(NextName, j, p)
    BY <2>1 DEF ImportHDWallet
  <2>3. IsWallet(kc[NextName], m, p) /\ kc[NextName].index = j
    BY <1>1, <1>5, SavedAsNextDomain
  <2>4. NextName # old /\ (current # Nil => old = IF delete THEN current ELSE Nil)
    BY <1>3
  <2> HIDE DEF j, kc, old, new
  <2>5. /\ keychain' \in [Names -> Stores]
        /\ keychain'[NextName] = kc[NextName]
        /\ current # Nil =>
             keychain'[current] = IF delete THEN EmptyStore ELSE keychain[current]
    <3>1. current # Nil => current \in Names /\ kc[current] = keychain[current]
      BY <1>2, <1>3, <1>4
    <3>2. /\ keychain' \in [Names -> Stores]
          /\ keychain'[NextName] = kc[NextName]
      BY <1>1, <1>2, <1>4, <2>2, <2>4, DeletedDomain
    <3>3. current # Nil =>
            keychain'[current] = IF delete THEN EmptyStore ELSE keychain[current]
      BY <1>2, <1>4, <2>2, <2>4, <3>1, DeletedDomain
    <3> QED BY <3>2, <3>3
  <2>6. weIdList' \in [Names -> Seq(WeIds)]
    BY <1>2, <2>2, ForgottenType
  <2>7. NewWallet(m, j, p)
    BY <2>2, <2>3, <2>5 DEF NewWallet
  <2> QED BY <1>1, <1>5, <2>5, <2>6, <2>7 DEF NewNameOnly, j
<1>6. CASE refused # {}
  <2>1. ~BatchAddDone(LifecycleItems, refused)
    BY <1>6 DEF BatchAddDone
  <2>2. /\ keychain' = DeletedFrom(kc, new)
        /\ weIdList' = ForgetWeIds(weIdList, new)
        /\ UNCHANGED <<current, previous, memory>>
    BY <2>1 DEF ImportHDWallet
  <2>3. current # Nil => current # new
    BY <1>3
  <2> HIDE DEF j, kc, old, new
  <2>4. /\ keychain' \in [Names -> Stores]
        /\ current # Nil => keychain'[current] = keychain[current]
    BY <1>2, <1>3, <1>4, <2>2, <2>3, DeletedDomain
  <2>5. weIdList' \in [Names -> Seq(WeIds)]
    BY <1>2, <2>2, ForgottenType
  <2> QED BY <1>1, <1>6, <2>2, <2>4, <2>5 DEF NewNameOnly, SameWallet
<1> QED BY <1>5, <1>6

\* Either outcome keeps the invariant.
LEMMA OutcomeStep ==
  ASSUME WalletInv, NewNameOnly
  PROVE  /\ SameWallet => WalletInv'
         /\ \A m \in Mnemonics, i \in Nat, p \in UnlockPwds : NewWallet(m, i, p) => WalletInv'
<1>1. ASSUME SameWallet PROVE WalletInv'
  <2>1. previous' \in Names \cup {Nil}
    BY <1>1 DEF SameWallet, WalletInv, WalletTypeOK
  <2> QED BY <1>1, <2>1, KeepStep DEF NewNameOnly, SameWallet
<1>2. ASSUME NEW m \in Mnemonics, NEW i \in Nat, NEW p \in UnlockPwds, NewWallet(m, i, p)
      PROVE  WalletInv'
  BY <1>2, SwitchStep DEF NewNameOnly, NewWallet
<1> QED BY <1>1, <1>2

\* initHDWallet with new mnemonics keeps the invariant.
LEMMA CreateStep ==
  ASSUME WalletInv, NEW m \in Mnemonics, NEW p \in UnlockPwds,
         NEW refused \in SUBSET LifecycleItems, CreateHDWallet(m, p, refused)
  PROVE  WalletInv'
BY CreateOutcome, OutcomeStep, StartIndexKept

\* initHDWalletWithMnemonics keeps the invariant.
LEMMA ImportStep ==
  ASSUME WalletInv, NEW m \in Mnemonics, NEW i \in Nat,
         NEW p \in UnlockPwds, NEW delete \in BOOLEAN,
         NEW refused \in SUBSET LifecycleItems,
         ImportHDWallet(m, i, p, delete, refused)
  PROVE  WalletInv'
<1>1. AtLeastStartIndex(i) \in Nat
  BY IndexType
<1> QED BY <1>1, ImportOutcome, OutcomeStep

\* A process killed while it saves a new wallet has not touched the current one.
LEMMA CrashInSaveStep ==
  ASSUME WalletInv, NEW m \in Mnemonics, NEW i \in ImportIndexes,
         NEW p \in UnlockPwds, NEW missing, NEW prev \in BOOLEAN,
         CrashInSave(m, i, p, missing, prev)
  PROVE  WalletInv' /\ (current # Nil => keychain'[current] = keychain[current])
<1> DEFINE kc == SavedAsNext(m, AtLeastStartIndex(i), p, missing)
<1>1. TakeNextName /\ WalletTypeOK /\ NextName \in Names /\ current # NextName
  BY NextNameFree DEF CrashInSave, WalletInv
<1>2. /\ kc \in [Names -> Stores]
      /\ \A v \in Names : v # NextName => kc[v] = keychain[v]
  BY <1>1, SavedAsNextDomain, ImportIndexType
<1>3. /\ keychain' = keychain \/ keychain' = kc
      /\ previous' = current \/ previous' = previous
      /\ current' = current /\ weIdList' = weIdList /\ LoseMemory
  BY DEF CrashInSave
<1> HIDE DEF kc
<1>4. /\ keychain' \in [Names -> Stores]
      /\ current # Nil => keychain'[current] = keychain[current]
      /\ previous' \in Names \cup {Nil}
  BY <1>1, <1>2, <1>3 DEF WalletTypeOK
<1>5. weIdList' \in [Names -> Seq(WeIds)]
  BY <1>1, <1>3 DEF WalletTypeOK
<1> QED BY <1>1, <1>3, <1>4, <1>5, KeepStep

\* A process killed while it replaces the current wallet leaves it deleted, with
\* a whole wallet under the new name.
LEMMA CrashInReplaceStep ==
  ASSUME WalletInv, NEW m \in Mnemonics, NEW i \in ImportIndexes,
         NEW p \in UnlockPwds, NEW list \in BOOLEAN, NEW prev \in BOOLEAN,
         CrashInReplace(m, i, p, list, prev)
  PROVE  /\ WalletInv'
         /\ Gone(keychain'[current])
         /\ Whole(keychain'[walletIndex'])
<1> DEFINE kc == SavedAsNext(m, AtLeastStartIndex(i), p, {})
<1>1. /\ TakeNextName /\ WalletTypeOK /\ NextName \in Names /\ current # NextName
      /\ walletIndex' = NextName /\ walletIndex' \in -1 .. MaxWallets - 1
      /\ current # Nil => current <= walletIndex'
  BY NextNameFree DEF CrashInReplace, WalletInv
<1>2. kc \in [Names -> Stores] /\ IsWallet(kc[NextName], m, p)
  BY <1>1, SavedAsNextDomain, ImportIndexType
<1>3. /\ keychain' = DeletedFrom(kc, current)
      /\ previous' = current \/ previous' = previous
      /\ weIdList' = ForgetWeIds(weIdList, current) \/ weIdList' = weIdList
      /\ current' = current /\ current # Nil /\ LoseMemory
  BY DEF CrashInReplace, IsHDWalletCreated
<1> HIDE DEF kc
<1>4. /\ current \in Names /\ weIdList \in [Names -> Seq(WeIds)]
      /\ previous' \in Names \cup {Nil}
  BY <1>1, <1>3 DEF WalletTypeOK
<1>5. /\ keychain' \in [Names -> Stores]
      /\ keychain'[current] = EmptyStore
      /\ keychain'[NextName] = kc[NextName]
  BY <1>1, <1>2, <1>3, <1>4, DeletedDomain
<1>6. weIdList' \in [Names -> Seq(WeIds)]
  BY <1>3, <1>4, ForgottenType
<1>7. WalletTypeOK'
  BY <1>1, <1>3, <1>4, <1>5, <1>6, NoMemory DEF WalletTypeOK
<1>8. Gone(keychain'[current])
  BY <1>5, EmptyStoreGone
<1>9. Whole(keychain'[walletIndex'])
  BY <1>1, <1>2, <1>5 DEF Whole
<1>10. NamesTaken' /\ CurrentWalletWhole'
  BY <1>1, <1>3, <1>8 DEF NamesTaken, CurrentWalletWhole
<1> QED BY <1>3, <1>7, <1>8, <1>9, <1>10, NoMemory DEF WalletInv

\* Refused adds are a set of the four items.
LEMMA RefusalsType == Refusals(LifecycleItems) \subseteq SUBSET LifecycleItems
BY DEF Refusals

\* A new installation has no wallet and no session.
LEMMA WalletInitInv ==
  ASSUME WalletInit PROVE WalletInv
<1> DEFINE S == Seq(WeIds)
<1>1. <<>> \in S
  OBVIOUS
<1> HIDE DEF S
<1>2. weIdList \in [Names -> S]
  BY <1>1 DEF WalletInit
<1>3. keychain \in [Names -> Stores]
  BY EmptyStoreGone DEF WalletInit
<1>4. weIdList \in [Names -> Seq(WeIds)]
  BY <1>2 DEF S
<1>5. walletIndex \in -1 .. MaxWallets - 1 /\ currentIndex \in Nat
  BY WalletAssumption DEF WalletInit
<1>6. WalletTypeOK
  BY <1>3, <1>4, <1>5 DEF WalletInit, WalletTypeOK
<1> QED BY <1>6 DEF WalletInit, WalletInv, NamesTaken, CurrentWalletWhole, SessionOpens

\* Every handler, restart, reinstall and kill keeps the invariant.
LEMMA WalletStep ==
  ASSUME WalletInv, [WalletNext]_walletVars PROVE WalletInv'
<1>1. CASE InitHDWallet
  BY <1>1, LoadStep, CreateStep, RefusalsType DEF InitHDWallet
<1>2. CASE InitHDWalletWithMnemonics
  <2>1. CASE \E m \in BadMnemonics : ImportBadMnemonics(m)
    BY <2>1 DEF ImportBadMnemonics, walletVars, defaults, memory, WalletInv, WalletTypeOK,
                NamesTaken, CurrentWalletWhole, SessionOpens
  <2> QED BY <1>2, <2>1, ImportStep, ImportIndexType, RefusalsType DEF InitHDWalletWithMnemonics
<1>3. CASE DeleteCurrentWallet
  <2>1. /\ current' = current /\ current = Nil /\ inited' = FALSE
        /\ UNCHANGED <<keychain, previous, walletIndex, weIdList,
                       keyStore, currentIndex, unlockPwd>>
    BY <1>3 DEF DeleteCurrentWallet, IsHDWalletCreated
  <2>2. WalletTypeOK'
    BY <2>1 DEF WalletInv, WalletTypeOK
  <2> QED BY <2>1, <2>2 DEF WalletInv, NamesTaken, CurrentWalletWhole, SessionOpens
<1>4. CASE Restart
  <2>1. /\ LoseMemory
        /\ UNCHANGED <<keychain, current, previous, walletIndex, weIdList>>
    BY <1>4 DEF Restart, defaults
  <2>2. WalletTypeOK'
    BY <2>1, NoMemory DEF WalletInv, WalletTypeOK
  <2> QED BY <2>1, <2>2, NoMemory DEF WalletInv, NamesTaken, CurrentWalletWhole
<1>5. CASE Reinstall
  <2> DEFINE S == Seq(WeIds)
  <2>1. <<>> \in S
    OBVIOUS
  <2> HIDE DEF S
  <2>2. weIdList' \in [Names -> S]
    BY <1>5, <2>1 DEF Reinstall
  <2>3. /\ LoseMemory /\ current' = Nil /\ previous' = Nil /\ walletIndex' = -1
        /\ keychain' = keychain
    BY <1>5 DEF Reinstall
  <2>4. weIdList' \in [Names -> Seq(WeIds)]
    BY <2>2 DEF S
  <2>5. walletIndex' \in -1 .. MaxWallets - 1
    BY <2>3, WalletAssumption
  <2>6. WalletTypeOK'
    BY <2>3, <2>4, <2>5, NoMemory DEF WalletInv, WalletTypeOK
  <2> QED BY <2>3, <2>6, NoMemory DEF WalletInv, NamesTaken, CurrentWalletWhole
<1>6. CASE Crash
  BY <1>6, CrashInSaveStep, CrashInReplaceStep DEF Crash
<1>7. CASE UNCHANGED walletVars
  BY <1>7 DEF walletVars, defaults, memory, WalletInv, WalletTypeOK,
              NamesTaken, CurrentWalletWhole, SessionOpens
<1> QED BY <1>1, <1>2, <1>3, <1>4, <1>5, <1>6, <1>7 DEF WalletNext

\* WalletInv holds of a new installation and is kept by every step.
THEOREM WalletInvariance == WalletSpec => []WalletInv
BY WalletInitInv, WalletStep, PTL DEF WalletSpec

\* WIHDWallet: whatever is refused or killed, the wallet current_wallet names is
\* whole or deleted, never a part of one.
THEOREM CurrentWalletCorrect == WalletSpec => []CurrentWalletWhole
<1>1. WalletInv => CurrentWalletWhole
  BY DEF WalletInv
<1> QED BY <1>1, WalletInvariance, PTL

\* WIHDWallet: the open wallet is the current one and the password in memory
\* opens it.
THEOREM SessionCorrect == WalletSpec => []SessionOpens
<1>1. WalletInv => SessionOpens
  BY DEF WalletInv
<1> QED BY <1>1, WalletInvariance, PTL

\* Every item and default keeps its kind.
THEOREM WalletTypeCorrect == WalletSpec => []WalletTypeOK
<1>1. WalletInv => WalletTypeOK
  BY DEF WalletInv
<1> QED BY <1>1, WalletInvariance, PTL

-----------------------------------------------------------------------------
\* An import touches the current wallet only to delete it, and only when the new
\* one is saved.
LEMMA ImportReplaces ==
  ASSUME WalletInv, NEW m \in Mnemonics, NEW i \in Nat,
         NEW p \in UnlockPwds, NEW delete \in BOOLEAN,
         NEW refused \in SUBSET LifecycleItems,
         ImportHDWallet(m, i, p, delete, refused), current # Nil
  PROVE  \/ keychain'[current] = keychain[current]
         \/ Gone(keychain'[current]) /\ Whole(keychain'[walletIndex'])
<1>1. walletIndex' = NextName
  BY DEF ImportHDWallet, TakeNextName
<1>2. CASE refused = {}
  <2>1. Whole(keychain'[walletIndex'])
    BY <1>1, <1>2, ImportOutcome DEF NewWallet, Whole
  <2>2. keychain'[current] \in {keychain[current], EmptyStore}
    BY <1>2, ImportOutcome
  <2> QED BY <2>1, <2>2, EmptyStoreGone
<1>3. CASE refused # {}
  BY <1>3, ImportOutcome DEF SameWallet
<1> QED BY <1>2, <1>3

\* No step harms the current wallet unless a whole new one is saved.
LEMMA ReplacementStep ==
  ASSUME WalletInv, WalletNext, current # Nil
  PROVE  \/ keychain'[current] = keychain[current]
         \/ Gone(keychain'[current]) /\ Whole(keychain'[walletIndex'])
<1>1. CASE InitHDWallet
  BY <1>1 DEF InitHDWallet, LoadHDWallet, CreateHDWallet, IsHDWalletCreated
<1>2. CASE \E m \in BadMnemonics : ImportBadMnemonics(m)
  BY <1>2 DEF ImportBadMnemonics, walletVars
<1>3. ASSUME NEW m \in Mnemonics, NEW i \in ImportIndexes, NEW p \in UnlockPwds,
             NEW delete \in BOOLEAN, NEW refused \in Refusals(LifecycleItems),
             ImportHDWallet(m, i, p, delete, refused)
      PROVE  \/ keychain'[current] = keychain[current]
             \/ Gone(keychain'[current]) /\ Whole(keychain'[walletIndex'])
  <2>1. i \in Nat /\ refused \in SUBSET LifecycleItems
    BY ImportIndexType, RefusalsType
  <2> QED BY <1>3, <2>1, ImportReplaces
<1>4. CASE DeleteCurrentWallet \/ Restart \/ Reinstall
  BY <1>4 DEF DeleteCurrentWallet, Restart, Reinstall
<1>5. CASE Crash
  BY <1>5, CrashInSaveStep, CrashInReplaceStep DEF Crash
<1> QED BY <1>1, <1>2, <1>3, <1>4, <1>5 DEF WalletNext, InitHDWalletWithMnemonics

\* __initHDWalletWithMnemonics and every other handler: the items of the current
\* wallet are left alone unless a whole new wallet is saved.
THEOREM Replacement == WalletSpec => ReplacedOnlyByWhole
<1>1. WalletInv /\ [WalletNext]_walletVars =>
        [current # Nil =>
           \/ keychain'[current] = keychain[current]
           \/ Gone(keychain'[current]) /\ Whole(keychain'[walletIndex'])]_walletVars
  BY ReplacementStep
<1> QED BY <1>1, WalletInvariance, PTL DEF WalletSpec, ReplacedOnlyByWhole

-----------------------------------------------------------------------------
(***************************************************************************)
(* What the components on top of the wallet need: what a wallet step may   *)
(* do to a domain, and what their own writes may not.                      *)
(***************************************************************************)

\* A domain without WeIds and database passwords.
Fresh(s) == s.pairs = EmptyStore.pairs /\ s.dbPwds = EmptyStore.dbPwds

\* A step leaves the domain of w as it is, empties it, or saves a new wallet in
\* it under the next name.
DomainKept(w) ==
  \/ keychain'[w] = keychain[w]
  \/ keychain'[w] = EmptyStore
  \/ w = NextName /\ TakeNextName /\ Fresh(keychain'[w]) /\ Mnemonics # {}

\* The new wallet's domain was cleaned.
LEMMA SavedAsNextFresh ==
  ASSUME WalletTypeOK, NextName \in Names,
         NEW m \in Mnemonics, NEW i \in Nat, NEW p \in UnlockPwds, NEW refused
  PROVE  Fresh(SavedAsNext(m, i, p, refused)[NextName])
<1> DEFINE t == SaveMasterKey(CleanDomain(keychain[NextName]), m, i, p, refused)
<1>1. Fresh(t)
  BY DEF SaveMasterKey, CleanDomain, EmptyStore, Fresh
<1>2. keychain \in [Names -> Stores]
  BY DEF WalletTypeOK
<1>3. SavedAsNext(m, i, p, refused) = [keychain EXCEPT ![NextName] = t]
  BY DEF SavedAsNext
<1> HIDE DEF t
<1> QED BY <1>1, <1>2, <1>3

\* Saving under the next name, and deleting at most one domain then.
LEMMA SavedDomains ==
  ASSUME WalletTypeOK, TakeNextName,
         NEW m \in Mnemonics, NEW i \in Nat, NEW p \in UnlockPwds, NEW refused,
         NEW gone \in Names \cup {Nil}, NEW w \in Names,
         keychain' = DeletedFrom(SavedAsNext(m, i, p, refused), gone)
  PROVE  DomainKept(w)
<1> DEFINE kc == SavedAsNext(m, i, p, refused)
<1>1. /\ NextName \in Names
      /\ kc \in [Names -> Stores]
      /\ \A v \in Names : v # NextName => kc[v] = keychain[v]
      /\ Fresh(kc[NextName])
  BY SavedAsNextDomain, SavedAsNextFresh DEF TakeNextName
<1>2. keychain' = DeletedFrom(kc, gone)
  OBVIOUS
<1> HIDE DEF kc
<1>3. CASE w = gone
  BY <1>1, <1>2, <1>3, NilIsNoName, DeletedDomain DEF DomainKept
<1>4. CASE w # gone
  <2>1. keychain'[w] = kc[w]
    BY <1>1, <1>2, <1>4, DeletedDomain
  <2> QED BY <1>1, <2>1 DEF DomainKept
<1> QED BY <1>3, <1>4

\* deleteWallet of no wallet deletes nothing.
LEMMA NothingDeleted ==
  ASSUME NEW kc PROVE DeletedFrom(kc, Nil) = kc
BY DEF DeletedFrom

\* The domains after an import.
LEMMA ImportDomains ==
  ASSUME WalletTypeOK, NEW m \in Mnemonics, NEW i \in Nat, NEW p \in UnlockPwds,
         NEW delete \in BOOLEAN, NEW refused, NEW w \in Names,
         ImportHDWallet(m, i, p, delete, refused)
  PROVE  DomainKept(w)
<1>1. TakeNextName /\ NextName \in Names /\ AtLeastStartIndex(i) \in Nat
  BY IndexType DEF ImportHDWallet, TakeNextName
<1>2. PICK gone \in Names \cup {Nil} :
        keychain' = DeletedFrom(SavedAsNext(m, AtLeastStartIndex(i), p, refused), gone)
  <2>1. current \in Names \cup {Nil}
    BY DEF WalletTypeOK
  <2> QED BY <1>1, <2>1 DEF ImportHDWallet
<1> QED BY <1>1, <1>2, SavedDomains

\* The domains after a step of the wallet.
LEMMA WalletDomains ==
  ASSUME WalletInv, [WalletNext]_walletVars, NEW w \in Names
  PROVE  DomainKept(w)
<1>1. WalletTypeOK /\ current \in Names \cup {Nil}
  BY DEF WalletInv, WalletTypeOK
<1>2. CASE keychain' = keychain
  BY <1>2 DEF DomainKept
<1>3. ASSUME NEW m \in Mnemonics, NEW p \in UnlockPwds, NEW refused,
             CreateHDWallet(m, p, refused)
      PROVE  DomainKept(w)
  <2>1. TakeNextName /\ keychain' = SavedAsNext(m, StartIndex, p, refused)
    BY <1>3 DEF CreateHDWallet
  <2> QED BY <1>1, <2>1, NothingDeleted, SavedDomains, StartIndexKept
<1>4. ASSUME NEW m \in Mnemonics, NEW i \in ImportIndexes, NEW p \in UnlockPwds,
             NEW missing, NEW prev, CrashInSave(m, i, p, missing, prev),
             keychain' # keychain
      PROVE  DomainKept(w)
  <2>1. /\ TakeNextName
        /\ keychain' = SavedAsNext(m, AtLeastStartIndex(i), p, missing)
    BY <1>4 DEF CrashInSave
  <2> QED BY <1>1, <2>1, NothingDeleted, SavedDomains, ImportIndexType
<1>5. ASSUME NEW m \in Mnemonics, NEW i \in ImportIndexes, NEW p \in UnlockPwds,
             NEW list, NEW prev, CrashInReplace(m, i, p, list, prev)
      PROVE  DomainKept(w)
  <2>1. /\ TakeNextName
        /\ keychain' = DeletedFrom(SavedAsNext(m, AtLeastStartIndex(i), p, {}), current)
    BY <1>5 DEF CrashInReplace
  <2> QED BY <1>1, <2>1, SavedDomains, ImportIndexType
<1>6. CASE InitHDWallet
  BY <1>2, <1>3, <1>6 DEF InitHDWallet, LoadHDWallet
<1>7. CASE InitHDWalletWithMnemonics
  BY <1>1, <1>2, <1>7, ImportDomains, ImportIndexType
     DEF InitHDWalletWithMnemonics, ImportBadMnemonics, walletVars
<1>8. CASE Crash
  BY <1>2, <1>4, <1>5, <1>8 DEF Crash
<1>9. CASE DeleteCurrentWallet \/ Restart \/ Reinstall \/ UNCHANGED walletVars
  BY <1>2, <1>9 DEF DeleteCurrentWallet, Restart, Reinstall, walletVars
<1> QED BY <1>6, <1>7, <1>8, <1>9 DEF WalletNext

\* Names are only counted up, until the app is removed.
LEMMA WalletCounts ==
  ASSUME \/ InitHDWallet \/ InitHDWalletWithMnemonics \/ DeleteCurrentWallet
         \/ Restart \/ Crash
  PROVE  walletIndex' = walletIndex \/ TakeNextName
BY DEF InitHDWallet, LoadHDWallet, CreateHDWallet, InitHDWalletWithMnemonics,
       ImportHDWallet, ImportBadMnemonics, DeleteCurrentWallet, Restart, Crash,
       CrashInSave, CrashInReplace, defaults, walletVars

\* The four items of a wallet are the same in s and t.
SameLifecycle(s, t) ==
  /\ t.master = s.master
  /\ t.mnemonics = s.mnemonics
  /\ t.index = s.index
  /\ t.pwdHash = s.pwdHash

\* A wallet is read from its four items only.
LEMMA SameLifecycleReads ==
  ASSUME NEW s, NEW t, SameLifecycle(s, t)
  PROVE  /\ Gone(t) <=> Gone(s)
         /\ \A p : LoadMasterKey(t, p) = LoadMasterKey(s, p)
         /\ \A m, p : IsWallet(t, m, p) <=> IsWallet(s, m, p)
<1>1. Gone(t) <=> Gone(s)
  BY DEF SameLifecycle, Gone
<1>2. \A p : LoadMasterKey(t, p) = LoadMasterKey(s, p)
  BY DEF SameLifecycle, LoadMasterKey
<1>3. \A p : LoadMnemonics(t, p) = LoadMnemonics(s, p)
  BY DEF SameLifecycle, LoadMnemonics
<1> QED BY <1>1, <1>2, <1>3 DEF IsWallet

\* A handler that writes other items of the domains keeps the wallet's invariant.
LEMMA OtherItemsStep ==
  ASSUME WalletInv, keychain' \in [Names -> Stores],
         \A w \in Names : SameLifecycle(keychain[w], keychain'[w]),
         UNCHANGED <<current, previous, walletIndex, memory>>,
         weIdList' \in [Names -> Seq(WeIds)]
  PROVE  WalletInv'
<1>1. current \in Names \cup {Nil}
  BY DEF WalletInv, WalletTypeOK
<1>2. WalletTypeOK'
  BY DEF WalletInv, WalletTypeOK, memory
<1>3. CurrentWalletWhole'
  <2> SUFFICES ASSUME current # Nil
               PROVE  Whole(keychain'[current]) \/ Gone(keychain'[current])
    BY DEF CurrentWalletWhole
  <2>1. SameLifecycle(keychain[current], keychain'[current])
    BY <1>1
  <2> QED BY <2>1, SameLifecycleReads DEF WalletInv, CurrentWalletWhole, Whole
<1>4. SessionOpens'
  <2> SUFFICES ASSUME inited
               PROVE  /\ keyStore = current
                      /\ current # Nil
                      /\ \E m \in Mnemonics : IsWallet(keychain'[current], m, unlockPwd)
                      /\ currentIndex >= keychain'[current].index
    BY DEF SessionOpens, memory
  <2>1. SessionOpens
    BY DEF WalletInv
  <2>2. SameLifecycle(keychain[current], keychain'[current])
    BY <1>1, <2>1 DEF SessionOpens
  <2> QED BY <2>1, <2>2, SameLifecycleReads DEF SessionOpens, SameLifecycle
<1> QED BY <1>2, <1>3, <1>4 DEF WalletInv, NamesTaken

\* The master key that __createKeyPair and its callers reload in a session is
\* the one stored in the current wallet's domain.
LEMMA SessionKey ==
  ASSUME WalletInv, inited
  PROVE  /\ keyStore = current /\ current \in Names /\ current # Nil
         /\ \E m \in Mnemonics :
              /\ IsWallet(keychain[current], m, unlockPwd)
              /\ LoadMasterKey(keychain[current], unlockPwd) = MasterKey(m)
              /\ MasterKey(m) # Nil
              /\ keychain[current].master # Nil
              /\ keychain[current].master.content = MasterKey(m)
         /\ ~Gone(keychain[current])
<1>1. keyStore = current /\ current # Nil /\ current \in Names
  BY DEF WalletInv, SessionOpens, WalletTypeOK
<1>2. PICK m \in Mnemonics : IsWallet(keychain[current], m, unlockPwd)
  BY DEF WalletInv, SessionOpens
<1>3. /\ LoadMasterKey(keychain[current], unlockPwd) = MasterKey(m)
      /\ MasterKey(m) # Nil
  <2>1. LoadMnemonics(keychain[current], unlockPwd) # Nil
    BY <1>2, WalletAssumption DEF IsWallet
  <2>2. Whole(keychain[current])
    BY <1>1, <2>1 DEF LoadMnemonics, Gone, WalletInv, CurrentWalletWhole
  <2>3. MasterKey(m) # Nil
    BY <2>2, MasterKeyExists DEF Whole
  <2> QED BY <1>2, <2>3 DEF IsWallet
<1>4. /\ keychain[current].master # Nil
      /\ keychain[current].master.content = MasterKey(m)
  BY <1>3 DEF LoadMasterKey, AesDecrypt
<1> QED BY <1>1, <1>2, <1>3, <1>4, GoneDoesNotOpen
=============================================================================
