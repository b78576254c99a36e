--------------------- MODULE WIRestorationService_proofs ---------------------
(***************************************************************************)
(* Proofs about the restore of a wallet, for every size of a bucket and    *)
(* every set of registered key pairs, with refused writes, failed lookups  *)
(* and killed processes.                                                   *)
(***************************************************************************)
EXTENDS WIRestorationService, WIWeIdentityService_proofs, FiniteSetTheorems

-----------------------------------------------------------------------------
(***************************************************************************)
(* What a lookup finds.                                                    *)
(***************************************************************************)

\* The numbers from 1 to b, and some of them.
LEMMA SomeNumbers ==
  ASSUME NEW b \in Nat, NEW N \in SUBSET (1 .. b)
  PROVE  /\ IsFiniteSet(1 .. b) /\ Cardinality(1 .. b) = b
         /\ IsFiniteSet(N) /\ Cardinality(N) \in Nat /\ Cardinality(N) <= b
<1>1. 1 \in Int /\ b \in Int
  OBVIOUS
<1>2. IsFiniteSet(1 .. b) /\ Cardinality(1 .. b) = IF 1 > b THEN 0 ELSE b - 1 + 1
  BY <1>1, FS_Interval
<1>3. Cardinality(1 .. b) = b
  BY <1>2
<1>4. IsFiniteSet(N) /\ Cardinality(N) <= Cardinality(1 .. b)
  BY <1>2, FS_Subset
<1>5. Cardinality(N) \in Nat
  BY <1>4, FS_CardinalityType
<1> QED BY <1>2, <1>3, <1>4, <1>5

\* The numbers of N that are not above j.
UpTo(N, j) == {i \in N : i <= j}

\* They are no more than j, and fewer than up to a larger member of N.
LEMMA UpToCount ==
  ASSUME NEW b \in Nat, NEW N \in SUBSET (1 .. b), NEW j \in N
  PROVE  /\ Cardinality(UpTo(N, j)) \in 1 .. Cardinality(N)
         /\ Cardinality(UpTo(N, j)) <= j
         /\ \A k \in N : j < k => Cardinality(UpTo(N, j)) < Cardinality(UpTo(N, k))
<1>1. j \in Nat /\ j >= 1 /\ j \in Int
  OBVIOUS
<1>2. IsFiniteSet(N) /\ Cardinality(N) \in Nat
  BY SomeNumbers
<1>3. ASSUME NEW k \in N
      PROVE  /\ IsFiniteSet(UpTo(N, k)) /\ Cardinality(UpTo(N, k)) \in Nat
             /\ Cardinality(UpTo(N, k)) <= Cardinality(N)
  BY <1>2, FS_Subset, FS_CardinalityType DEF UpTo
<1>4. Cardinality(UpTo(N, j)) # 0
  <2>1. j \in UpTo(N, j)
    BY <1>1 DEF UpTo
  <2> QED BY <1>3, <2>1, FS_EmptySet
<1>5. Cardinality(UpTo(N, j)) <= j
  <2>1. ASSUME NEW i \in UpTo(N, j) PROVE i \in 1 .. j
    <3>1. i \in 1 .. b /\ i <= j
      BY DEF UpTo
    <3> QED BY <1>1, <3>1
  <2>2. UpTo(N, j) \in SUBSET (1 .. j)
    BY <2>1
  <2> QED BY <1>1, <2>2, SomeNumbers
<1>6. ASSUME NEW k \in N, j < k
      PROVE  Cardinality(UpTo(N, j)) < Cardinality(UpTo(N, k))
  <2>1. k \in Nat /\ \A i \in N : i \in Nat
    OBVIOUS
  <2>2. ASSUME NEW i \in N, i <= j PROVE i <= k
    BY <1>1, <1>6, <2>1, <2>2
  <2>3. k \in UpTo(N, k) /\ k \notin UpTo(N, j)
    BY <1>1, <1>6, <2>1 DEF UpTo
  <2>4. UpTo(N, j) \in SUBSET UpTo(N, k) /\ UpTo(N, j) # UpTo(N, k)
    BY <2>2, <2>3 DEF UpTo
  <2>5. /\ Cardinality(UpTo(N, j)) <= Cardinality(UpTo(N, k))
        /\ Cardinality(UpTo(N, j)) # Cardinality(UpTo(N, k))
    BY <1>3, <2>4, FS_Subset
  <2> QED BY <1>3, <2>5
<1>7. Cardinality(UpTo(N, j)) \in 1 .. Cardinality(N)
  BY <1>2, <1>3, <1>4
<1> QED BY <1>5, <1>6, <1>7

\* Each place is taken by one of them: the count hits every number up to the
\* size of N, because it maps N one to one into these numbers.
LEMMA PlacesTaken ==
  ASSUME NEW b \in Nat, NEW N \in SUBSET (1 .. b), NEW r \in 1 .. Cardinality(N)
  PROVE  \E j \in N : Cardinality(UpTo(N, j)) = r
<1> DEFINE n == Cardinality(N)
           f == [j \in N |-> Cardinality(UpTo(N, j))]
           T == (1 .. n) \ {r}
<1>1. IsFiniteSet(N) /\ n \in Nat
  BY SomeNumbers
<1>2. IsFiniteSet(T) /\ Cardinality(T) < n
  <2>1. 1 .. n \in SUBSET (1 .. n)
    OBVIOUS
  <2>2. IsFiniteSet(1 .. n) /\ Cardinality(1 .. n) = n
    BY <1>1, <2>1, SomeNumbers
  <2>3. IsFiniteSet(T) /\ Cardinality(T) = n - 1
    BY <2>2, FS_RemoveElement
  <2> QED BY <1>1, <2>3
<1>3. SUFFICES ASSUME \A j \in N : Cardinality(UpTo(N, j)) # r PROVE FALSE
  OBVIOUS
<1>4. f \in [N -> T]
  BY <1>3, UpToCount
<1>5. PICK x \in N, y \in N : x # y /\ f[x] = f[y]
  <2> HIDE DEF T, f
  <2> QED BY <1>1, <1>2, <1>4, FS_PigeonHole
<1>6. Cardinality(UpTo(N, x)) = Cardinality(UpTo(N, y))
  BY <1>5
<1>7. /\ Cardinality(UpTo(N, x)) \in 1 .. Cardinality(N)
      /\ x < y => Cardinality(UpTo(N, x)) < Cardinality(UpTo(N, y))
  BY UpToCount
<1>8. y < x => Cardinality(UpTo(N, y)) < Cardinality(UpTo(N, x))
  BY UpToCount
<1>9. x \in Int /\ y \in Int /\ Cardinality(UpTo(N, x)) \in Int
  BY <1>7
<1> QED BY <1>5, <1>6, <1>7, <1>8, <1>9

\* getPublicKeyList: the keys of the master key from the start on.
LEMMA KeyAt ==
  ASSUME NEW m \in Mnemonics, restore.masterKey = MasterKey(m), NEW i \in 1 .. Bucket
  PROVE  Keys[i] = <<m, restore.start + i - 1>>
BY DEF Keys, KeyPair, MasterKey

\* getWeIdByPubKeyList: every WeId found is a WeId, and there is a key pair to
\* be stored for each place.
LEMMA FoundIs ==
  ASSUME RestoreInv, restore # Nil
  PROVE  /\ Found \in Seq(WeIds)
         /\ DOMAIN Found = 1 .. Len(Found)
         /\ Len(Found) \in 0 .. Bucket
         /\ \A i \in DOMAIN Found : Keys[i] \in KeyPairs
<1>1. PICK m \in Mnemonics : restore.masterKey = MasterKey(m)
  BY DEF RestoreInv, RestoreTypeOK
<1>2. /\ restore.start \in Nat /\ restore.start >= StartIndex /\ chain \subseteq KeyPairs
      /\ Bucket \in Nat /\ StartIndex \in Nat /\ MaxIndex \in Nat
  BY BucketAssumption, WalletAssumption
     DEF RestoreInv, RestoreTypeOK, WeIdTypeOK, Restoring
<1>3. Known \in SUBSET (1 .. Bucket)
  BY DEF Known
<1>4. IsFiniteSet(Known) /\ Cardinality(Known) \in Nat /\ Cardinality(Known) <= Bucket
  BY <1>2, <1>3, SomeNumbers
<1>5. \A j : Place(j) = Cardinality(UpTo(Known, j))
  BY DEF Place, UpTo
<1>6. ASSUME NEW r \in 1 .. Cardinality(Known)
      PROVE  Found[r] \in WeIds /\ Keys[r] \in KeyPairs
  <2> DEFINE j == CHOOSE k \in Known : Place(k) = r
  <2>1. \E k \in Known : Place(k) = r
    BY <1>2, <1>3, <1>5, PlacesTaken
  <2>2. j \in Known /\ Place(j) = r
    BY <2>1
  <2>3. Found[r] = WeIdOf(Keys[j])
    BY DEF Found
  <2> HIDE DEF j
  <2>4. Keys[j] \in KeyPairs /\ j \in 1 .. Bucket
    BY <1>2, <2>2 DEF Known
  <2>5. Found[r] \in WeIds
    BY <2>3, <2>4 DEF WeIds
  <2>6. r <= j
    BY <1>2, <1>3, <1>5, <2>2, UpToCount
  <2>7. Keys[j] = <<m, restore.start + j - 1>> /\ Keys[j][2] \in Indexes
    BY <1>1, <2>4, KeyAt, KeyPairParts
  <2>8. restore.start + r - 1 \in Indexes
    BY <1>2, <1>4, <2>4, <2>6, <2>7 DEF Indexes
  <2>9. Keys[r] = KeyPair(MasterKey(m), restore.start + r - 1)
    BY <1>1, <1>4, <1>2, KeyAt DEF KeyPair, MasterKey
  <2>10. Keys[r] \in KeyPairs
    BY <2>8, <2>9 DEF KeyPairs
  <2> QED BY <2>5, <2>10
<1>7. Found \in [1 .. Cardinality(Known) -> WeIds]
  BY <1>6 DEF Found
<1>8. /\ Found \in Seq(WeIds) /\ Len(Found) = Cardinality(Known)
      /\ DOMAIN Found = 1 .. Cardinality(Known)
  BY <1>4, <1>7
<1> QED BY <1>2, <1>4, <1>6, <1>8

-----------------------------------------------------------------------------
(***************************************************************************)
(* Steps of the wallet.  They are proved again from less than WalletInv:   *)
(* a restore that fails can leave the open wallet deleted, so the session  *)
(* of WalletInv is no invariant here.                                      *)
(***************************************************************************)

\* A step that takes the next name switches to it or keeps the current wallet.
LEMMA NameTakenStep ==
  ASSUME WalletTypeOK, NamesInUse, TakeNextName,
         keychain' \in [Names -> Stores], weIdList' \in [Names -> Seq(WeIds)],
         \/ /\ SetCurrentWallet(NextName)
            /\ \E i \in Nat, p \in UnlockPwds : InitHDWalletSuccess(NextName, i, p)
         \/ /\ current' = current /\ previous' \in {current, previous}
            /\ UNCHANGED memory \/ LoseMemory
  PROVE  WalletTypeOK' /\ NamesInUse'
<1>1. /\ NextName \in Names /\ NextName # Nil /\ current # NextName
      /\ walletIndex' = NextName /\ walletIndex' \in -1 .. MaxWallets - 1
      /\ current # Nil => current <= walletIndex'
  BY NextNameFree, NilIsNoName DEF NamesInUse
<1>2. previous # Nil => previous <= walletIndex'
  BY <1>1, WalletAssumption DEF NamesInUse, WalletTypeOK, NextName, Names
<1>3. current \in Names \cup {Nil} /\ previous \in Names \cup {Nil}
  BY DEF WalletTypeOK
<1>4. CASE /\ SetCurrentWallet(NextName)
           /\ \E i \in Nat, p \in UnlockPwds : InitHDWalletSuccess(NextName, i, p)
  <2>1. /\ current' = NextName /\ previous' = current /\ keyStore' = NextName
        /\ currentIndex' \in Nat /\ inited' = TRUE /\ unlockPwd' \in UnlockPwds
    BY <1>4 DEF SetCurrentWallet, InitHDWalletSuccess
  <2>2. current' <= walletIndex'
    BY <1>1, <2>1 DEF Names
  <2>3. WalletTypeOK'
    BY <1>1, <1>3, <2>1 DEF WalletTypeOK
  <2> QED BY <1>1, <2>1, <2>2, <2>3 DEF NamesInUse, NamesTaken
<1>5. CASE /\ current' = current /\ previous' \in {current, previous}
           /\ UNCHANGED memory \/ LoseMemory
  <2>1. /\ keyStore' \in Names \cup {Nil} /\ currentIndex' \in Nat /\ inited' \in BOOLEAN
        /\ unlockPwd' \in UnlockPwds \cup {Nil}
        /\ inited' => keyStore' # Nil
    <3>1. CASE UNCHANGED <<keyStore, currentIndex, inited, unlockPwd>>
      BY <3>1 DEF WalletTypeOK, NamesInUse
    <3>2. CASE LoseMemory
      BY <3>2, NoMemory DEF LoseMemory
    <3> QED BY <1>5, <3>1, <3>2 DEF memory
  <2>2. WalletTypeOK'
    BY <1>1, <1>3, <1>5, <2>1 DEF WalletTypeOK
  <2> QED BY <1>1, <1>2, <1>5, <2>1, <2>2 DEF NamesInUse, NamesTaken
<1> QED BY <1>4, <1>5

\* A step that leaves the keychain and the names alone.
LEMMA SameNamesStep ==
  ASSUME WalletTypeOK, NamesInUse, UNCHANGED <<keychain, previous, walletIndex, weIdList>>,
         current' = current, keyStore' \in Names \cup {Nil}, currentIndex' \in Nat,
         inited' \in BOOLEAN, unlockPwd' \in UnlockPwds \cup {Nil}, inited' => keyStore' # Nil
  PROVE  WalletTypeOK' /\ NamesInUse'
BY DEF WalletTypeOK, NamesInUse, NamesTaken

\* The wallet's state after any of its steps.
LEMMA WalletNamesStep ==
  ASSUME WalletTypeOK, NamesInUse, WalletNext
  PROVE  WalletTypeOK' /\ NamesInUse'
<1>1. /\ current \in Names \cup {Nil} /\ keychain \in [Names -> Stores]
      /\ weIdList \in [Names -> Seq(WeIds)]
  BY DEF WalletTypeOK
<1>2. ASSUME NEW p \in UnlockPwds, LoadHDWallet(p)
      PROVE  WalletTypeOK' /\ NamesInUse'
  <2>1. /\ current \in Names /\ current # Nil /\ keyStore' = current
        /\ currentIndex' = LoadIndex(keychain[current])
        /\ inited' = TRUE /\ unlockPwd' = p
        /\ UNCHANGED <<keychain, current, previous, walletIndex, weIdList>>
    BY <1>1, <1>2 DEF LoadHDWallet, IsHDWalletCreated, InitHDWalletSuccess, defaults
  <2>2. keychain[current].index \in Nat \cup {Nil}
    BY <1>1, <2>1 DEF Stores
  <2>3. currentIndex' \in Nat
    BY <2>1, <2>2, IndexType, StartIndexKept DEF LoadIndex
  <2> QED BY <2>1, <2>3, SameNamesStep
<1>3. ASSUME NEW m \in Mnemonics, NEW p \in UnlockPwds, NEW refused,
             CreateHDWallet(m, p, refused)
      PROVE  WalletTypeOK' /\ NamesInUse'
  <2>1. /\ TakeNextName /\ NextName \in Names
        /\ keychain' = SavedAsNext(m, StartIndex, p, refused) /\ weIdList' = weIdList
        /\ \/ SetCurrentWallet(NextName) /\ InitHDWalletSuccess(NextName, StartIndex, p)
           \/ UNCHANGED <<current, previous, memory>>
    BY <1>3 DEF CreateHDWallet, TakeNextName
  <2>2. keychain' \in [Names -> Stores]
    BY <2>1, SavedAsNextDomain, StartIndexKept
  <2> QED BY <1>1, <2>1, <2>2, NameTakenStep, StartIndexKept
<1>4. ASSUME NEW m \in Mnemonics, NEW i \in ImportIndexes, NEW p \in UnlockPwds,
             NEW delete \in BOOLEAN, NEW refused, ImportHDWallet(m, i, p, delete, refused)
      PROVE  WalletTypeOK' /\ NamesInUse'
  <2> DEFINE kc == SavedAsNext(m, AtLeastStartIndex(i), p, refused)
  <2>1. /\ TakeNextName /\ NextName \in Names
        /\ \E v \in Names \cup {Nil} :
             keychain' = DeletedFrom(kc, v) /\ weIdList' = ForgetWeIds(weIdList, v)
        /\ \/ /\ SetCurrentWallet(NextName)
              /\ InitHDWalletSuccess(NextName, AtLeastStartIndex(i), p)
           \/ UNCHANGED <<current, previous, memory>>
    BY <1>1, <1>4 DEF ImportHDWallet, TakeNextName
  <2>2. kc \in [Names -> Stores]
    BY <2>1, SavedAsNextDomain, ImportIndexType
  <2> HIDE DEF kc
  <2>3. keychain' \in [Names -> Stores] /\ weIdList' \in [Names -> Seq(WeIds)]
    BY <1>1, <2>1, <2>2, DeletedDomain, ForgottenType
  <2> QED BY <2>1, <2>3, NameTakenStep, ImportIndexType
<1>5. ASSUME NEW m \in Mnemonics, NEW i \in ImportIndexes, NEW p \in UnlockPwds,
             NEW missing, NEW prev, CrashInSave(m, i, p, missing, prev)
      PROVE  WalletTypeOK' /\ NamesInUse'
  <2>1. /\ TakeNextName /\ NextName \in Names /\ LoseMemory
        /\ keychain' \in {keychain, SavedAsNext(m, AtLeastStartIndex(i), p, missing)}
        /\ weIdList' = weIdList /\ current' = current /\ previous' \in {current, previous}
    BY <1>5 DEF CrashInSave, TakeNextName
  <2>2. keychain' \in [Names -> Stores]
    BY <1>1, <2>1, SavedAsNextDomain, ImportIndexType
  <2> QED BY <1>1, <2>1, <2>2, NameTakenStep
<1>6. ASSUME NEW m \in Mnemonics, NEW i \in ImportIndexes, NEW p \in UnlockPwds,
             NEW list, NEW prev, CrashInReplace(m, i, p, list, prev)
      PROVE  WalletTypeOK' /\ NamesInUse'
  <2> DEFINE kc == SavedAsNext(m, AtLeastStartIndex(i), p, {})
  <2>1. /\ TakeNextName /\ NextName \in Names /\ LoseMemory
        /\ keychain' = DeletedFrom(kc, current)
        /\ weIdList' \in {weIdList, ForgetWeIds(weIdList, current)}
        /\ current' = current /\ previous' \in {current, previous}
    BY <1>6 DEF CrashInReplace, TakeNextName
  <2>2. kc \in [Names -> Stores]
    BY <2>1, SavedAsNextDomain, ImportIndexType
  <2> HIDE DEF kc
  <2>3. keychain' \in [Names -> Stores]
    BY <1>1, <2>1, <2>2, DeletedDomain
  <2>4. weIdList' \in [Names -> Seq(WeIds)]
    BY <1>1, <2>1, ForgottenType
  <2> QED BY <2>1, <2>3, <2>4, NameTakenStep
<1>7. CASE DeleteCurrentWallet
  <2>1. /\ current' = current /\ inited' = FALSE
        /\ UNCHANGED <<keychain, previous, walletIndex, weIdList, keyStore, currentIndex,
                       unlockPwd>>
    BY <1>7 DEF DeleteCurrentWallet, IsHDWalletCreated
  <2> QED BY <2>1, SameNamesStep DEF WalletTypeOK
<1>8. CASE Restart
  BY <1>8, SameNamesStep, NoMemory DEF Restart, LoseMemory, defaults
<1>9. CASE Reinstall
  <2> DEFINE S == Seq(WeIds)
  <2>1. <<>> \in S
    OBVIOUS
  <2> HIDE DEF S
  <2>2. weIdList' \in [Names -> S]
    BY <1>9, <2>1 DEF Reinstall
  <2>3. weIdList' \in [Names -> Seq(WeIds)]
    BY <2>2 DEF S
  <2>4. /\ LoseMemory /\ current' = Nil /\ previous' = Nil /\ walletIndex' = -1
        /\ keychain' = keychain /\ inited' = FALSE
    BY <1>9 DEF Reinstall, LoseMemory
  <2>5. walletIndex' \in -1 .. MaxWallets - 1
    BY <2>4, WalletAssumption
  <2>6. WalletTypeOK'
    BY <1>1, <2>3, <2>4, <2>5, NoMemory DEF WalletTypeOK
  <2> QED BY <2>4, <2>6 DEF NamesInUse, NamesTaken
<1>10. CASE InitHDWallet
  BY <1>2, <1>3, <1>10 DEF InitHDWallet
<1>11. CASE InitHDWalletWithMnemonics
  <2>1. CASE \E m \in BadMnemonics : ImportBadMnemonics(m)
    BY <2>1, SameNamesStep
       DEF ImportBadMnemonics, walletVars, defaults, memory, WalletTypeOK, NamesInUse
  <2> QED BY <1>4, <1>11, <2>1 DEF InitHDWalletWithMnemonics
<1>12. CASE Crash
  BY <1>5, <1>6, <1>12 DEF Crash
<1> QED BY <1>7, <1>8, <1>9, <1>10, <1>11, <1>12 DEF WalletNext

\* What the restore relies on between its steps.
Idle == WalletTypeOK /\ NamesInUse /\ UnusedUnlisted /\ SessionStarted

\* A list that is empty stays empty for the names still to be handed out.
LEMMA WalletIdleStep ==
  ASSUME Idle, WalletNext
  PROVE  Idle'
<1>1. WalletTypeOK' /\ NamesInUse' /\ SessionStarted'
  BY WalletNamesStep, WalletStarts DEF Idle
<1>2. walletIndex \in Int /\ walletIndex' \in Int
  BY <1>1, WalletAssumption DEF Idle, WalletTypeOK
<1>3. UnusedUnlisted'
  <2> SUFFICES ASSUME NEW w \in Names, w > walletIndex'
               PROVE  weIdList'[w] = <<>>
    BY DEF UnusedUnlisted
  <2>1. /\ weIdList'[w] \in {weIdList[w], <<>>}
        /\ walletIndex' >= walletIndex \/ weIdList'[w] = <<>>
    BY WalletLists DEF Idle
  <2>2. w \in Int
    BY DEF Names
  <2> QED BY <1>2, <2>1, <2>2 DEF Idle, UnusedUnlisted
<1> QED BY <1>1, <1>3 DEF Idle

-----------------------------------------------------------------------------
(***************************************************************************)
(* Steps of the creation of WeIds.                                         *)
(***************************************************************************)

\* One WeId more in a list.
LEMMA ListedOne ==
  ASSUME NEW lists \in [Names -> Seq(WeIds)], NEW v \in Names \cup {Nil}, NEW x \in WeIds,
         NEW l, l = [lists EXCEPT ![v] = Append(@, x)]
  PROVE  /\ l \in [Names -> Seq(WeIds)]
         /\ \A w \in Names : w # v => l[w] = lists[w]
<1> DEFINE S == Seq(WeIds)
<1>1. lists \in [Names -> S]
  OBVIOUS
<1>2. v \in Names => Append(lists[v], x) \in S
  OBVIOUS
<1> HIDE DEF S
<1>3. l \in [Names -> S]
  BY <1>1, <1>2
<1>4. \A w \in Names : w # v => l[w] = lists[w]
  BY <1>1
<1> QED BY <1>3, <1>4 DEF S

\* A handler's step: the open domain, the list of the current wallet and the
\* index change, or the process is killed.
LEMMA HandlerStep ==
  ASSUME Idle, keychain' \in [Names -> Stores],
         weIdList' \in [Names -> Seq(WeIds)],
         \A w \in Names : w # current => weIdList'[w] = weIdList[w],
         UNCHANGED <<current, previous, walletIndex>>,
         \/ /\ currentIndex' \in Nat /\ currentIndex' >= StartIndex
            /\ UNCHANGED <<keyStore, inited, unlockPwd>>
         \/ UNCHANGED memory
         \/ LoseMemory
  PROVE  Idle'
<1>1. /\ keyStore' \in Names \cup {Nil} /\ currentIndex' \in Nat /\ inited' \in BOOLEAN
      /\ unlockPwd' \in UnlockPwds \cup {Nil}
      /\ inited' => keyStore' # Nil
      /\ inited' => currentIndex' >= StartIndex
  <2>1. CASE UNCHANGED <<keyStore, inited, unlockPwd, currentIndex>>
    BY <2>1 DEF Idle, WalletTypeOK, NamesInUse, SessionStarted
  <2>2. CASE /\ currentIndex' \in Nat /\ currentIndex' >= StartIndex
             /\ UNCHANGED <<keyStore, inited, unlockPwd>>
    BY <2>2 DEF Idle, WalletTypeOK, NamesInUse
  <2>3. CASE LoseMemory
    BY <2>3, NoMemory DEF LoseMemory
  <2> QED BY <2>1, <2>2, <2>3 DEF memory
<1>2. WalletTypeOK'
  BY <1>1 DEF Idle, WalletTypeOK
<1>3. NamesInUse' /\ SessionStarted'
  BY <1>1 DEF Idle, NamesInUse, NamesTaken, SessionStarted
<1>4. UnusedUnlisted'
  <2> SUFFICES ASSUME NEW w \in Names, w > walletIndex'
               PROVE  weIdList'[w] = <<>>
    BY DEF UnusedUnlisted
  <2>1. w \in Int /\ walletIndex \in Int /\ walletIndex' = walletIndex
    BY WalletAssumption DEF Names, Idle, WalletTypeOK
  <2>2. current # Nil => current <= walletIndex
    BY DEF Idle, NamesInUse, NamesTaken
  <2>3. w # Nil
    BY NilIsNoName
  <2>4. w # current
    BY <2>1, <2>2, <2>3
  <2> QED BY <2>1, <2>4 DEF Idle, UnusedUnlisted
<1> QED BY <1>2, <1>3, <1>4 DEF Idle

\* addAndUpdateCurrentIndex: what it stores is an index, or there was none.
LEMMA StoredIndexType ==
  ASSUME WalletTypeOK, keyStore # Nil, NEW i \in Nat, NEW ok \in BOOLEAN
  PROVE  StoredIndex(i, ok) \in Nat \cup {Nil}
<1>1. keychain[keyStore].index \in Nat \cup {Nil}
  BY DEF WalletTypeOK, Stores
<1> QED BY <1>1 DEF StoredIndex, Update

\* The key pairs and the requests keep their kinds, and so does the wallet.
Working == WeIdTypeOK /\ Idle

\* createKeyPairSuccess: what the open domain gives is a master key, so that the
\* request is made with one of its key pairs.
LEMMA RequestTyped ==
  ASSUME Working, NEW c \in Calls, CreateWeId(c)
  PROVE  Working'
<1> DEFINE s == keychain[keyStore]
           key == LoadMasterKey(s, unlockPwd)
           r == [keyPair |-> KeyPair(key, currentIndex), index |-> currentIndex,
                 answer |-> "pending"]
           R == Requests \cup {Nil}
<1>1. /\ inited /\ currentIndex <= MaxIndex /\ key # Nil
      /\ calls' = [calls EXCEPT ![c] = r] /\ UNCHANGED <<walletVars, chain>>
  BY DEF CreateWeId
<1>2. /\ keyStore \in Names /\ currentIndex \in Nat /\ currentIndex >= StartIndex
      /\ keychain \in [Names -> Stores]
  BY <1>1 DEF Working, Idle, WalletTypeOK, NamesInUse, SessionStarted
<1>3. currentIndex \in Indexes
  BY <1>1, <1>2, WalletAssumption DEF Indexes
<1>4. s.master \in MasterKeyCiphers
  BY <1>1, <1>2 DEF LoadMasterKey, Stores
<1>5. PICK m \in Mnemonics, p \in UnlockPwds :
        s.master = AesEncrypt(MasterKey(m), HashTwice(p))
  BY <1>4 DEF MasterKeyCiphers
<1>6. s.master.content = MasterKey(m)
  BY <1>5 DEF AesEncrypt
<1>7. key = MasterKey(m)
  BY <1>1, <1>6 DEF LoadMasterKey, AesDecrypt
<1>8. r.keyPair \in KeyPairs
  BY <1>3, <1>7, DerivedKeyPair
<1>9. r \in R
  BY <1>3, <1>8 DEF Requests, Answers
<1>10. calls \in [Calls -> R]
  BY DEF Working, WeIdTypeOK, Requests
<1> HIDE DEF r, R, key
<1>11. calls' \in [Calls -> R]
  BY <1>1, <1>9, <1>10
<1>12. WeIdTypeOK'
  BY <1>1, <1>11 DEF Working, WeIdTypeOK, WalletTypeOK, walletVars, defaults, memory, R, Requests
<1>13. Idle'
  BY <1>1 DEF Working, Idle, WalletTypeOK, NamesInUse, NamesTaken, UnusedUnlisted,
              SessionStarted, walletVars, defaults, memory
<1> QED BY <1>12, <1>13 DEF Working

\* A step that leaves the wallet alone.
LEMMA WalletSame ==
  ASSUME Idle, UNCHANGED walletVars
  PROVE  Idle'
BY DEF Idle, WalletTypeOK, NamesInUse, NamesTaken, UnusedUnlisted, SessionStarted,
       walletVars, defaults, memory

\* The node's answer, a lost one and another device leave the wallet alone.
LEMMA NodeTyped ==
  ASSUME Working, UNCHANGED walletVars, chain' \subseteq KeyPairs,
         calls' \in [Calls -> Requests \cup {Nil}]
  PROVE  Working'
<1>1. Idle'
  BY WalletSame DEF Working
<1>2. WeIdTypeOK'
  BY <1>1 DEF WeIdTypeOK, Idle, Requests
<1> QED BY <1>1, <1>2 DEF Working

\* The calls after the node's answer or a lost one.
LEMMA AnswerTyped ==
  ASSUME Working, NEW c \in Calls, RegisterWeId(c) \/ CreateWeIdFails(c)
  PROVE  Working'
<1> DEFINE R == Requests \cup {Nil}
           a == IF calls[c].keyPair \in chain THEN "exists" ELSE "created"
           r == [calls[c] EXCEPT !.answer = a]
<1>1. calls \in [Calls -> R] /\ chain \subseteq KeyPairs /\ Nil \in R
  BY DEF Working, WeIdTypeOK, Requests
<1>2. calls[c] # Nil
  BY DEF RegisterWeId, CreateWeIdFails
<1>3. calls[c] \in Requests
  BY <1>1, <1>2
<1>4. a \in Answers
  BY DEF Answers
<1>5. /\ calls' \in {[calls EXCEPT ![c] = r], [calls EXCEPT ![c] = Nil]}
      /\ chain' \in {chain, chain \cup {calls[c].keyPair}} /\ UNCHANGED walletVars
  BY DEF RegisterWeId, CreateWeIdFails
<1> HIDE DEF a
<1>6. r \in R /\ calls[c].keyPair \in KeyPairs
  BY <1>3, <1>4 DEF Requests
<1> HIDE DEF r, R
<1>7. calls' \in [Calls -> R]
  BY <1>1, <1>5, <1>6
<1>8. chain' \subseteq KeyPairs
  BY <1>1, <1>5, <1>6
<1> QED BY <1>5, <1>7, <1>8, NodeTyped DEF R

\* The handlers of an answer write an index and a key pair.
LEMMA HandledTyped ==
  ASSUME Working, NEW c \in Calls, calls[c] # Nil,
         keychain' \in [Names -> Stores],
         \/ weIdList' = weIdList
         \/ weIdList' = [weIdList EXCEPT ![current] = Append(@, WeIdOf(calls[c].keyPair))],
         UNCHANGED <<current, previous, walletIndex, chain>>,
         \/ currentIndex' = calls[c].index + 1 /\ UNCHANGED <<keyStore, inited, unlockPwd>>
         \/ LoseMemory,
         calls' = [calls EXCEPT ![c] = Nil] \/ calls' = NoCalls
  PROVE  Working'
<1> DEFINE R == Requests \cup {Nil}
<1>1. calls \in [Calls -> R] /\ chain \subseteq KeyPairs /\ Nil \in R
  BY DEF Working, WeIdTypeOK, Requests
<1>2. calls[c].keyPair \in KeyPairs /\ calls[c].index \in Indexes
  BY <1>1 DEF Requests
<1>3. StartIndex \in Nat /\ calls[c].index \in Nat /\ calls[c].index >= StartIndex
  BY <1>2, WalletAssumption DEF Indexes
<1>4. WeIdOf(calls[c].keyPair) \in WeIds
  BY <1>2, KeyPairParts
<1>5. weIdList \in [Names -> Seq(WeIds)] /\ current \in Names \cup {Nil}
  BY DEF Working, Idle, WalletTypeOK
<1>6. /\ weIdList' \in [Names -> Seq(WeIds)]
      /\ \A w \in Names : w # current => weIdList'[w] = weIdList[w]
  <2>1. CASE weIdList' = weIdList
    BY <1>5, <2>1
  <2>2. CASE weIdList' = [weIdList EXCEPT ![current] = Append(@, WeIdOf(calls[c].keyPair))]
    BY <1>4, <1>5, <2>2, ListedOne
  <2> QED BY <2>1, <2>2
<1>7. \/ /\ currentIndex' \in Nat /\ currentIndex' >= StartIndex
         /\ UNCHANGED <<keyStore, inited, unlockPwd>>
      \/ LoseMemory
  BY <1>3
<1>8. Idle'
  BY <1>6, <1>7, HandlerStep DEF Working
<1> HIDE DEF R
<1>9. calls' \in [Calls -> R]
  BY <1>1 DEF NoCalls
<1>10. WeIdTypeOK'
  BY <1>1, <1>8, <1>9 DEF Idle, WeIdTypeOK, R, Requests
<1> QED BY <1>8, <1>10 DEF Working

\* saveWIKeyPairAfterCreateWeId, addAndUpdateCurrentIndex, and a kill inside.
LEMMA AnswersTyped ==
  ASSUME Working, NEW c \in Calls, NEW okIndex \in BOOLEAN, NEW okPair \in BOOLEAN,
         NEW listWritten \in BOOLEAN,
         \/ OnCreated(c, okIndex, okPair)
         \/ OnExists(c, okIndex)
         \/ CrashInOnCreated(c, listWritten)
  PROVE  Working'
<1> DEFINE P == KeyPairs \cup {Nil}
           w == WeIdOf(calls[c].keyPair)
           x == Add(calls[c].keyPair, okPair)
           s == keychain[keyStore]
<1>1. calls[c] # Nil
  BY DEF OnCreated, OnExists, CrashInOnCreated
<1>2. calls[c].keyPair \in KeyPairs /\ calls[c].index \in Nat
  BY <1>1, WalletAssumption DEF Working, WeIdTypeOK, Indexes
<1>3. keychain \in [Names -> Stores] /\ keyStore \in Names \cup {Nil}
  BY DEF Working, Idle, WalletTypeOK
<1>4. ASSUME NEW ok \in BOOLEAN
      PROVE  [keychain EXCEPT ![keyStore].index = StoredIndex(calls[c].index, ok)]
               \in [Names -> Stores]
  <2>1. CASE keyStore = Nil
    BY <1>3, <2>1, NilIsNoName
  <2>2. CASE keyStore # Nil
    <3> DEFINE i == StoredIndex(calls[c].index, ok)
    <3>1. i \in Nat \cup {Nil}
      BY <1>2, <2>2, StoredIndexType DEF Working, Idle
    <3>2. keyStore \in Names /\ [s EXCEPT !.index = i] \in Stores
      BY <1>3, <2>2, <3>1 DEF Stores
    <3> HIDE DEF i
    <3> QED BY <1>3, <3>2 DEF i
  <2> QED BY <2>1, <2>2
<1>5. [keychain EXCEPT ![keyStore].index = StoredIndex(calls[c].index, okIndex),
                       ![keyStore].pairs[w] = x] \in [Names -> Stores]
  <2>1. CASE keyStore = Nil
    BY <1>3, <2>1, NilIsNoName
  <2>2. CASE keyStore # Nil
    <3> DEFINE i == StoredIndex(calls[c].index, okIndex)
               ps == [s.pairs EXCEPT ![w] = x]
    <3>1. i \in Nat \cup {Nil}
      BY <1>2, <2>2, StoredIndexType DEF Working, Idle
    <3>2. s \in Stores /\ keyStore \in Names
      BY <1>3, <2>2
    <3>3. s.pairs \in [WeIds -> P]
      BY <3>2 DEF Stores
    <3>4. x \in P
      BY <1>2 DEF Add
    <3>5. ps \in [WeIds -> P]
      <4> HIDE DEF w, x, P, s
      <4> QED BY <3>3, <3>4
    <3> HIDE DEF i, ps
    <3>6. [s EXCEPT !.index = i, !.pairs = ps] \in Stores
      BY <3>1, <3>2, <3>5 DEF Stores
    <3>7. [keychain EXCEPT ![keyStore] = [s EXCEPT !.index = i, !.pairs = ps]]
            \in [Names -> Stores]
      BY <1>3, <3>2, <3>6
    <3> QED BY <3>7 DEF i, ps
  <2> QED BY <2>1, <2>2
<1>6. CASE OnCreated(c, okIndex, okPair)
  <2>1. /\ \/ keychain' = keychain
           \/ keychain' = [keychain EXCEPT
                             ![keyStore].index = StoredIndex(calls[c].index, okIndex),
                             ![keyStore].pairs[w] = x]
        /\ \/ weIdList' = weIdList
           \/ weIdList' = [weIdList EXCEPT ![current] = Append(@, w)]
        /\ UNCHANGED <<current, previous, walletIndex, chain>>
        /\ currentIndex' = calls[c].index + 1 /\ UNCHANGED <<keyStore, inited, unlockPwd>>
        /\ calls' = [calls EXCEPT ![c] = Nil]
    BY <1>6 DEF OnCreated
  <2>2. keychain' \in [Names -> Stores]
    BY <1>3, <1>5, <2>1
  <2> QED BY <1>1, <2>1, <2>2, HandledTyped
<1>7. CASE OnExists(c, okIndex)
  <2>1. /\ weIdList' = weIdList /\ UNCHANGED <<current, previous, walletIndex, chain>>
        /\ currentIndex' = calls[c].index + 1 /\ UNCHANGED <<keyStore, inited, unlockPwd>>
        /\ calls' = [calls EXCEPT ![c] = Nil]
    BY <1>7 DEF OnExists, defaults
  <2>2. keychain' \in [Names -> Stores]
    BY <1>4, <1>7 DEF OnExists
  <2> QED BY <1>1, <2>1, <2>2, HandledTyped
<1>8. CASE CrashInOnCreated(c, listWritten)
  <2>1. /\ \/ weIdList' = weIdList
           \/ weIdList' = [weIdList EXCEPT ![current] = Append(@, w)]
        /\ UNCHANGED <<current, previous, walletIndex, chain>>
        /\ LoseMemory /\ calls' = NoCalls
    BY <1>8 DEF CrashInOnCreated
  <2>2. keychain' \in [Names -> Stores]
    BY <1>4, <1>8 DEF CrashInOnCreated
  <2> QED BY <1>1, <2>1, <2>2, HandledTyped
<1> QED BY <1>6, <1>7, <1>8

\* A step of the wallet or of the creation of WeIds.
LEMMA OtherStep ==
  ASSUME Working, WalletCall \/ ProcessEnds \/ WeIdStep
  PROVE  Working'
<1>1. CASE WalletNext /\ UNCHANGED chain /\ (calls' = NoCalls \/ calls' = calls)
  <2>1. Idle'
    BY <1>1, WalletIdleStep DEF Working
  <2>2. NoCalls \in [Calls -> Requests \cup {Nil}]
    BY DEF NoCalls
  <2>3. WeIdTypeOK'
    BY <1>1, <2>1, <2>2 DEF Working, Idle, WeIdTypeOK, Requests
  <2> QED BY <2>1, <2>3 DEF Working
<1>2. CASE WalletCall \/ ProcessEnds
  <2>1. CASE \E c \in Calls, listWritten \in BOOLEAN : CrashInOnCreated(c, listWritten)
    <3>1. TRUE \in BOOLEAN
      OBVIOUS
    <3> QED BY <2>1, <3>1, AnswersTyped
  <2> QED BY <1>1, <1>2, <2>1 DEF WalletCall, ProcessEnds, WalletNext
<1>3. CASE WeIdStep
  <2>1. Accepted \subseteq BOOLEAN /\ TRUE \in BOOLEAN
    BY DEF Accepted
  <2>2. ASSUME NEW k \in KeyPairs, RegisterElsewhere(k) PROVE Working'
    BY <2>2, NodeTyped DEF RegisterElsewhere, Working, WeIdTypeOK, Requests
  <2> QED BY <1>3, <2>1, <2>2, RequestTyped, AnswerTyped, AnswersTyped DEF WeIdStep
<1> QED BY <1>2, <1>3

-----------------------------------------------------------------------------
(***************************************************************************)
(* Steps of a restore.                                                     *)
(***************************************************************************)

\* A step after which no restore is in flight and none has just ended.
LEMMA QuietStep ==
  ASSUME RestoreInv, Working', restore' = Nil, outcome' = Nil,
         isNullWithFirstRequest' \in BOOLEAN, UNCHANGED before
  PROVE  RestoreInv'
<1>1. RestoreTypeOK'
  BY DEF RestoreInv, RestoreTypeOK, Working
<1>2. Restoring' /\ FailedRestoreKeepsWallet' /\ RestoredHaveKeys'
  BY OutcomeAssumption DEF Restoring, FailedRestoreKeepsWallet, RestoredHaveKeys
<1> QED BY <1>1, <1>2 DEF RestoreInv, Working, Idle

\* The invariant holds of what the other components work with.
LEMMA RestoreWorking == RestoreInv => Working
BY DEF RestoreInv, RestoreTypeOK, WeIdTypeOK, Working, Idle

\* The import, and the first request.
LEMMA BeginRestoreStep ==
  ASSUME AppWaits, RestoreInv, NEW m \in Mnemonics, NEW p \in UnlockPwds, BeginRestore(m, p)
  PROVE  RestoreInv'
<1> DEFINE kc == SavedAsNext(m, AtLeastStartIndex(0), p, {})
<1>1. WalletTypeOK /\ NamesInUse /\ NamesTaken /\ UnusedUnlisted
  BY DEF RestoreInv, RestoreTypeOK, WeIdTypeOK, NamesInUse
<1>2. /\ TakeNextName /\ keychain' = kc /\ weIdList' = weIdList
      /\ current' = NextName /\ previous' = current /\ keyStore' = NextName
      /\ SetCurrentWallet(NextName)
      /\ InitHDWalletSuccess(NextName, AtLeastStartIndex(0), p)
  BY NothingDeleted
     DEF BeginRestore, ImportHDWallet, BatchAddDone, LifecycleItems, ForgetWeIds,
         SetCurrentWallet, InitHDWalletSuccess
<1>3. /\ restore' = [masterKey |-> MasterKey(m), start |-> StartIndex] /\ outcome' = Nil
      /\ before' = IF current # Nil /\ Whole(keychain[current]) THEN current ELSE Nil
      /\ UNCHANGED <<chain, calls, isNullWithFirstRequest>> /\ calls' = NoCalls
  BY DEF BeginRestore, MayCall, Remember, lookupVars
<1>4. /\ NextName \in Names /\ NextName # Nil /\ current # NextName
      /\ walletIndex' = NextName
  BY <1>1, <1>2, NextNameFree, NilIsNoName
<1>5. AtLeastStartIndex(0) \in Nat /\ AtLeastStartIndex(0) >= StartIndex /\ StartIndex \in Nat
  BY WalletAssumption DEF AtLeastStartIndex
<1>6. /\ kc \in [Names -> Stores] /\ \A v \in Names : v # NextName => kc[v] = keychain[v]
      /\ IsWallet(kc[NextName], m, p)
  BY <1>1, <1>4, <1>5, SavedAsNextDomain
<1> HIDE DEF kc
<1>7. weIdList \in [Names -> Seq(WeIds)] /\ current \in Names \cup {Nil}
  BY <1>1 DEF WalletTypeOK
<1>8. WalletTypeOK' /\ NamesInUse'
  BY <1>1, <1>2, <1>5, <1>6, <1>7, NameTakenStep
<1>9. walletIndex \in Int /\ NextName = walletIndex + 1
  BY <1>1, WalletAssumption DEF WalletTypeOK, NextName
<1>10. UnusedUnlisted' /\ weIdList'[current'] = <<>>
  BY <1>1, <1>2, <1>4, <1>9 DEF UnusedUnlisted, Names
<1>11. SessionStarted'
  BY <1>2, <1>5 DEF SessionStarted, InitHDWalletSuccess
<1>12. before' # Nil => previous' = before' /\ Whole(keychain'[before'])
  BY <1>2, <1>3, <1>4, <1>6, <1>7
<1>13. Restoring'
  <2>1. restore'.start = StartIndex
    BY <1>3
  <2>2. Whole(keychain'[current'])
    BY <1>2, <1>6 DEF Whole
  <2> QED BY <1>2, <1>3, <1>4, <1>5, <1>10, <1>12, <2>1, <2>2 DEF Restoring
<1>14. RestoreTypeOK'
  <2>1. restore' \in [masterKey : {MasterKey(n) : n \in Mnemonics}, start : Nat]
    BY <1>3, <1>5
  <2>2. before' \in Names \cup {Nil}
    BY <1>3, <1>7
  <2>3. WeIdTypeOK'
    BY <1>3, <1>8 DEF RestoreInv, RestoreTypeOK, WeIdTypeOK
  <2> QED BY <1>3, <2>1, <2>2, <2>3 DEF RestoreInv, RestoreTypeOK
<1>15. FailedRestoreKeepsWallet' /\ RestoredHaveKeys'
  BY <1>3, OutcomeAssumption DEF FailedRestoreKeepsWallet, RestoredHaveKeys
<1> QED BY <1>8, <1>10, <1>11, <1>13, <1>14, <1>15 DEF RestoreInv

\* A list that is forgotten, and the others.
LEMMA ForgottenLists ==
  ASSUME NEW lists \in [Names -> Seq(WeIds)], NEW v \in Names \cup {Nil}
  PROVE  \A w \in Names : w # v => ForgetWeIds(lists, v)[w] = lists[w]
<1> DEFINE S == Seq(WeIds)
<1>1. lists \in [Names -> S]
  OBVIOUS
<1> HIDE DEF S
<1> QED BY <1>1 DEF ForgetWeIds

\* An import that the keychain refuses; the session and the names stay in use.
LEMMA BeginRestoreRefusedStep ==
  ASSUME RestoreInv, NEW m \in Mnemonics, NEW p \in UnlockPwds, NEW refused,
         BeginRestoreRefused(m, p, refused)
  PROVE  RestoreInv'
<1> DEFINE kc == SavedAsNext(m, StartIndex, p, refused)
           new == IF IsHDWalletCreated THEN NextName ELSE Nil
           kn == DeletedFrom(kc, new)
           ln == ForgetWeIds(weIdList, new)
<1>1. WalletTypeOK /\ NamesInUse /\ NamesTaken /\ UnusedUnlisted /\ SessionStarted
  BY DEF RestoreInv, RestoreTypeOK, WeIdTypeOK, NamesInUse
<1>2. /\ TakeNextName /\ keychain' = DeletedFrom(kn, current)
      /\ weIdList' = ForgetWeIds(ln, current)
      /\ current' = (IF previous # Nil THEN previous ELSE current)
      /\ previous' = (IF previous # Nil THEN current ELSE previous)
      /\ restore' = Nil /\ outcome' = "refused"
      /\ before' = (IF current # Nil /\ Whole(keychain[current]) THEN current ELSE Nil)
      /\ UNCHANGED <<keyStore, currentIndex, inited, unlockPwd>>
      /\ UNCHANGED <<chain, calls, isNullWithFirstRequest>>
  BY DEF BeginRestoreRefused, InitHDWalletFailed, Remember, memory, lookupVars
<1>3. /\ NextName \in Names /\ walletIndex' = NextName /\ walletIndex' \in -1 .. MaxWallets - 1
      /\ current # Nil => current <= walletIndex'
      /\ current \in Names \cup {Nil} /\ previous \in Names \cup {Nil}
      /\ keychain \in [Names -> Stores] /\ weIdList \in [Names -> Seq(WeIds)]
  BY <1>1, <1>2, NextNameFree DEF WalletTypeOK
<1>4. previous # Nil => previous <= walletIndex'
  BY <1>1, <1>3, WalletAssumption DEF NamesInUse, WalletTypeOK, NextName, Names
<1>5. new \in Names \cup {Nil}
  BY <1>3
<1>6. kc \in [Names -> Stores]
  BY <1>1, <1>3, SavedAsNextDomain, StartIndexKept
<1> HIDE DEF kc, new
<1>7. kn \in [Names -> Stores] /\ ln \in [Names -> Seq(WeIds)]
  BY <1>3, <1>5, <1>6, DeletedDomain, ForgottenType
<1>8. \A w \in Names : ln[w] \in {weIdList[w], <<>>}
  BY <1>3, <1>5, ForgottenList
<1> HIDE DEF kn, ln
<1>9. keychain' \in [Names -> Stores] /\ weIdList' \in [Names -> Seq(WeIds)]
  BY <1>2, <1>3, <1>7, DeletedDomain, ForgottenType
<1>10. \A w \in Names : weIdList'[w] \in {weIdList[w], <<>>}
  BY <1>2, <1>3, <1>7, <1>8, ForgottenList
<1>11. WalletTypeOK'
  BY <1>1, <1>2, <1>3, <1>9 DEF WalletTypeOK
<1>12. NamesInUse'
  BY <1>1, <1>2, <1>3, <1>4 DEF NamesInUse, NamesTaken
<1>13. SessionStarted'
  BY <1>1, <1>2 DEF SessionStarted
<1>14. UnusedUnlisted'
  <2> SUFFICES ASSUME NEW w \in Names, w > walletIndex'
               PROVE  weIdList'[w] = <<>>
    BY DEF UnusedUnlisted
  <2>1. walletIndex \in Int /\ NextName = walletIndex + 1 /\ w \in Int
    BY <1>1, WalletAssumption DEF WalletTypeOK, NextName, Names
  <2> QED BY <1>1, <1>3, <1>10, <2>1 DEF UnusedUnlisted
<1>15. Working'
  BY <1>2, <1>11, <1>12, <1>13, <1>14
     DEF Working, Idle, RestoreInv, RestoreTypeOK, WeIdTypeOK
<1>16. RestoreTypeOK'
  BY <1>2, <1>3, <1>15 DEF RestoreInv, RestoreTypeOK, Working
<1>17. Restoring' /\ FailedRestoreKeepsWallet' /\ RestoredHaveKeys'
  BY <1>2 DEF Restoring, FailedRestoreKeepsWallet, RestoredHaveKeys
<1> QED BY <1>12, <1>13, <1>14, <1>16, <1>17 DEF RestoreInv

\* While a lookup is in flight.
LEMMA InRestore ==
  ASSUME RestoreInv, restore # Nil
  PROVE  /\ current \in Names /\ current # Nil /\ keyStore = current /\ previous # current
         /\ previous \in Names \cup {Nil} /\ weIdList[current] = <<>>
         /\ Whole(keychain[current]) /\ calls = NoCalls
         /\ before # Nil => before \in Names /\ previous = before /\ Whole(keychain[before])
         /\ keychain \in [Names -> Stores] /\ weIdList \in [Names -> Seq(WeIds)]
         /\ restore \in [masterKey : {MasterKey(n) : n \in Mnemonics}, start : Nat]
         /\ restore.start \in Nat /\ restore.start >= StartIndex /\ StartIndex \in Nat
         /\ Bucket \in Nat
BY NilIsNoName, StartIndexKept, BucketAssumption
   DEF RestoreInv, Restoring, RestoreTypeOK, WeIdTypeOK, WalletTypeOK

\* __initHDWalletFailed: whatever was written to the new wallet, it is deleted
\* and the previous wallet, which was not touched, is current again.
LEMMA FailedStep ==
  ASSUME RestoreInv, restore # Nil,
         NEW kc \in [Names -> Stores], \A v \in Names : v # current => kc[v] = keychain[v],
         NEW lists \in [Names -> Seq(WeIds)],
         \A v \in Names : v # current => lists[v] = weIdList[v],
         InitHDWalletFailed(kc, lists, current, previous), outcome' = "failed",
         UNCHANGED <<walletIndex, keyStore, inited, unlockPwd, chain, calls, before>>,
         \/ currentIndex' = currentIndex
         \/ currentIndex' \in Nat /\ currentIndex' >= StartIndex,
         isNullWithFirstRequest' \in BOOLEAN
  PROVE  RestoreInv' /\ (before # Nil => keychain'[before] = keychain[before])
<1>1. /\ WalletTypeOK /\ NamesInUse /\ NamesTaken /\ UnusedUnlisted /\ SessionStarted
      /\ walletIndex \in Int
  BY WalletAssumption DEF RestoreInv, RestoreTypeOK, WeIdTypeOK, NamesInUse, WalletTypeOK
<1>2. /\ current \in Names /\ current # Nil /\ previous # current
      /\ previous \in Names \cup {Nil}
      /\ before # Nil => before \in Names /\ previous = before /\ Whole(keychain[before])
  BY InRestore
<1>3. /\ keychain' = DeletedFrom(kc, current) /\ weIdList' = ForgetWeIds(lists, current)
      /\ current' = (IF previous # Nil THEN previous ELSE current)
      /\ previous' = (IF previous # Nil THEN current ELSE previous)
      /\ restore' = Nil
  BY DEF InitHDWalletFailed
<1>4. /\ keychain' \in [Names -> Stores] /\ weIdList' \in [Names -> Seq(WeIds)]
      /\ \A v \in Names : v # current => keychain'[v] = keychain[v]
      /\ \A v \in Names : v # current => weIdList'[v] = weIdList[v]
  <2>1. /\ keychain' \in [Names -> Stores]
        /\ \A v \in Names : v # current => keychain'[v] = kc[v]
    BY <1>2, <1>3, DeletedDomain
  <2>2. weIdList' \in [Names -> Seq(WeIds)]
    BY <1>2, <1>3, ForgottenType
  <2>3. \A v \in Names : v # current => weIdList'[v] = lists[v]
    BY <1>2, <1>3, ForgottenLists
  <2> QED BY <2>1, <2>2, <2>3
<1>5. before # Nil => current' = before /\ keychain'[before] = keychain[before]
  BY <1>2, <1>3, <1>4
<1>6. WalletTypeOK'
  BY <1>1, <1>2, <1>3, <1>4 DEF WalletTypeOK
<1>7. NamesInUse'
  BY <1>1, <1>2, <1>3 DEF NamesInUse, NamesTaken
<1>8. SessionStarted'
  BY <1>1 DEF SessionStarted
<1>9. UnusedUnlisted'
  <2> SUFFICES ASSUME NEW w \in Names, w > walletIndex'
               PROVE  weIdList'[w] = <<>>
    BY DEF UnusedUnlisted
  <2>1. w # current
    BY <1>1, <1>2 DEF NamesTaken, Names
  <2> QED BY <1>1, <1>4, <2>1 DEF UnusedUnlisted
<1>10. RestoreTypeOK'
  BY <1>3, <1>6 DEF RestoreInv, RestoreTypeOK, WeIdTypeOK
<1>11. Restoring' /\ RestoredHaveKeys'
  BY <1>3 DEF Restoring, RestoredHaveKeys
<1>12. FailedRestoreKeepsWallet'
  BY <1>2, <1>5 DEF FailedRestoreKeepsWallet
<1> QED BY <1>5, <1>7, <1>8, <1>9, <1>10, <1>11, <1>12 DEF RestoreInv

\* A lookup that fails, or finds nothing at first.
LEMMA LookupFailsStep ==
  ASSUME RestoreInv, OnLookupFails \/ OnLookupEmpty
  PROVE  RestoreInv' /\ (before # Nil => keychain'[before] = keychain[before])
<1>1. /\ restore # Nil /\ InitHDWalletFailed(keychain, weIdList, current, previous)
      /\ outcome' = "failed"
      /\ UNCHANGED <<walletIndex, keyStore, inited, unlockPwd, chain, calls, before>>
      /\ currentIndex' = currentIndex /\ isNullWithFirstRequest' = isNullWithFirstRequest
  BY DEF OnLookupFails, OnLookupEmpty, memory, lookupVars
<1>2. keychain \in [Names -> Stores] /\ weIdList \in [Names -> Seq(WeIds)]
  BY <1>1, InRestore
<1>3. isNullWithFirstRequest' \in BOOLEAN
  BY <1>1 DEF RestoreInv, RestoreTypeOK
<1> QED BY <1>1, <1>2, <1>3, FailedStep

\* A full bucket: the next one is asked for with the open wallet's keys, or the
\* restore fails.
LEMMA LookupFullStep ==
  ASSUME RestoreInv, OnLookupFull
  PROVE  RestoreInv' /\ (before # Nil => keychain'[before] = keychain[before])
<1> DEFINE key == LoadMasterKey(keychain[keyStore], unlockPwd)
<1>1. /\ restore # Nil /\ isNullWithFirstRequest' = TRUE
      /\ UNCHANGED <<walletIndex, memory, chain, calls, before>>
      /\ \/ /\ key # Nil
            /\ restore' = [masterKey |-> key, start |-> restore.start + Bucket]
            /\ outcome' = Nil /\ UNCHANGED <<keychain, current, previous, weIdList>>
         \/ /\ InitHDWalletFailed(keychain, weIdList, current, previous)
            /\ outcome' = "failed"
  BY DEF OnLookupFull
<1>2. /\ restore.start \in Nat /\ restore.start >= StartIndex /\ StartIndex \in Nat
      /\ Bucket \in Nat /\ keyStore \in Names
      /\ keychain \in [Names -> Stores] /\ weIdList \in [Names -> Seq(WeIds)]
  BY <1>1, InRestore
<1>3. CASE /\ InitHDWalletFailed(keychain, weIdList, current, previous)
           /\ outcome' = "failed"
  BY <1>1, <1>2, <1>3, FailedStep DEF memory
<1>4. CASE /\ key # Nil
           /\ restore' = [masterKey |-> key, start |-> restore.start + Bucket]
           /\ outcome' = Nil /\ UNCHANGED <<keychain, current, previous, weIdList>>
  <2>1. PICK m \in Mnemonics, p \in UnlockPwds :
          keychain[keyStore].master = AesEncrypt(MasterKey(m), HashTwice(p))
    <3>1. keychain[keyStore].master \in MasterKeyCiphers
      BY <1>2, <1>4 DEF LoadMasterKey, Stores
    <3> QED BY <3>1 DEF MasterKeyCiphers
  <2>2. keychain[keyStore].master.content = MasterKey(m)
    BY <2>1 DEF AesEncrypt
  <2>3. key = MasterKey(m)
    BY <1>4, <2>2 DEF LoadMasterKey, AesDecrypt
  <2> HIDE DEF key
  <2>4. /\ restore' \in [masterKey : {MasterKey(n) : n \in Mnemonics}, start : Nat]
        /\ restore'.start >= StartIndex
    BY <1>2, <1>4, <2>3
  <2>5. UNCHANGED walletVars
    BY <1>1, <1>4 DEF walletVars, defaults
  <2>6. Idle'
    BY <2>5, WalletSame DEF RestoreInv, RestoreTypeOK, WeIdTypeOK, Idle
  <2>7. RestoreTypeOK'
    BY <1>1, <1>4, <2>4, <2>6 DEF RestoreInv, RestoreTypeOK, WeIdTypeOK, Idle
  <2>8. Restoring'
    BY <1>1, <1>4, <2>4 DEF RestoreInv, Restoring, memory
  <2>9. FailedRestoreKeepsWallet' /\ RestoredHaveKeys'
    BY <1>4, OutcomeAssumption DEF FailedRestoreKeepsWallet, RestoredHaveKeys
  <2> QED BY <1>4, <2>6, <2>7, <2>8, <2>9 DEF RestoreInv, Idle
<1> QED BY <1>1, <1>3, <1>4

\* saveWeIdInfoAndCurrentIndex writes key pairs to the new wallet only, and when
\* no add is refused one for every WeId found.
LEMMA PairsStored ==
  ASSUME RestoreInv, restore # Nil, NEW refused, NEW kc, kc = WithPairs(keychain, refused)
  PROVE  /\ kc \in [Names -> Stores]
         /\ \A v \in Names : v # current => kc[v] = keychain[v]
         /\ Whole(kc[current])
         /\ refused = {} =>
              \A i \in DOMAIN Found : kc[current].pairs[Found[i]] \in KeyPairs
<1> DEFINE P == KeyPairs \cup {Nil}
           old == keychain[current].pairs
           ps == [weId \in WeIds |->
                    IF \E i \in DOMAIN Found : Found[i] = weId
                    THEN LET i == CHOOSE j \in DOMAIN Found : Found[j] = weId
                         IN Add(Keys[i], i \notin refused)
                    ELSE old[weId]]
<1>1. current \in Names /\ keyStore = current /\ keychain \in [Names -> Stores]
  BY InRestore
<1>2. /\ \A i \in DOMAIN Found : Keys[i] \in KeyPairs
      /\ \A i \in DOMAIN Found : Found[i] \in WeIds
  BY FoundIs
<1>3. old \in [WeIds -> P]
  BY <1>1 DEF Stores
<1>4. ASSUME NEW weId \in WeIds
      PROVE  /\ ps[weId] \in P
             /\ refused = {} /\ (\E i \in DOMAIN Found : Found[i] = weId)
                  => ps[weId] \in KeyPairs
  <2>1. CASE \E i \in DOMAIN Found : Found[i] = weId
    <3> DEFINE i == CHOOSE j \in DOMAIN Found : Found[j] = weId
    <3>1. i \in DOMAIN Found
      BY <2>1
    <3>2. ps[weId] = Add(Keys[i], i \notin refused)
      BY <2>1
    <3> HIDE DEF i, ps
    <3> QED BY <1>2, <3>1, <3>2 DEF Add
  <2>2. CASE ~\E i \in DOMAIN Found : Found[i] = weId
    <3>1. ps[weId] = old[weId]
      BY <2>2
    <3> HIDE DEF ps, old
    <3> QED BY <1>3, <2>2, <3>1
  <2> QED BY <2>1, <2>2
<1>5. kc = [keychain EXCEPT ![current].pairs = ps]
  BY <1>1 DEF WithPairs
<1>6. ps \in [WeIds -> P]
  BY <1>4
<1> HIDE DEF ps
<1>7. [keychain[current] EXCEPT !.pairs = ps] \in Stores
  BY <1>1, <1>6 DEF Stores
<1>8. /\ kc \in [Names -> Stores] /\ \A v \in Names : v # current => kc[v] = keychain[v]
      /\ kc[current] = [keychain[current] EXCEPT !.pairs = ps]
  BY <1>1, <1>5, <1>7
<1>9. kc[current].pairs = ps
  <2>1. keychain[current] \in Stores
    BY <1>1
  <2> QED BY <1>8, <2>1 DEF Stores
<1>10. refused = {} => \A i \in DOMAIN Found : kc[current].pairs[Found[i]] \in KeyPairs
  BY <1>2, <1>4, <1>9
<1>11. Whole(kc[current])
  <2>1. keychain[current] \in Stores /\ Whole(keychain[current])
    BY <1>1, InRestore
  <2>2. /\ kc[current].master = keychain[current].master
        /\ kc[current].mnemonics = keychain[current].mnemonics
        /\ kc[current].index = keychain[current].index
        /\ kc[current].pwdHash = keychain[current].pwdHash
    BY <1>8, <2>1 DEF Stores
  <2> QED BY <2>1, <2>2 DEF Whole, IsWallet, LoadMasterKey, LoadMnemonics
<1> QED BY <1>8, <1>10, <1>11

\* Wallet w of kcIndex is that of kc with index i, and still whole.
OnlyIndexMoved(kc, kcIndex, w, i) ==
  /\ kcIndex \in [Names -> Stores]
  /\ \A v \in Names : v # w => kcIndex[v] = kc[v]
  /\ Whole(kcIndex[w]) /\ kcIndex[w].index = i
  /\ kcIndex[w].pairs = kc[w].pairs

\* With the index stored the new wallet is complete.
LEMMA IndexCompletes ==
  ASSUME NEW kc, NEW t, RestoreInv, restore # Nil, IndexStored(TRUE),
         kc \in [Names -> Stores], Whole(kc[current]),
         t = [kc EXCEPT ![keyStore].index = StoredIndex(RestoredIndex, TRUE)]
  PROVE  OnlyIndexMoved(kc, t, current, RestoredIndex + 1)
<1> DEFINE x == StoredIndex(RestoredIndex, TRUE)
<1>1. current \in Names /\ keyStore = current /\ kc[current] \in Stores
  BY InRestore
<1>2. RestoredIndex \in Nat
  <2>1. Len(Found) \in Nat /\ restore.start \in Nat
    BY FoundIs, InRestore, BucketAssumption
  <2> QED BY <2>1 DEF RestoredIndex
<1>3. x = RestoredIndex + 1 /\ x \in Nat /\ x # Nil
  BY <1>2, WalletAssumption DEF IndexStored, UpdateDone, StoredIndex, Update
<1>4. t = [kc EXCEPT ![current].index = x]
  BY <1>1
<1> HIDE DEF x
<1>5. t = [kc EXCEPT ![current] = [kc[current] EXCEPT !.index = x]]
  BY <1>1, <1>4
<1>6. [kc[current] EXCEPT !.index = x] \in Stores
  BY <1>1, <1>3 DEF Stores
<1>7. /\ t \in [Names -> Stores] /\ \A v \in Names : v # current => t[v] = kc[v]
      /\ t[current] = [kc[current] EXCEPT !.index = x]
  BY <1>1, <1>5, <1>6
<1>8. /\ t[current].master = kc[current].master /\ t[current].index = x
      /\ t[current].mnemonics = kc[current].mnemonics
      /\ t[current].pwdHash = kc[current].pwdHash /\ t[current].pairs = kc[current].pairs
  BY <1>1, <1>7 DEF Stores
<1>9. Whole(t[current])
  <2>1. PICK m \in Mnemonics, p \in UnlockPwds : IsWallet(kc[current], m, p)
    BY DEF Whole
  <2>2. m # Nil
    BY WalletAssumption
  <2>3. kc[current].index # Nil
    BY <2>1, <2>2 DEF IsWallet, LoadMnemonics
  <2>4. t[current].index # Nil
    BY <1>3, <1>8
  <2>5. IsWallet(t[current], m, p)
    <3> DEFINE s == kc[current]
               u == t[current]
    <3>1. /\ u.master = s.master /\ u.mnemonics = s.mnemonics
          /\ u.pwdHash = s.pwdHash /\ s.index # Nil /\ u.index # Nil
      BY <1>8, <2>3, <2>4
    <3>2. IsWallet(s, m, p)
      BY <2>1
    <3> HIDE DEF s, u
    <3>3. IsWallet(u, m, p)
      BY <3>1, <3>2, IndexWritten
    <3> QED BY <3>3 DEF u
  <2> QED BY <2>5 DEF Whole
<1> QED BY <1>3, <1>7, <1>8, <1>9 DEF OnlyIndexMoved

\* The new wallet's list is what was found.
LEMMA FoundListed ==
  ASSUME RestoreInv, restore # Nil, NEW l, l = WithFound(weIdList)
  PROVE  /\ l \in [Names -> Seq(WeIds)] /\ l[current] = Found
         /\ \A v \in Names : v # current => l[v] = weIdList[v]
<1> DEFINE S == Seq(WeIds)
<1>1. /\ weIdList \in [Names -> S] /\ current \in Names /\ weIdList[current] = <<>>
      /\ Found \in S
  BY InRestore, FoundIs
<1>2. weIdList[current] \o Found = Found
  BY <1>1
<1> HIDE DEF S
<1>3. l = [weIdList EXCEPT ![current] = Found]
  BY <1>1, <1>2 DEF WithFound
<1>4. /\ l \in [Names -> S] /\ l[current] = Found
      /\ \A v \in Names : v # current => l[v] = weIdList[v]
  BY <1>1, <1>3
<1> QED BY <1>4 DEF S

\* When every key pair, the list and the index are written, the new wallet is
\* complete, and it stays so while the previous wallet and its list are deleted.
LEMMA SavedStep ==
  ASSUME RestoreInv, restore # Nil, IndexStored(TRUE),
         keychain' = DeletedFrom(WithIndex(WithPairs(keychain, {})), previous),
         weIdList' \in {WithFound(weIdList), ForgetWeIds(WithFound(weIdList), previous)}
  PROVE  /\ keychain' \in [Names -> Stores] /\ weIdList' \in [Names -> Seq(WeIds)]
         /\ \A v \in Names : v # current => weIdList'[v] \in {weIdList[v], <<>>}
         /\ SavedWhole(keychain'[current], weIdList'[current])
<1> DEFINE kc == WithPairs(keychain, {})
           kcIndex == WithIndex(kc)
           lists == WithFound(weIdList)
<1>1. /\ current \in Names /\ previous # current /\ previous \in Names \cup {Nil}
      /\ weIdList \in [Names -> Seq(WeIds)]
  BY InRestore
<1>2. /\ kc \in [Names -> Stores] /\ Whole(kc[current])
      /\ \A i \in DOMAIN Found : kc[current].pairs[Found[i]] \in KeyPairs
  BY PairsStored
<1>3. /\ lists \in [Names -> Seq(WeIds)] /\ lists[current] = Found
      /\ \A v \in Names : v # current => lists[v] = weIdList[v]
  BY FoundListed
<1> HIDE DEF kc, lists
<1>4. /\ kcIndex \in [Names -> Stores] /\ Whole(kcIndex[current])
      /\ kcIndex[current].index = RestoredIndex + 1
      /\ kcIndex[current].pairs = kc[current].pairs
  <2>1. kcIndex = [kc EXCEPT ![keyStore].index = StoredIndex(RestoredIndex, TRUE)]
    BY DEF WithIndex
  <2>2. kc \in [Names -> Stores] /\ Whole(kc[current])
    BY <1>2
  <2> HIDE DEF kcIndex
  <2>3. OnlyIndexMoved(kc, kcIndex, current, RestoredIndex + 1)
    BY <2>1, <2>2, IndexCompletes
  <2> QED BY <2>3 DEF OnlyIndexMoved
<1>5. keychain' = DeletedFrom(kcIndex, previous) /\ weIdList' \in {lists, ForgetWeIds(lists, previous)}
  BY DEF kc, lists
<1> HIDE DEF kcIndex
<1>6. keychain' \in [Names -> Stores] /\ keychain'[current] = kcIndex[current]
  BY <1>1, <1>4, <1>5, DeletedDomain
<1>7. weIdList' \in [Names -> Seq(WeIds)]
  BY <1>1, <1>3, <1>5, ForgottenType
<1>8. weIdList'[current] = Found
  BY <1>1, <1>3, <1>5, ForgottenLists
<1>9. \A v \in Names : v # current => weIdList'[v] \in {weIdList[v], <<>>}
  BY <1>1, <1>3, <1>5, ForgottenList
<1>10. \A weId \in ToSet(weIdList'[current]) : keychain'[current].pairs[weId] # Nil
  <2>1. \A i \in DOMAIN Found : keychain'[current].pairs[Found[i]] # Nil
    BY <1>2, <1>4, <1>6, OutcomeAssumption
  <2>2. ToSet(Found) = {Found[i] : i \in DOMAIN Found}
    BY DEF ToSet
  <2> HIDE DEF Found
  <2> QED BY <1>8, <2>1, <2>2
<1>11. SavedWhole(keychain'[current], weIdList'[current])
  BY <1>4, <1>6, <1>8, <1>10 DEF SavedWhole
<1> QED BY <1>6, <1>7, <1>9, <1>11

\* The end of a restore: only when every add and the update were accepted is the
\* previous wallet deleted, and then the new one is complete.
LEMMA LookupLastStep ==
  ASSUME RestoreInv, NEW refused, NEW okIndex \in BOOLEAN, OnLookupLast(refused, okIndex)
  PROVE  /\ RestoreInv'
         /\ \/ before # Nil => keychain'[before] = keychain[before]
            \/ SavedWhole(keychain'[current], weIdList'[current])
<1> DEFINE kc == WithPairs(keychain, refused)
           lists == WithFound(weIdList)
<1>1. restore # Nil
  BY DEF OnLookupLast
<1>2. /\ current \in Names /\ current # Nil
      /\ keychain \in [Names -> Stores] /\ weIdList \in [Names -> Seq(WeIds)]
      /\ restore.start \in Nat /\ restore.start >= StartIndex /\ StartIndex \in Nat
  BY <1>1, InRestore
<1>3. /\ isNullWithFirstRequest' = TRUE
      /\ UNCHANGED <<walletIndex, keyStore, inited, unlockPwd, chain, calls, before>>
  BY DEF OnLookupLast
<1>4. /\ kc \in [Names -> Stores] /\ \A v \in Names : v # current => kc[v] = keychain[v]
  BY <1>1, PairsStored
<1>5. /\ lists \in [Names -> Seq(WeIds)]
      /\ \A v \in Names : v # current => lists[v] = weIdList[v]
  BY <1>1, FoundListed
<1>6. /\ RestoredIndex \in Nat /\ RestoredIndex + 1 \in Nat /\ RestoredIndex + 1 >= StartIndex
  <2>1. Len(Found) \in Nat
    BY <1>1, <1>2, FoundIs, BucketAssumption
  <2> QED BY <1>2, <2>1 DEF RestoredIndex
<1>7. \/ /\ InitHDWalletFailed(kc, weIdList, current, previous)
         /\ outcome' = "failed" /\ currentIndex' = currentIndex
      \/ /\ InitHDWalletFailed(kc, lists, current, previous)
         /\ outcome' = "failed" /\ currentIndex' = RestoredIndex + 1
      \/ /\ refused = {} /\ IndexStored(okIndex) /\ currentIndex' = RestoredIndex + 1
         /\ keychain' = DeletedFrom(WithIndex(kc), previous)
         /\ weIdList' = ForgetWeIds(lists, previous)
         /\ previous' = Nil /\ restore' = Nil /\ outcome' = "restored" /\ current' = current
  BY DEF OnLookupLast, BatchAddDone
<1> HIDE DEF kc, lists
<1>8. CASE /\ InitHDWalletFailed(kc, weIdList, current, previous)
           /\ outcome' = "failed" /\ currentIndex' = currentIndex
  BY <1>1, <1>2, <1>3, <1>4, <1>8, FailedStep
<1>9. CASE /\ InitHDWalletFailed(kc, lists, current, previous)
           /\ outcome' = "failed" /\ currentIndex' = RestoredIndex + 1
  <2>1. currentIndex' \in Nat /\ currentIndex' >= StartIndex
    BY <1>6, <1>9
  <2> QED BY <1>1, <1>3, <1>4, <1>5, <1>9, <2>1, FailedStep
<1>10. CASE /\ refused = {} /\ IndexStored(okIndex) /\ currentIndex' = RestoredIndex + 1
            /\ keychain' = DeletedFrom(WithIndex(kc), previous)
            /\ weIdList' = ForgetWeIds(lists, previous)
            /\ previous' = Nil /\ restore' = Nil /\ outcome' = "restored" /\ current' = current
  <2>1. /\ IndexStored(TRUE)
        /\ keychain' = DeletedFrom(WithIndex(WithPairs(keychain, {})), previous)
        /\ weIdList' = ForgetWeIds(WithFound(weIdList), previous)
    BY <1>10 DEF IndexStored, UpdateDone, kc, lists
  <2>2. /\ keychain' \in [Names -> Stores] /\ weIdList' \in [Names -> Seq(WeIds)]
        /\ \A v \in Names : v # current => weIdList'[v] \in {weIdList[v], <<>>}
        /\ SavedWhole(keychain'[current], weIdList'[current])
    BY <1>1, <2>1, SavedStep
  <2>3. WalletTypeOK'
    BY <1>2, <1>3, <1>6, <1>10, <2>2 DEF RestoreInv, RestoreTypeOK, WeIdTypeOK, WalletTypeOK
  <2>4. NamesInUse' /\ SessionStarted'
    BY <1>3, <1>6, <1>10 DEF RestoreInv, NamesInUse, NamesTaken, SessionStarted
  <2>5. UnusedUnlisted'
    <3> SUFFICES ASSUME NEW w \in Names, w > walletIndex'
                 PROVE  weIdList'[w] = <<>>
      BY DEF UnusedUnlisted
    <3>1. w # current
      BY <1>2, <1>3, WalletAssumption
         DEF RestoreInv, RestoreTypeOK, WeIdTypeOK, WalletTypeOK, NamesInUse, NamesTaken, Names
    <3> QED BY <1>3, <2>2, <3>1 DEF RestoreInv, UnusedUnlisted
  <2>6. RestoreTypeOK'
    BY <1>3, <1>10, <2>3 DEF RestoreInv, RestoreTypeOK, WeIdTypeOK
  <2>7. Restoring' /\ FailedRestoreKeepsWallet'
    BY <1>10 DEF Restoring, FailedRestoreKeepsWallet
  <2>8. RestoredHaveKeys'
    BY <1>10, <2>2 DEF RestoredHaveKeys, SavedWhole
  <2> QED BY <2>2, <2>4, <2>5, <2>6, <2>7, <2>8 DEF RestoreInv
<1> QED BY <1>7, <1>8, <1>9, <1>10

-----------------------------------------------------------------------------
(***************************************************************************)
(* Kills inside a restore.                                                 *)
(***************************************************************************)

\* Whatever domains and lists a killed handler has written, the invariant holds
\* when only lists of names in use were written.
LEMMA KilledStep ==
  ASSUME RestoreInv, Killed, keychain' \in [Names -> Stores],
         weIdList' \in [Names -> Seq(WeIds)],
         \A v \in Names : v # current => weIdList'[v] \in {weIdList[v], <<>>},
         current' = current, chain' = chain,
         before' \in Names \cup {Nil},
         previous' \in {previous, current, Nil},
         \/ walletIndex' = walletIndex
         \/ TakeNextName
  PROVE  RestoreInv'
<1>1. /\ LoseMemory /\ restore' = Nil /\ isNullWithFirstRequest' = FALSE
      /\ outcome' = Nil /\ calls' = NoCalls
  BY DEF Killed
<1>2. /\ current \in Names \cup {Nil} /\ previous \in Names \cup {Nil}
      /\ walletIndex \in -1 .. MaxWallets - 1 /\ MaxWallets \in Nat
      /\ current # Nil => current <= walletIndex
      /\ previous # Nil => previous <= walletIndex
      /\ \A v \in Names : v > walletIndex => weIdList[v] = <<>>
  BY WalletAssumption
     DEF RestoreInv, RestoreTypeOK, WeIdTypeOK, WalletTypeOK, NamesInUse, NamesTaken,
         UnusedUnlisted
<1>3. walletIndex' \in -1 .. MaxWallets - 1 /\ walletIndex' >= walletIndex
  BY <1>2 DEF TakeNextName, NextName, Names
<1>4. \A v \in Names : v \in Int
  BY DEF Names
<1>5. /\ current' # Nil => current' <= walletIndex'
      /\ previous' # Nil => previous' <= walletIndex'
  BY <1>2, <1>3, <1>4
<1>6. keyStore' \in Names \cup {Nil} /\ currentIndex' \in Nat /\ inited' = FALSE
      /\ unlockPwd' \in UnlockPwds \cup {Nil}
  BY <1>1, NoMemory DEF LoseMemory
<1>7. WalletTypeOK'
  BY <1>2, <1>3, <1>6 DEF WalletTypeOK
<1>8. NamesInUse' /\ SessionStarted'
  BY <1>5, <1>6 DEF NamesInUse, NamesTaken, SessionStarted
<1>9. UnusedUnlisted'
  <2> SUFFICES ASSUME NEW w \in Names, w > walletIndex'
               PROVE  weIdList'[w] = <<>>
    BY DEF UnusedUnlisted
  <2>1. w > walletIndex /\ w # current
    BY <1>2, <1>3, <1>4, NilIsNoName
  <2> QED BY <1>2, <2>1
<1>10. NoCalls \in [Calls -> [keyPair : KeyPairs, index : Indexes, answer : Answers]
                              \cup {Nil}]
  BY DEF NoCalls
<1>11. RestoreTypeOK'
  BY <1>1, <1>7, <1>10 DEF RestoreInv, RestoreTypeOK, WeIdTypeOK
<1>12. Restoring' /\ FailedRestoreKeepsWallet' /\ RestoredHaveKeys'
  BY <1>1, OutcomeAssumption DEF Restoring, FailedRestoreKeepsWallet, RestoredHaveKeys
<1> QED BY <1>8, <1>9, <1>11, <1>12 DEF RestoreInv

\* Inside saveWeIdInfoAndCurrentIndex only the new wallet is written.
LEMMA CrashInSaveWeIdInfoStep ==
  ASSUME RestoreInv, NEW missing, NEW listWritten, NEW indexWritten,
         CrashInSaveWeIdInfo(missing, listWritten, indexWritten)
  PROVE  RestoreInv' /\ (before # Nil => keychain'[before] = keychain[before])
<1> DEFINE kc == WithPairs(keychain, missing)
<1>1. /\ restore # Nil /\ Killed
      /\ \/ keychain' = kc
         \/ keychain' = WithIndex(kc) /\ IndexStored(TRUE)
      /\ weIdList' \in {weIdList, WithFound(weIdList)}
      /\ UNCHANGED <<current, previous, walletIndex, chain, before>>
  BY DEF CrashInSaveWeIdInfo
<1>2. /\ current \in Names /\ previous # current /\ weIdList \in [Names -> Seq(WeIds)]
      /\ before # Nil => before \in Names /\ previous = before
      /\ before \in Names \cup {Nil}
  BY <1>1, InRestore DEF RestoreInv, RestoreTypeOK
<1>3. /\ kc \in [Names -> Stores] /\ Whole(kc[current])
      /\ \A v \in Names : v # current => kc[v] = keychain[v]
  BY <1>1, PairsStored
<1> HIDE DEF kc
<1>4. /\ keychain' \in [Names -> Stores]
      /\ \A v \in Names : v # current => keychain'[v] = keychain[v]
  <2>1. CASE keychain' = kc
    BY <1>3, <2>1
  <2>2. CASE keychain' = WithIndex(kc) /\ IndexStored(TRUE)
    <3>1. keychain' = [kc EXCEPT ![keyStore].index = StoredIndex(RestoredIndex, TRUE)]
      BY <2>2 DEF WithIndex
    <3>2. /\ keychain' \in [Names -> Stores]
          /\ \A v \in Names : v # current => keychain'[v] = kc[v]
      BY <1>1, <1>3, <2>2, <3>1, IndexCompletes DEF OnlyIndexMoved
    <3> QED BY <1>3, <3>2
  <2> QED BY <1>1, <2>1, <2>2
<1>5. /\ weIdList' \in [Names -> Seq(WeIds)]
      /\ \A v \in Names : v # current => weIdList'[v] = weIdList[v]
  <2>1. CASE weIdList' = weIdList
    BY <1>2, <2>1
  <2>2. CASE weIdList' = WithFound(weIdList)
    BY <1>1, <2>2, FoundListed
  <2> QED BY <1>1, <2>1, <2>2
<1>6. RestoreInv'
  BY <1>1, <1>2, <1>4, <1>5, KilledStep
<1> QED BY <1>2, <1>4, <1>6

\* Inside deletePreviousWallet the new wallet is complete.
LEMMA CrashInDeletePreviousStep ==
  ASSUME RestoreInv, NEW listDeleted, NEW nameDeleted,
         CrashInDeletePrevious(listDeleted, nameDeleted)
  PROVE  RestoreInv' /\ SavedWhole(keychain'[current], weIdList'[current])
<1>1. /\ restore # Nil /\ IndexStored(TRUE) /\ Killed
      /\ keychain' = DeletedFrom(WithIndex(WithPairs(keychain, {})), previous)
      /\ weIdList' \in {WithFound(weIdList), ForgetWeIds(WithFound(weIdList), previous)}
      /\ previous' \in {previous, Nil}
      /\ UNCHANGED <<current, walletIndex, chain, before>>
  BY DEF CrashInDeletePrevious, ForgetWeIds
<1>2. /\ keychain' \in [Names -> Stores] /\ weIdList' \in [Names -> Seq(WeIds)]
      /\ \A v \in Names : v # current => weIdList'[v] \in {weIdList[v], <<>>}
      /\ SavedWhole(keychain'[current], weIdList'[current])
  BY <1>1, SavedStep
<1>3. before' \in Names \cup {Nil}
  BY <1>1 DEF RestoreInv, RestoreTypeOK
<1> QED BY <1>1, <1>2, <1>3, KilledStep

\* Inside __initHDWalletFailed the current wallet is deleted, the others are left.
LEMMA KilledInInitFailedStep ==
  ASSUME RestoreInv, NEW kc \in [Names -> Stores], NEW lists \in [Names -> Seq(WeIds)],
         \A v \in Names : v # current => lists[v] \in {weIdList[v], <<>>},
         NEW listDeleted, NEW previousWritten,
         KilledInInitFailed(kc, lists, listDeleted, previousWritten),
         chain' = chain, before' \in Names \cup {Nil},
         walletIndex' = walletIndex \/ TakeNextName
  PROVE  /\ RestoreInv'
         /\ \A v \in Names : v # current => keychain'[v] = kc[v]
<1>1. /\ keychain' = DeletedFrom(kc, current) /\ Killed /\ current' = current
      /\ previous' \in {previous, current}
      /\ \/ weIdList' = ForgetWeIds(lists, Nil)
         \/ weIdList' = ForgetWeIds(lists, current)
  BY DEF KilledInInitFailed
<1>2. current \in Names \cup {Nil}
  BY DEF RestoreInv, RestoreTypeOK, WeIdTypeOK, WalletTypeOK
<1>3. /\ keychain' \in [Names -> Stores]
      /\ \A v \in Names : v # current => keychain'[v] = kc[v]
  BY <1>1, <1>2, DeletedDomain
<1>4. /\ weIdList' \in [Names -> Seq(WeIds)]
      /\ \A v \in Names : weIdList'[v] \in {lists[v], <<>>}
  BY <1>1, <1>2, ForgottenType, ForgottenList
<1>5. \A v \in Names : v # current => weIdList'[v] \in {weIdList[v], <<>>}
  BY <1>4
<1>6. RestoreInv'
  BY <1>1, <1>3, <1>4, <1>5, KilledStep
<1> QED BY <1>3, <1>6

\* A restore that is killed while it goes back to the wallet it was to replace.
LEMMA CrashAfterFailureStep ==
  ASSUME RestoreInv, NEW refused, NEW listDeleted, NEW previousWritten,
         \/ CrashAfterLookupFails(listDeleted, previousWritten)
         \/ CrashAfterSaveFails(refused, listDeleted, previousWritten)
  PROVE  RestoreInv' /\ (before # Nil => keychain'[before] = keychain[before])
<1>1. PICK kc \in {keychain, WithPairs(keychain, refused)},
           lists \in {weIdList, WithFound(weIdList)} :
        /\ restore # Nil /\ KilledInInitFailed(kc, lists, listDeleted, previousWritten)
        /\ UNCHANGED <<walletIndex, chain, before>>
  BY DEF CrashAfterLookupFails, CrashAfterSaveFails
<1>2. /\ current \in Names /\ previous # current /\ weIdList \in [Names -> Seq(WeIds)]
      /\ keychain \in [Names -> Stores]
      /\ before # Nil => before \in Names /\ previous = before
      /\ before \in Names \cup {Nil}
  BY <1>1, InRestore DEF RestoreInv, RestoreTypeOK
<1>3. /\ kc \in [Names -> Stores]
      /\ \A v \in Names : v # current => kc[v] = keychain[v]
  BY <1>1, <1>2, PairsStored
<1>4. /\ lists \in [Names -> Seq(WeIds)]
      /\ \A v \in Names : v # current => lists[v] \in {weIdList[v], <<>>}
  BY <1>1, <1>2, FoundListed
<1>5. /\ RestoreInv'
      /\ \A v \in Names : v # current => keychain'[v] = kc[v]
  BY <1>1, <1>2, <1>3, <1>4, KilledInInitFailedStep
<1> QED BY <1>2, <1>3, <1>5

\* The same of a refused import.
LEMMA CrashAfterRefusedStep ==
  ASSUME RestoreInv, NEW listDeleted, NEW previousWritten,
         CrashAfterRefused(listDeleted, previousWritten)
  PROVE  RestoreInv' /\ restore = Nil
<1> DEFINE kc == DeletedFrom(keychain, NextName)
           lists == ForgetWeIds(weIdList, NextName)
<1>1. /\ restore = Nil /\ TakeNextName /\ NextName \in Names
      /\ KilledInInitFailed(kc, lists, listDeleted, previousWritten)
      /\ before' \in {current, Nil} /\ chain' = chain
  BY DEF CrashAfterRefused, TakeNextName, Remember
<1>2. /\ keychain \in [Names -> Stores] /\ weIdList \in [Names -> Seq(WeIds)]
      /\ current \in Names \cup {Nil}
  BY DEF RestoreInv, RestoreTypeOK, WeIdTypeOK, WalletTypeOK
<1>3. kc \in [Names -> Stores]
  BY <1>1, <1>2, DeletedDomain
<1>4. /\ lists \in [Names -> Seq(WeIds)]
      /\ \A v \in Names : lists[v] \in {weIdList[v], <<>>}
  BY <1>1, <1>2, ForgottenType, ForgottenList
<1> HIDE DEF kc, lists
<1>5. before' \in Names \cup {Nil}
  BY <1>1, <1>2
<1> QED BY <1>1, <1>3, <1>4, <1>5, KilledInInitFailedStep

-----------------------------------------------------------------------------
\* The invariant holds on a new device.
LEMMA RestoreInitInv == RestoreInit => RestoreInv
<1> SUFFICES ASSUME RestoreInit PROVE RestoreInv
  OBVIOUS
<1>1. WeIdInv
  BY WeIdInitInv DEF RestoreInit
<1>2. RestoreTypeOK
  BY <1>1 DEF WeIdInv, RestoreInit, RestoreTypeOK
<1>3. NamesInUse
  BY DEF RestoreInit, WeIdInit, WalletInit, NamesInUse, NamesTaken
<1>4. Restoring /\ FailedRestoreKeepsWallet /\ RestoredHaveKeys
  BY OutcomeAssumption
     DEF RestoreInit, Restoring, FailedRestoreKeepsWallet, RestoredHaveKeys
<1> QED BY <1>1, <1>2, <1>3, <1>4 DEF WeIdInv, RestoreInv

\* The end of the process while a lookup is in flight: no other handler runs then.
LEMMA ProcessEndsKeeps ==
  ASSUME RestoreInv, ProcessEnds, restore # Nil, ~Crash
  PROVE  keychain' = keychain
<1>1. \A c \in Calls : calls[c] = Nil
  BY InRestore DEF NoCalls
<1> QED BY <1>1 DEF ProcessEnds, Restart, Reinstall, CrashInOnCreated

\* What a step keeps.
RestoreKeeps ==
  /\ RestoreInv'
  /\ restore # Nil /\ before # Nil /\ keychain'[before] # keychain[before]
       => SavedWhole(keychain'[current], weIdList'[current])

\* Every step keeps the invariant, and the wallet that is to be replaced.
LEMMA RestoreInvStep ==
  ASSUME AppWaits, RestoreInv, [RestoreNext]_restoreVars
  PROVE  RestoreKeeps
<1>1. CASE UNCHANGED restoreVars
  <2>1. /\ UNCHANGED walletVars /\ UNCHANGED <<chain, calls>>
        /\ UNCHANGED <<restore, isNullWithFirstRequest, outcome, before>>
    BY <1>1 DEF restoreVars, weIdVars
  <2>2. Idle'
    BY <2>1, WalletSame, RestoreWorking DEF Working
  <2>3. UNCHANGED <<keychain, current, previous, weIdList, keyStore>>
    BY <2>1 DEF walletVars, defaults, memory
  <2>4. RestoreTypeOK'
    BY <2>1, <2>2 DEF RestoreInv, RestoreTypeOK, WeIdTypeOK, Idle
  <2>5. Restoring' /\ FailedRestoreKeepsWallet' /\ RestoredHaveKeys'
    BY <2>1, <2>3 DEF RestoreInv, Restoring, FailedRestoreKeepsWallet, RestoredHaveKeys
  <2> QED BY <2>2, <2>3, <2>4, <2>5 DEF RestoreInv, Idle, RestoreKeeps
<1>2. CASE OtherCall
  <2>1. Working'
    BY <1>2, OtherStep, RestoreWorking DEF OtherCall
  <2>2. /\ restore = Nil /\ restore' = Nil /\ outcome' = Nil /\ UNCHANGED before
        /\ isNullWithFirstRequest' \in BOOLEAN
    BY <1>2 DEF OtherCall, MayCallBeside, RestoreInv, RestoreTypeOK
  <2> QED BY <2>1, <2>2, QuietStep DEF RestoreKeeps
<1>3. CASE ProcessEndsRestoring
  <2>1. Working'
    BY <1>3, OtherStep, RestoreWorking DEF ProcessEndsRestoring
  <2>2. /\ restore' = Nil /\ outcome' = Nil /\ UNCHANGED before
        /\ isNullWithFirstRequest' \in BOOLEAN /\ ProcessEnds
        /\ restore # Nil => ~Crash
    BY <1>3 DEF ProcessEndsRestoring, MayCallBeside
  <2> QED BY <2>1, <2>2, QuietStep, ProcessEndsKeeps DEF RestoreKeeps
<1>4. ASSUME NEW m \in Mnemonics, NEW p \in UnlockPwds, BeginRestore(m, p)
      PROVE  RestoreKeeps
  BY <1>4, BeginRestoreStep DEF BeginRestore, RestoreKeeps
<1>5. ASSUME NEW m \in Mnemonics, NEW p \in UnlockPwds, NEW refused,
             BeginRestoreRefused(m, p, refused)
      PROVE  RestoreKeeps
  BY <1>5, BeginRestoreRefusedStep DEF BeginRestoreRefused, RestoreKeeps
<1>6. CASE OnLookupFails \/ OnLookupEmpty
  BY <1>6, LookupFailsStep DEF RestoreKeeps
<1>7. CASE OnLookupFull
  BY <1>7, LookupFullStep DEF RestoreKeeps
<1>8. ASSUME NEW refused, NEW okIndex \in BOOLEAN, OnLookupLast(refused, okIndex)
      PROVE  RestoreKeeps
  BY <1>8, LookupLastStep DEF RestoreKeeps
<1>9. CASE RestoreStep
  <2>1. Accepted \subseteq BOOLEAN
    BY DEF Accepted
  <2> QED BY <1>4, <1>5, <1>6, <1>7, <1>8, <1>9, <2>1 DEF RestoreStep
<1>10. CASE RestoreCrash
  BY <1>10, CrashInSaveWeIdInfoStep, CrashInDeletePreviousStep, CrashAfterFailureStep,
     CrashAfterRefusedStep DEF RestoreCrash, RestoreKeeps
<1>11. CASE OtherDevice
  <2>1. /\ restore # Nil /\ chain' \subseteq KeyPairs /\ UNCHANGED <<walletVars, calls>>
        /\ outcome' = Nil /\ UNCHANGED <<restore, isNullWithFirstRequest, before>>
    BY <1>11 DEF OtherDevice, RegisterElsewhere, RestoreInv, RestoreTypeOK, WeIdTypeOK
  <2>2. calls' \in [Calls -> Requests \cup {Nil}]
    BY <2>1 DEF RestoreInv, RestoreTypeOK, WeIdTypeOK, Requests
  <2>3. Working'
    BY <2>1, <2>2, NodeTyped, RestoreWorking
  <2>4. RestoreTypeOK'
    BY <2>1, <2>3 DEF RestoreInv, RestoreTypeOK, Working
  <2>5. Restoring' /\ keychain' = keychain
    BY <2>1 DEF RestoreInv, Restoring, walletVars, defaults, memory
  <2>6. FailedRestoreKeepsWallet' /\ RestoredHaveKeys'
    BY <2>1, OutcomeAssumption DEF FailedRestoreKeepsWallet, RestoredHaveKeys
  <2> QED BY <2>3, <2>4, <2>5, <2>6 DEF RestoreInv, Working, Idle, RestoreKeeps
<1> QED BY <1>1, <1>2, <1>3, <1>9, <1>10, <1>11 DEF RestoreNext

\* RestoreInv holds on a new device and is kept by every step, of an app that
\* makes no other call during a restore and of other devices that do not care.
THEOREM RestoreInvariance ==
  ASSUME AppWaits
  PROVE  RestoreSpec => []RestoreInv
<1>1. RestoreInv /\ [RestoreNext]_restoreVars => RestoreInv'
  BY RestoreInvStep DEF RestoreKeeps
<1> QED BY <1>1, RestoreInitInv, PTL DEF RestoreSpec

\* Type correctness of a restore: what its handlers write, also after a lookup
\* with gaps, is what the items, the lists and the defaults hold.
THEOREM RestoreTypeCorrect ==
  ASSUME AppWaits
  PROVE  RestoreSpec => []RestoreTypeOK
<1>1. RestoreInv => RestoreTypeOK
  BY DEF RestoreInv
<1> QED BY <1>1, RestoreInvariance, PTL

\* A restore that fails after its import gives the old wallet back, current and
\* whole, whichever lookup, add or update failed (__initHDWalletFailed).
THEOREM FailedRestoreCorrect ==
  ASSUME AppWaits
  PROVE  RestoreSpec => []FailedRestoreKeepsWallet
<1>1. RestoreInv => FailedRestoreKeepsWallet
  BY DEF RestoreInv
<1> QED BY <1>1, RestoreInvariance, PTL

\* A restore that answers YES has a key pair for every WeId it listed, however
\* many lookups it took and whatever the node had registered.
THEOREM RestoredHaveKeysCorrect ==
  ASSUME AppWaits
  PROVE  RestoreSpec => []RestoredHaveKeys
<1>1. RestoreInv => RestoredHaveKeys
  BY DEF RestoreInv
<1> QED BY <1>1, RestoreInvariance, PTL

\* deletePreviousWallet comes last: a step that touches the wallet to be replaced,
\* killed or not, leaves the new one complete in the keychain and in its list.
THEOREM OldWalletKept ==
  ASSUME AppWaits
  PROVE  RestoreSpec => OldWalletKeptUntilSaved
<1>1. RestoreInv /\ [RestoreNext]_restoreVars =>
        [restore # Nil /\ before # Nil /\ keychain'[before] # keychain[before]
           => SavedWhole(keychain'[current], weIdList'[current])]_restoreVars
  BY RestoreInvStep DEF RestoreKeeps
<1> QED BY <1>1, RestoreInvariance, PTL DEF RestoreSpec, OldWalletKeptUntilSaved
=============================================================================
