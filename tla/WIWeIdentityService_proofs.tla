--------------------- MODULE WIWeIdentityService_proofs ---------------------
(***************************************************************************)
(* Proofs about the creation of WeIds by an app that waits for each        *)
(* answer, for every set of mnemonics, passwords and indexes, with refused *)
(* writes, lost answers, other devices and killed processes.               *)
(***************************************************************************)
EXTENDS WIWeIdentityService, WIHDWallet_proofs

\* A list with one more WeId.
LEMMA AppendedSet ==
  ASSUME NEW S, NEW l \in Seq(S), NEW x \in S
  PROVE  /\ Append(l, x) \in Seq(S)
         /\ ToSet(Append(l, x)) = ToSet(l) \cup {x}
<1>1. Append(l, x) \in Seq(S)
  OBVIOUS
<1>2. /\ DOMAIN Append(l, x) = 1 .. Len(l) + 1
      /\ DOMAIN l = 1 .. Len(l)
      /\ Len(l) \in Nat
      /\ Append(l, x)[Len(l) + 1] = x
      /\ \A i \in 1 .. Len(l) : Append(l, x)[i] = l[i]
  OBVIOUS
<1>3. \A i \in 1 .. Len(l) + 1 : i \in 1 .. Len(l) \/ i = Len(l) + 1
  BY <1>2
<1> QED BY <1>1, <1>2, <1>3 DEF ToSet

\* Nothing is in an empty list.
LEMMA EmptyList == ToSet(<<>>) = {}
BY DEF ToSet

\* The parts of a key pair.
LEMMA KeyPairParts ==
  ASSUME NEW k \in KeyPairs
  PROVE  k[1] \in Mnemonics /\ k[2] \in Indexes /\ WeIdOf(k) \in WeIds /\ WeIdOf(k)[2] = k
<1>1. PICK m \in Mnemonics, i \in Indexes : k = KeyPair(MasterKey(m), i)
  BY DEF KeyPairs
<1>2. k = <<m, i>>
  BY <1>1 DEF KeyPair, MasterKey
<1>3. k[1] = m /\ k[2] = i
  BY <1>2
<1> QED BY <1>3 DEF WeIds, WeIdOf

\* __createKeyPair:index: gives a key pair of the master key.
LEMMA DerivedKeyPair ==
  ASSUME NEW m \in Mnemonics, NEW i \in Indexes
  PROVE  LET k == KeyPair(MasterKey(m), i)
         IN k \in KeyPairs /\ k[1] = m /\ k[2] = i
<1>1. KeyPair(MasterKey(m), i) = <<m, i>>
  BY DEF KeyPair, MasterKey
<1>2. KeyPair(MasterKey(m), i) \in KeyPairs
  BY DEF KeyPairs
<1> QED BY <1>1, <1>2

\* Different mnemonics have different master keys.
LEMMA MasterKeyInjective ==
  ASSUME NEW m \in Mnemonics, NEW n \in Mnemonics, MasterKey(m) = MasterKey(n)
  PROVE  m = n
<1>1. MasterKey(m).masterOf = m /\ MasterKey(n).masterOf = n
  BY DEF MasterKey
<1> QED BY <1>1

-----------------------------------------------------------------------------
(***************************************************************************)
(* Steps of the wallet.                                                    *)
(***************************************************************************)

\* deleteWallet leaves a list alone or empties it.
LEMMA ForgottenList ==
  ASSUME NEW lists \in [Names -> Seq(WeIds)], NEW v \in Names \cup {Nil}, NEW w \in Names
  PROVE  ForgetWeIds(lists, v)[w] \in {lists[w], <<>>}
<1> DEFINE S == Seq(WeIds)
<1>1. lists \in [Names -> S]
  OBVIOUS
<1> HIDE DEF S
<1> QED BY <1>1 DEF ForgetWeIds

\* A step of the wallet leaves a list of WeIds alone or empties it, and only a
\* new installation counts its names from the start, with empty lists.
LEMMA WalletLists ==
  ASSUME WalletTypeOK, WalletNext, NEW w \in Names
  PROVE  /\ weIdList'[w] \in {weIdList[w], <<>>}
         /\ walletIndex' >= walletIndex \/ weIdList'[w] = <<>>
<1>1. /\ weIdList \in [Names -> Seq(WeIds)] /\ current \in Names \cup {Nil}
      /\ walletIndex \in Int
  BY WalletAssumption DEF WalletTypeOK
<1>2. CASE Reinstall
  BY <1>2 DEF Reinstall
<1>3. CASE ~Reinstall
  <2>1. walletIndex' = walletIndex \/ TakeNextName
    BY <1>3, WalletCounts DEF WalletNext
  <2>2. walletIndex' >= walletIndex
    BY <1>1, <2>1 DEF TakeNextName, NextName
  <2>3. weIdList' = weIdList \/ \E v \in Names \cup {Nil} : weIdList' = ForgetWeIds(weIdList, v)
    <3>1. CASE InitHDWallet
      BY <3>1 DEF InitHDWallet, LoadHDWallet, CreateHDWallet, defaults
    <3>2. CASE InitHDWalletWithMnemonics
      BY <1>1, <3>2 DEF InitHDWalletWithMnemonics, ImportHDWallet, ImportBadMnemonics,
                        TakeNextName, walletVars, defaults
    <3>3. CASE Crash
      BY <1>1, <3>3 DEF Crash, CrashInSave, CrashInReplace
    <3>4. CASE DeleteCurrentWallet \/ Restart
      BY <3>4 DEF DeleteCurrentWallet, Restart, defaults
    <3> QED BY <1>3, <3>1, <3>2, <3>3, <3>4 DEF WalletNext
  <2>4. weIdList'[w] \in {weIdList[w], <<>>}
    BY <1>1, <2>3, ForgottenList
  <2> QED BY <2>2, <2>4
<1> QED BY <1>2, <1>3

\* A wallet is opened at or above the first index.
LEMMA WalletStarts ==
  ASSUME WalletTypeOK, WalletNext, SessionStarted
  PROVE  SessionStarted'
<1>1. StartIndex \in Nat /\ \A i \in Nat : AtLeastStartIndex(i) >= StartIndex
  BY WalletAssumption DEF AtLeastStartIndex
<1>2. ASSUME UNCHANGED <<inited, currentIndex>> PROVE SessionStarted'
  BY <1>2 DEF SessionStarted
<1>3. ASSUME ~inited' PROVE SessionStarted'
  BY <1>3 DEF SessionStarted
<1>4. ASSUME currentIndex' >= StartIndex PROVE SessionStarted'
  BY <1>4 DEF SessionStarted
<1>5. ASSUME NEW p, LoadHDWallet(p) PROVE SessionStarted'
  <2>1. current \in Names /\ currentIndex' = LoadIndex(keychain[current])
    BY <1>5 DEF LoadHDWallet, IsHDWalletCreated, InitHDWalletSuccess, WalletTypeOK
  <2>2. keychain[current].index \in Nat \cup {Nil}
    BY <2>1 DEF WalletTypeOK, Stores
  <2> QED BY <1>1, <1>4, <2>1, <2>2 DEF LoadIndex
<1>6. ASSUME NEW m, NEW p, NEW refused, CreateHDWallet(m, p, refused)
      PROVE  SessionStarted'
  BY <1>1, <1>2, <1>4, <1>6 DEF CreateHDWallet, InitHDWalletSuccess, memory
<1>7. ASSUME NEW m, NEW i \in ImportIndexes, NEW p, NEW delete, NEW refused,
             ImportHDWallet(m, i, p, delete, refused)
      PROVE  SessionStarted'
  BY <1>1, <1>2, <1>4, <1>7, ImportIndexType DEF ImportHDWallet, InitHDWalletSuccess, memory
<1>8. CASE InitHDWallet
  BY <1>5, <1>6, <1>8 DEF InitHDWallet
<1>9. CASE InitHDWalletWithMnemonics
  BY <1>2, <1>7, <1>9 DEF InitHDWalletWithMnemonics, ImportBadMnemonics, walletVars, memory
<1>10. CASE DeleteCurrentWallet \/ Restart \/ Reinstall \/ Crash
  BY <1>3, <1>10 DEF DeleteCurrentWallet, Restart, Reinstall, Crash, CrashInSave,
                     CrashInReplace, LoseMemory
<1> QED BY <1>8, <1>9, <1>10 DEF WalletNext

\* The domain and the list of a wallet belong to the mnemonic m.
Belongs(w, m) ==
  /\ keychain[w].master # Nil => keychain[w].master.content = MasterKey(m)
  /\ \A weId \in ToSet(weIdList[w]) : weId[2][1] = m
  /\ \A weId \in WeIds :
       keychain[w].pairs[weId] # Nil =>
         weId = WeIdOf(keychain[w].pairs[weId]) /\ weId[2][1] = m

\* OwnWeIdsOnly in terms of it.
LEMMA OwnWeIdsBelong ==
  OwnWeIdsOnly <=>
    \A w \in Names : ~Gone(keychain[w]) => \E m \in Mnemonics : Belongs(w, m)
BY DEF OwnWeIdsOnly, Belongs

\* A new wallet's domain belongs to the mnemonic of its master key.
LEMMA FreshBelongs ==
  ASSUME NEW s \in Stores, Mnemonics # {}, Fresh(s)
  PROVE  /\ \E m \in Mnemonics : s.master # Nil => s.master.content = MasterKey(m)
         /\ \A weId \in WeIds : s.pairs[weId] = Nil
<1>1. ASSUME s.master # Nil
      PROVE  \E m \in Mnemonics : s.master.content = MasterKey(m)
  <2>1. s.master \in MasterKeyCiphers
    BY <1>1 DEF Stores
  <2>2. PICK m \in Mnemonics, p \in UnlockPwds :
          s.master = AesEncrypt(MasterKey(m), HashTwice(p))
    BY <2>1 DEF MasterKeyCiphers
  <2> QED BY <2>2 DEF AesEncrypt
<1>2. \A weId \in WeIds : s.pairs[weId] = Nil
  BY DEF Fresh, EmptyStore
<1> QED BY <1>1, <1>2

\* The step of a wallet with no request in flight after it.
LEMMA WalletCallStep ==
  ASSUME WeIdInv, WalletNext, UNCHANGED chain, calls' = NoCalls
  PROVE  WeIdInv'
<1>1. WalletInv /\ WalletTypeOK /\ ListedBelowIndex /\ UnusedUnlisted
  BY DEF WeIdInv, WalletInv
<1>2. WalletInv'
  BY <1>1, WalletStep
<1>3. /\ weIdList \in [Names -> Seq(WeIds)]
      /\ keychain' \in [Names -> Stores]
      /\ walletIndex \in Int /\ walletIndex' \in Int
  BY <1>1, <1>2, WalletAssumption DEF WalletInv, WalletTypeOK
<1>4. WeIdTypeOK'
  BY <1>2 DEF WeIdInv, WeIdTypeOK, NoCalls, WalletInv
<1>5. SessionStarted'
  BY <1>1, WalletStarts DEF WeIdInv
<1>6. OneInFlight'
  BY DEF OneInFlight, NoCalls
<1>7. UnusedUnlisted'
  <2> SUFFICES ASSUME NEW w \in Names, w > walletIndex'
               PROVE  weIdList'[w] = <<>>
    BY DEF UnusedUnlisted
  <2>1. weIdList'[w] \in {weIdList[w], <<>>} /\ (walletIndex' >= walletIndex \/ weIdList'[w] = <<>>)
    BY <1>1, WalletLists
  <2>2. w \in Int
    BY DEF Names
  <2> QED BY <1>1, <1>3, <2>1, <2>2 DEF UnusedUnlisted
<1>8. ASSUME NEW w \in Names
      PROVE  \/ keychain'[w] = EmptyStore
             \/ /\ keychain'[w] = keychain[w]
                /\ ToSet(weIdList'[w]) \subseteq ToSet(weIdList[w])
             \/ /\ Fresh(keychain'[w]) /\ Mnemonics # {}
                /\ ToSet(weIdList'[w]) = {}
  <2>1. weIdList'[w] \in {weIdList[w], <<>>}
    BY <1>1, WalletLists
  <2>2. w = NextName => weIdList[w] = <<>>
    BY <1>1, <1>3 DEF UnusedUnlisted, NextName, Names
  <2>3. DomainKept(w)
    BY <1>1, WalletDomains
  <2>4. ToSet(weIdList'[w]) \subseteq ToSet(weIdList[w])
    BY <2>1, EmptyList
  <2> QED BY <2>2, <2>3, <2>4, EmptyList DEF DomainKept
<1>9. ListedBelowIndex'
  <2> SUFFICES ASSUME NEW w \in Names, NEW weId \in ToSet(weIdList'[w]),
                      keychain'[w].index # Nil
               PROVE  weId[2][2] < keychain'[w].index
    BY DEF ListedBelowIndex
  <2>1. keychain'[w] # EmptyStore
    BY DEF EmptyStore
  <2> QED BY <1>1, <1>8, <2>1 DEF ListedBelowIndex
<1>10. OwnWeIdsOnly'
  <2> SUFFICES ASSUME NEW w \in Names, ~Gone(keychain'[w])
               PROVE  \E m \in Mnemonics : Belongs(w, m)'
    BY DEF OwnWeIdsOnly, Belongs
  <2>1. keychain'[w] # EmptyStore
    BY EmptyStoreGone
  <2>2. CASE keychain'[w] = keychain[w] /\ ToSet(weIdList'[w]) \subseteq ToSet(weIdList[w])
    <3>1. PICK m \in Mnemonics : Belongs(w, m)
      BY <2>2, OwnWeIdsBelong DEF WeIdInv
    <3>2. Belongs(w, m)'
      BY <2>2, <3>1 DEF Belongs
    <3> QED BY <3>2
  <2>3. CASE Fresh(keychain'[w]) /\ Mnemonics # {} /\ ToSet(weIdList'[w]) = {}
    <3>1. keychain'[w] \in Stores
      BY <1>3
    <3>2. PICK m \in Mnemonics :
            keychain'[w].master # Nil => keychain'[w].master.content = MasterKey(m)
      BY <2>3, <3>1, FreshBelongs
    <3>3. \A weId \in WeIds : keychain'[w].pairs[weId] = Nil
      BY <2>3, <3>1, FreshBelongs
    <3>4. Belongs(w, m)'
      BY <2>3, <3>2, <3>3 DEF Belongs
    <3> QED BY <3>4
  <2> QED BY <1>8, <2>1, <2>2, <2>3
<1> QED BY <1>2, <1>4, <1>5, <1>6, <1>7, <1>9, <1>10 DEF WeIdInv

-----------------------------------------------------------------------------
(***************************************************************************)
(* Handlers of the answer.                                                 *)
(***************************************************************************)

\* The request of a call in flight: made with the open wallet's mnemonic.
LEMMA InFlight ==
  ASSUME WeIdInv, NEW c \in Calls, calls[c] # Nil
  PROVE  /\ inited /\ keyStore = current /\ current \in Names
         /\ calls[c].keyPair \in KeyPairs
         /\ calls[c].index = currentIndex /\ currentIndex \in Indexes
         /\ calls[c].keyPair[2] = currentIndex
         /\ ~Gone(keychain[current])
         /\ keychain[current] \in Stores
         /\ keychain[current].index \in Nat
         /\ keychain[current].index <= currentIndex
         /\ Belongs(current, calls[c].keyPair[1])
         /\ \A d \in Calls : calls[d] # Nil => d = c
<1> DEFINE k == calls[c].keyPair
<1>1. /\ inited /\ calls[c].index = currentIndex /\ k[2] = currentIndex
      /\ LoadMasterKey(keychain[keyStore], unlockPwd) = MasterKey(k[1])
      /\ \A d \in Calls : calls[d] # Nil => d = c
  BY DEF WeIdInv, OneInFlight
<1>2. k \in KeyPairs /\ calls[c].index \in Indexes
  BY DEF WeIdInv, WeIdTypeOK
<1>3. WalletInv
  BY DEF WeIdInv
<1>4. keyStore = current /\ current \in Names /\ ~Gone(keychain[current])
  BY <1>1, <1>3, SessionKey
<1>5. PICK m \in Mnemonics :
        /\ IsWallet(keychain[current], m, unlockPwd)
        /\ LoadMasterKey(keychain[current], unlockPwd) = MasterKey(m)
        /\ keychain[current].master # Nil
        /\ keychain[current].master.content = MasterKey(m)
  BY <1>1, <1>3, SessionKey
<1>6. k[1] \in Mnemonics
  BY <1>2, KeyPairParts
<1>7. m = k[1]
  BY <1>1, <1>4, <1>5, <1>6, MasterKeyInjective
<1>8. PICK n \in Mnemonics : Belongs(current, n)
  BY <1>4, OwnWeIdsBelong DEF WeIdInv
<1>9. n = m
  BY <1>5, <1>8, MasterKeyInjective DEF Belongs
<1>10. keychain[current] \in Stores
  BY <1>3, <1>4 DEF WalletInv, WalletTypeOK
<1>11. keychain[current].index \in Nat
  <2>1. LoadMnemonics(keychain[current], unlockPwd) # Nil
    BY <1>5, WalletAssumption DEF IsWallet
  <2>2. keychain[current].index # Nil
    BY <2>1 DEF LoadMnemonics
  <2> QED BY <1>10, <2>2 DEF Stores
<1>12. keychain[current].index <= currentIndex
  BY <1>1, <1>3, <1>11 DEF WalletInv, SessionOpens, WalletTypeOK
<1> QED BY <1>1, <1>2, <1>4, <1>7, <1>8, <1>9, <1>10, <1>11, <1>12

\* The items a wallet is opened with are the same in s and t, and both have an
\* index or neither has.
LEMMA IndexWritten ==
  ASSUME NEW s, NEW t, t.master = s.master, t.mnemonics = s.mnemonics,
         t.pwdHash = s.pwdHash, s.index # Nil, t.index # Nil, NEW m, NEW p
  PROVE  IsWallet(t, m, p) <=> IsWallet(s, m, p)
BY DEF IsWallet, LoadMasterKey, LoadMnemonics

\* What the handler of an answer may do to the open wallet, whichever of its
\* writes is refused or not reached: the index is advanced past the key pair's,
\* the pair is stored or taken away, and the WeId is listed only if the index
\* was stored.
HandledIn(s, t, c) ==
  LET weId == WeIdOf(calls[c].keyPair)
  IN /\ t \in Stores
     /\ t.master = s.master /\ t.mnemonics = s.mnemonics /\ t.pwdHash = s.pwdHash
     /\ t.index \in {s.index, calls[c].index + 1}
     /\ \A v \in WeIds : \/ t.pairs[v] = s.pairs[v]
                         \/ v = weId /\ t.pairs[v] \in {calls[c].keyPair, Nil}

\* The wallet after the answer.
LEMMA AnsweredWallet ==
  ASSUME WeIdInv, NEW c \in Calls, calls[c] # Nil, NEW t,
         HandledIn(keychain[current], t, c),
         keychain' = [keychain EXCEPT ![current] = t],
         weIdList' \in [Names -> Seq(WeIds)],
         UNCHANGED <<current, previous, walletIndex>>,
         \/ currentIndex' = calls[c].index + 1 /\ UNCHANGED <<keyStore, inited, unlockPwd>>
         \/ LoseMemory
  PROVE  WalletInv' /\ SessionStarted'
<1> DEFINE s == keychain[current]
<1>1. /\ inited /\ keyStore = current /\ current \in Names
      /\ calls[c].index = currentIndex
      /\ s.index \in Nat /\ s.index <= currentIndex
  BY InFlight
<1>2. currentIndex \in Nat /\ StartIndex \in Nat /\ currentIndex >= StartIndex
  BY <1>1, WalletAssumption DEF WeIdInv, WalletInv, WalletTypeOK, SessionStarted
<1>3. /\ t \in Stores /\ t.master = s.master /\ t.mnemonics = s.mnemonics
      /\ t.pwdHash = s.pwdHash
      /\ t.index \in Nat /\ t.index <= currentIndex + 1
  BY <1>1, <1>2 DEF HandledIn
<1>4. s.index # Nil /\ t.index # Nil
  BY <1>1, <1>3, WalletAssumption
<1>5. keychain \in [Names -> Stores]
  BY DEF WeIdInv, WalletInv, WalletTypeOK
<1>6. keychain' \in [Names -> Stores] /\ keychain'[current] = t
  BY <1>1, <1>3, <1>5
<1>7. PICK m \in Mnemonics : IsWallet(s, m, unlockPwd)
  BY <1>1 DEF WeIdInv, WalletInv, SessionOpens
<1>8. IsWallet(t, m, unlockPwd) /\ unlockPwd \in UnlockPwds
  <2>1. IsWallet(t, m, unlockPwd)
    BY <1>3, <1>4, <1>7, IndexWritten
  <2>2. Whole(s)
    BY <1>1, SessionKey DEF WeIdInv, WalletInv, CurrentWalletWhole
  <2>3. PICK n \in Mnemonics, p \in UnlockPwds : IsWallet(s, n, p)
    BY <2>2 DEF Whole
  <2>4. LoadMasterKey(s, p) # Nil /\ LoadMasterKey(s, unlockPwd) # Nil
    BY <1>1, <2>3, MasterKeyExists, SessionKey DEF IsWallet, WeIdInv
  <2>5. p = unlockPwd
    BY <2>4, PwdHashInjective DEF LoadMasterKey
  <2> QED BY <2>1, <2>3, <2>5
<1>9. CurrentWalletWhole'
  BY <1>6, <1>8 DEF CurrentWalletWhole, Whole
<1>10. NamesTaken'
  BY DEF WeIdInv, WalletInv, NamesTaken
<1>11. CASE LoseMemory
  <2>1. WalletTypeOK'
    BY <1>6, <1>11, NoMemory DEF WeIdInv, WalletInv, WalletTypeOK
  <2>2. SessionStarted' /\ SessionOpens'
    BY <1>11, NoMemory DEF LoseMemory, SessionStarted
  <2> QED BY <1>9, <1>10, <2>1, <2>2 DEF WalletInv
<1>12. CASE currentIndex' = calls[c].index + 1 /\ UNCHANGED <<keyStore, inited, unlockPwd>>
  <2>1. currentIndex' \in Nat /\ currentIndex' >= StartIndex /\ currentIndex' >= t.index
    BY <1>1, <1>2, <1>3, <1>12
  <2>2. WalletTypeOK'
    BY <1>6, <1>12, <2>1 DEF WeIdInv, WalletInv, WalletTypeOK
  <2>3. SessionOpens'
    BY <1>1, <1>6, <1>8, <1>12, <2>1, NilIsNoName DEF SessionOpens
  <2> QED BY <1>9, <1>10, <2>1, <2>2, <2>3 DEF WalletInv, SessionStarted
<1> QED BY <1>11, <1>12

\* The WeIds after the answer, listed or not.
LEMMA AnsweredWeIds ==
  ASSUME WeIdInv, NEW c \in Calls, calls[c] # Nil, NEW t,
         HandledIn(keychain[current], t, c),
         keychain' = [keychain EXCEPT ![current] = t],
         \/ weIdList' = weIdList
         \/ /\ t.index = calls[c].index + 1
            /\ weIdList' = [weIdList EXCEPT ![current] =
                              Append(@, WeIdOf(calls[c].keyPair))],
         UNCHANGED walletIndex
  PROVE  /\ weIdList' \in [Names -> Seq(WeIds)]
         /\ UnusedUnlisted' /\ ListedBelowIndex' /\ OwnWeIdsOnly'
<1> DEFINE s == keychain[current]
           k == calls[c].keyPair
           weId == WeIdOf(k)
           new == IF weIdList' = weIdList THEN {} ELSE {weId}
           L == Seq(WeIds)
<1>1. /\ inited /\ current \in Names /\ current # Nil
      /\ calls[c].index = currentIndex
      /\ k \in KeyPairs /\ k[2] = currentIndex
      /\ s.index \in Nat /\ s.index <= currentIndex /\ ~Gone(s)
      /\ Belongs(current, k[1])
  BY InFlight, NilIsNoName
<1>2. k[1] \in Mnemonics /\ weId \in WeIds /\ weId[2] = k
  BY <1>1, KeyPairParts
<1>3. /\ keychain \in [Names -> Stores] /\ weIdList \in [Names -> L]
      /\ currentIndex \in Nat /\ walletIndex \in Int /\ current \in Int
  BY <1>1, WalletAssumption DEF WeIdInv, WalletInv, WalletTypeOK, Names
<1>4. weIdList[current] \in Seq(WeIds)
  BY <1>1, <1>3
<1>5. /\ Append(weIdList[current], weId) \in L
      /\ ToSet(Append(weIdList[current], weId)) = ToSet(weIdList[current]) \cup {weId}
  BY <1>2, <1>4, AppendedSet
<1>6. keychain'[current] = t /\ \A w \in Names : w # current => keychain'[w] = keychain[w]
  BY <1>1, <1>3
<1> HIDE DEF weId, k, s, L
<1>7. /\ weIdList' \in [Names -> L]
      /\ \A w \in Names : w # current => weIdList'[w] = weIdList[w]
      /\ ToSet(weIdList'[current]) = ToSet(weIdList[current]) \cup new
  <2>1. CASE weIdList' = weIdList
    BY <1>3, <2>1
  <2>2. CASE weIdList' # weIdList
    <3>1. weIdList' = [weIdList EXCEPT ![current] = Append(weIdList[current], weId)]
      BY <2>2 DEF weId, k
    <3> DEFINE l == Append(weIdList[current], weId)
    <3>2. weIdList' = [weIdList EXCEPT ![current] = l] /\ l \in L
          /\ ToSet(l) = ToSet(weIdList[current]) \cup {weId}
      BY <3>1, <1>5
    <3> HIDE DEF l
    <3> QED BY <1>1, <1>3, <2>2, <3>2
  <2> QED BY <2>1, <2>2
<1>8. new # {} => t.index = currentIndex + 1
  BY <1>1
<1>9. /\ t.master = s.master
      /\ t.index \in {s.index, currentIndex + 1}
      /\ \A v \in WeIds : \/ t.pairs[v] = s.pairs[v]
                          \/ v = weId /\ t.pairs[v] \in {k, Nil}
  BY <1>1 DEF HandledIn, s, weId, k
<1> HIDE DEF new
<1>10. new \subseteq {weId}
  BY DEF new
<1>11. UnusedUnlisted'
  <2> SUFFICES ASSUME NEW w \in Names, w > walletIndex
               PROVE  weIdList'[w] = <<>>
    BY DEF UnusedUnlisted
  <2>1. w # current
    BY <1>1, <1>3 DEF WeIdInv, WalletInv, NamesTaken
  <2> QED BY <1>7, <2>1 DEF WeIdInv, UnusedUnlisted
<1>12. ListedBelowIndex'
  <2> SUFFICES ASSUME NEW w \in Names, NEW v \in ToSet(weIdList'[w]),
                      keychain'[w].index # Nil
               PROVE  v[2][2] < keychain'[w].index
    BY DEF ListedBelowIndex
  <2>1. CASE w # current
    BY <1>6, <1>7, <2>1 DEF WeIdInv, ListedBelowIndex
  <2>2. CASE w = current
    <3>1. CASE v \in ToSet(weIdList[current])
      <4>1. s.index # Nil
        BY <1>1, WalletAssumption
      <4>2. v[2][2] < s.index
        BY <1>1, <3>1, <4>1 DEF WeIdInv, ListedBelowIndex, s
      <4>3. v[2][2] \in Int
        <5>1. v \in WeIds
          BY <1>4, <3>1 DEF ToSet
        <5>2. PICK j \in KeyPairs : v = WeIdOf(j)
          BY <5>1 DEF WeIds
        <5>3. v[2] = j /\ j[2] \in Indexes
          BY <5>2, KeyPairParts
        <5> QED BY <5>3, WalletAssumption DEF Indexes
      <4> QED BY <1>1, <1>3, <1>6, <1>9, <2>2, <4>2, <4>3
    <3>2. CASE v \in new
      <4>1. v = weId /\ t.index = currentIndex + 1
        BY <1>8, <1>10, <3>2
      <4>2. v[2][2] = currentIndex
        BY <1>1, <1>2, <4>1
      <4> QED BY <1>3, <1>6, <2>2, <4>1, <4>2
    <3> QED BY <1>7, <2>2, <3>1, <3>2
  <2> QED BY <2>1, <2>2
<1>13. OwnWeIdsOnly'
  <2> SUFFICES ASSUME NEW w \in Names, ~Gone(keychain'[w])
               PROVE  \E m \in Mnemonics : Belongs(w, m)'
    BY DEF OwnWeIdsOnly, Belongs
  <2>1. CASE w # current
    <3>1. keychain'[w] = keychain[w] /\ weIdList'[w] = weIdList[w]
      BY <1>6, <1>7, <2>1
    <3>2. PICK m \in Mnemonics : Belongs(w, m)
      BY <3>1, OwnWeIdsBelong DEF WeIdInv
    <3>3. Belongs(w, m)'
      BY <3>1, <3>2 DEF Belongs
    <3> QED BY <3>3
  <2>2. CASE w = current
    <3>0. PICK m \in Mnemonics : m = k[1]
      BY <1>2
    <3>1. /\ s.master # Nil => s.master.content = MasterKey(m)
          /\ \A v \in ToSet(weIdList[current]) : v[2][1] = m
          /\ \A v \in WeIds :
               s.pairs[v] # Nil => v = WeIdOf(s.pairs[v]) /\ v[2][1] = m
      BY <1>1, <3>0 DEF Belongs, s
    <3>2. weId[2][1] = m /\ weId = WeIdOf(k)
      BY <1>2, <3>0 DEF weId
    <3>3. t.master # Nil => t.master.content = MasterKey(m)
      BY <1>9, <3>1
    <3>4. \A v \in ToSet(weIdList'[current]) : v[2][1] = m
      BY <1>7, <1>10, <3>1, <3>2
    <3>5. \A v \in WeIds : t.pairs[v] # Nil => v = WeIdOf(t.pairs[v]) /\ v[2][1] = m
      BY <1>9, <3>1, <3>2
    <3>6. Belongs(w, m)'
      BY <1>6, <2>2, <3>3, <3>4, <3>5 DEF Belongs
    <3> QED BY <3>6
  <2> QED BY <2>1, <2>2
<1> QED BY <1>7, <1>11, <1>12, <1>13 DEF L

\* The handler of an answer, and a kill inside it, as a whole.  No request is in
\* flight afterwards.
LEMMA AnsweredStep ==
  ASSUME WeIdInv, NEW c \in Calls, calls[c] # Nil, NEW t,
         HandledIn(keychain[current], t, c),
         keychain' = [keychain EXCEPT ![current] = t],
         \/ weIdList' = weIdList
         \/ /\ t.index = calls[c].index + 1
            /\ weIdList' = [weIdList EXCEPT ![current] =
                              Append(@, WeIdOf(calls[c].keyPair))],
         UNCHANGED <<current, previous, walletIndex, chain>>,
         \/ currentIndex' = calls[c].index + 1 /\ UNCHANGED <<keyStore, inited, unlockPwd>>
         \/ LoseMemory,
         calls' = [calls EXCEPT ![c] = Nil] \/ calls' = NoCalls
  PROVE  WeIdInv'
<1>1. /\ weIdList' \in [Names -> Seq(WeIds)]
      /\ UnusedUnlisted' /\ ListedBelowIndex' /\ OwnWeIdsOnly'
  BY AnsweredWeIds
<1>2. WalletInv' /\ SessionStarted'
  BY <1>1, AnsweredWallet
<1>3. calls' = NoCalls
  <2>1. \A d \in Calls : calls[d] # Nil => d = c
    BY InFlight
  <2>2. DOMAIN calls = Calls /\ calls \in [Calls -> {calls[d] : d \in Calls}]
    BY DEF WeIdInv, WeIdTypeOK
  <2> QED BY <2>1, <2>2 DEF NoCalls
<1>4. WeIdTypeOK'
  BY <1>2, <1>3 DEF WeIdInv, WeIdTypeOK, NoCalls, WalletInv
<1>5. OneInFlight'
  BY <1>3 DEF OneInFlight, NoCalls
<1> QED BY <1>1, <1>2, <1>4, <1>5 DEF WeIdInv

\* addAndUpdateCurrentIndex in an open wallet: the index is stored if the
\* keychain accepts it.
LEMMA StoredIndexIs ==
  ASSUME WeIdInv, NEW c \in Calls, calls[c] # Nil, NEW ok \in BOOLEAN
  PROVE  /\ StoredIndex(calls[c].index, ok) =
              IF ok THEN calls[c].index + 1 ELSE keychain[keyStore].index
         /\ IndexStored(ok) <=> ok
<1>1. keychain[keyStore].index # Nil
  BY InFlight, WalletAssumption
<1> QED BY <1>1 DEF StoredIndex, IndexStored, Update, UpdateDone

\* A function changed in one place.
LEMMA OneEntry ==
  ASSUME NEW D, NEW R, NEW f \in [D -> R], NEW d \in D, NEW x \in R,
         NEW g, g = [f EXCEPT ![d] = x]
  PROVE  /\ g \in [D -> R]
         /\ g[d] = x /\ \A v \in D : v # d => g[v] = f[v]
OBVIOUS

\* saveWIKeyPairAfterCreateWeId writes no more than the handler may.
LEMMA CreatedHandled ==
  ASSUME WeIdInv, NEW c \in Calls, calls[c] # Nil,
         NEW i \in {keychain[current].index, calls[c].index + 1},
         NEW x \in {calls[c].keyPair, Nil}
  PROVE  /\ HandledIn(keychain[current], [keychain[current] EXCEPT !.index = i], c)
         /\ HandledIn(keychain[current],
                      [keychain[current] EXCEPT
                         !.index = i, !.pairs[WeIdOf(calls[c].keyPair)] = x], c)
<1> DEFINE s == keychain[current]
           k == calls[c].keyPair
           P == KeyPairs \cup {Nil}
<1>1. /\ s \in Stores /\ k \in KeyPairs /\ s.index \in Nat
      /\ calls[c].index \in Nat
  BY InFlight, WalletAssumption DEF Indexes
<1>2. i \in Nat /\ x \in P /\ WeIdOf(k) \in WeIds
  BY <1>1, KeyPairParts
<1>3. s.pairs \in [WeIds -> P]
  BY <1>1 DEF Stores
<1> DEFINE w == WeIdOf(k)
           ps == [s.pairs EXCEPT ![w] = x]
<1> HIDE DEF s, k, P, w
<1>4. /\ ps \in [WeIds -> P]
      /\ ps[w] = x /\ \A v \in WeIds : v # w => ps[v] = s.pairs[v]
  <2>1. w \in WeIds
    BY <1>2 DEF w
  <2>2. ps = [s.pairs EXCEPT ![w] = x]
    OBVIOUS
  <2> HIDE DEF ps
  <2> QED BY <1>2, <1>3, <2>1, <2>2, OneEntry
<1> HIDE DEF ps
<1>5. [s EXCEPT !.index = i] \in Stores
  BY <1>1, <1>2 DEF Stores
<1>6. HandledIn(s, [s EXCEPT !.index = i], c)
  BY <1>1, <1>5 DEF HandledIn, Stores, s
<1>7. [s EXCEPT !.index = i, !.pairs = ps] \in Stores
  BY <1>1, <1>2, <1>4 DEF Stores, P
<1>8. HandledIn(s, [s EXCEPT !.index = i, !.pairs = ps], c)
  BY <1>1, <1>4, <1>7 DEF HandledIn, Stores, s, k, w
<1> QED BY <1>6, <1>8 DEF s, k, w, ps

\* The handler of the answer "created".
LEMMA OnCreatedStep ==
  ASSUME WeIdInv, NEW c \in Calls, NEW okIndex \in BOOLEAN, NEW okPair \in BOOLEAN,
         OnCreated(c, okIndex, okPair)
  PROVE  WeIdInv'
<1> DEFINE s == keychain[current]
           weId == WeIdOf(calls[c].keyPair)
           i == calls[c].index + 1
           x == Add(calls[c].keyPair, okPair)
           t == [s EXCEPT !.index = i, !.pairs[weId] = x]
<1>1. calls[c] # Nil
  BY DEF OnCreated
<1>2. keyStore = current /\ current \in Names /\ s.index \in Nat /\ s \in Stores
  BY <1>1, InFlight
<1>3. /\ currentIndex' = i /\ calls' = [calls EXCEPT ![c] = Nil]
      /\ UNCHANGED <<current, previous, walletIndex, keyStore, inited, unlockPwd, chain>>
  BY DEF OnCreated
<1>4. CASE okIndex
  <2>1. StoredIndex(calls[c].index, okIndex) = i /\ IndexStored(okIndex)
    BY <1>1, <1>4, StoredIndexIs
  <2>2. /\ keychain' = [keychain EXCEPT ![current] = t]
        /\ weIdList' = [weIdList EXCEPT ![current] = Append(@, weId)]
    BY <1>2, <2>1 DEF OnCreated
  <2>3. x \in {calls[c].keyPair, Nil}
    BY DEF Add
  <2>4. HandledIn(s, t, c)
    BY <1>1, <2>3, CreatedHandled
  <2>5. t.index = i
    BY <1>2 DEF Stores
  <2> HIDE DEF t
  <2> QED BY <1>1, <1>3, <2>2, <2>4, <2>5, AnsweredStep
<1>5. CASE ~okIndex
  <2>1. keychain' = keychain /\ weIdList' = weIdList
    BY <1>1, <1>5, StoredIndexIs DEF OnCreated
  <2>2. keychain' = [keychain EXCEPT ![current] = s]
    BY <1>2, <2>1 DEF WeIdInv, WalletInv, WalletTypeOK
  <2>3. HandledIn(s, s, c)
    BY <1>2 DEF HandledIn
  <2> QED BY <1>1, <1>3, <2>1, <2>2, <2>3, AnsweredStep
<1> QED BY <1>4, <1>5

\* The handler of the answer "exists" (code 100105).
LEMMA OnExistsStep ==
  ASSUME WeIdInv, NEW c \in Calls, NEW okIndex \in BOOLEAN, OnExists(c, okIndex)
  PROVE  WeIdInv'
<1> DEFINE s == keychain[current]
           i == StoredIndex(calls[c].index, okIndex)
           t == [s EXCEPT !.index = i]
<1>1. calls[c] # Nil
  BY DEF OnExists
<1>2. keyStore = current
  BY <1>1, InFlight
<1>3. i \in {s.index, calls[c].index + 1}
  BY <1>1, <1>2, StoredIndexIs
<1>4. HandledIn(s, t, c)
  BY <1>1, <1>3, CreatedHandled
<1>5. /\ keychain' = [keychain EXCEPT ![current] = t] /\ weIdList' = weIdList
      /\ currentIndex' = calls[c].index + 1 /\ calls' = [calls EXCEPT ![c] = Nil]
      /\ UNCHANGED <<current, previous, walletIndex, keyStore, inited, unlockPwd, chain>>
  BY <1>2 DEF OnExists, defaults
<1> HIDE DEF t
<1> QED BY <1>1, <1>4, <1>5, AnsweredStep

\* A kill inside the handler of "created".
LEMMA CrashInOnCreatedStep ==
  ASSUME WeIdInv, NEW c \in Calls, NEW listWritten \in BOOLEAN,
         CrashInOnCreated(c, listWritten)
  PROVE  WeIdInv'
<1> DEFINE s == keychain[current]
           i == calls[c].index + 1
           t == [s EXCEPT !.index = i]
<1>1. calls[c] # Nil
  BY DEF CrashInOnCreated
<1>2. keyStore = current /\ s \in Stores
  BY <1>1, InFlight
<1>3. StoredIndex(calls[c].index, TRUE) = i
  BY <1>1, StoredIndexIs
<1>4. HandledIn(s, t, c)
  BY <1>1, CreatedHandled
<1>5. /\ keychain' = [keychain EXCEPT ![current] = t] /\ LoseMemory /\ calls' = NoCalls
      /\ \/ weIdList' = weIdList
         \/ weIdList' = [weIdList EXCEPT ![current] = Append(@, WeIdOf(calls[c].keyPair))]
      /\ UNCHANGED <<current, previous, walletIndex, chain>>
  BY <1>2, <1>3 DEF CrashInOnCreated
<1>6. t.index = i
  BY <1>2 DEF Stores
<1> HIDE DEF t
<1> QED BY <1>1, <1>4, <1>5, <1>6, AnsweredStep

-----------------------------------------------------------------------------
\* A request or an answer on its way changes nothing in the wallet.
LEMMA OnTheWayStep ==
  ASSUME WeIdInv, UNCHANGED walletVars, WeIdTypeOK', OneInFlight'
  PROVE  WeIdInv'
<1>1. WalletInv'
  BY DEF WeIdInv, WalletInv, WalletTypeOK, NamesTaken, CurrentWalletWhole, SessionOpens,
         walletVars, defaults, memory
<1>2. UnusedUnlisted' /\ SessionStarted' /\ ListedBelowIndex'
  BY DEF WeIdInv, UnusedUnlisted, SessionStarted, ListedBelowIndex, walletVars, defaults,
         memory
<1>3. OwnWeIdsOnly'
  BY DEF WeIdInv, OwnWeIdsOnly, walletVars, defaults, memory
<1> QED BY <1>1, <1>2, <1>3 DEF WeIdInv

\* The requests in flight have the kinds that the handlers expect.
Requests == [keyPair : KeyPairs, index : Indexes, answer : Answers]

\* With such requests the state keeps its kinds.
LEMMA CallsTyped ==
  ASSUME WeIdInv, UNCHANGED walletVars,
         calls' \in [Calls -> Requests \cup {Nil}], chain' \subseteq KeyPairs
  PROVE  WeIdTypeOK'
BY DEF WeIdInv, WeIdTypeOK, WalletTypeOK, Requests, walletVars, defaults, memory

\* createKeyPairSuccess: a request at the index in memory, for the open wallet.
LEMMA CreateWeIdStep ==
  ASSUME AppWaits, WeIdInv, NEW c \in Calls, CreateWeId(c)
  PROVE  WeIdInv'
<1> DEFINE key == LoadMasterKey(keychain[keyStore], unlockPwd)
           r == [keyPair |-> KeyPair(key, currentIndex), index |-> currentIndex,
                 answer |-> "pending"]
           R == Requests \cup {Nil}
<1>1. /\ inited /\ currentIndex <= MaxIndex /\ calls = NoCalls
      /\ calls' = [calls EXCEPT ![c] = r] /\ UNCHANGED <<walletVars, chain>>
  BY DEF CreateWeId, MayCall
<1>2. WalletInv /\ currentIndex \in Nat /\ currentIndex >= StartIndex
  BY <1>1 DEF WeIdInv, WalletInv, WalletTypeOK, SessionStarted
<1>3. currentIndex \in Indexes
  BY <1>1, <1>2, WalletAssumption DEF Indexes
<1>4. PICK m \in Mnemonics : key = MasterKey(m)
  BY <1>1, <1>2, SessionKey
<1>5. /\ r.keyPair \in KeyPairs /\ r.keyPair[1] = m /\ r.keyPair[2] = currentIndex
  BY <1>3, <1>4, DerivedKeyPair
<1>6. r \in R /\ Nil \in R /\ r.index = currentIndex
  BY <1>3, <1>5 DEF Requests, Answers
<1> HIDE DEF r, R, key
<1>7. calls' \in [Calls -> R] /\ calls'[c] = r /\ \A d \in Calls : d # c => calls'[d] = Nil
  BY <1>1, <1>6 DEF NoCalls
<1>8. WeIdTypeOK'
  BY <1>1, <1>7, CallsTyped DEF WeIdInv, WeIdTypeOK, R
<1>9. OneInFlight'
  <2> SUFFICES ASSUME NEW d \in Calls, calls'[d] # Nil
               PROVE  /\ \A e \in Calls : calls'[e] # Nil => e = d
                      /\ inited'
                      /\ calls'[d].index = currentIndex'
                      /\ calls'[d].keyPair[2] = currentIndex'
                      /\ LoadMasterKey(keychain'[keyStore'], unlockPwd')
                           = MasterKey(calls'[d].keyPair[1])
    BY DEF OneInFlight
  <2>1. d = c /\ calls'[d] = r
    BY <1>7
  <2>2. UNCHANGED <<keychain, keyStore, currentIndex, inited, unlockPwd>>
    BY <1>1 DEF walletVars, memory
  <2> QED BY <1>1, <1>4, <1>5, <1>6, <1>7, <2>1, <2>2 DEF key
<1> QED BY <1>1, <1>8, <1>9, OnTheWayStep

\* The node's answer and a lost one keep the request or drop it.
LEMMA NodeStep ==
  ASSUME WeIdInv, UNCHANGED walletVars, chain' \subseteq KeyPairs,
         calls' \in [Calls -> Requests \cup {Nil}],
         \A c \in Calls :
           calls'[c] # Nil => /\ calls[c] # Nil
                              /\ calls'[c].index = calls[c].index
                              /\ calls'[c].keyPair = calls[c].keyPair
  PROVE  WeIdInv'
<1>1. WeIdTypeOK'
  BY CallsTyped
<1>2. UNCHANGED <<keychain, keyStore, currentIndex, inited, unlockPwd>>
  BY DEF walletVars, memory
<1>3. OneInFlight'
  BY <1>2 DEF WeIdInv, OneInFlight
<1> QED BY <1>1, <1>3, OnTheWayStep

\* The node registers the public key of a request.
LEMMA RegisterWeIdStep ==
  ASSUME WeIdInv, NEW c \in Calls, RegisterWeId(c)
  PROVE  WeIdInv'
<1> DEFINE R == Requests \cup {Nil}
           a == IF calls[c].keyPair \in chain THEN "exists" ELSE "created"
           r == [calls[c] EXCEPT !.answer = a]
<1>1. /\ calls[c] # Nil /\ calls' = [calls EXCEPT ![c] = r]
      /\ chain' = chain \cup {calls[c].keyPair} /\ UNCHANGED walletVars
  BY DEF RegisterWeId
<1>2. calls \in [Calls -> R] /\ chain \subseteq KeyPairs
  BY DEF WeIdInv, WeIdTypeOK, Requests
<1>3. calls[c] \in Requests
  BY <1>1, <1>2
<1>4. a \in Answers
  BY DEF Answers
<1> HIDE DEF a
<1>5. /\ r \in R /\ r.index = calls[c].index /\ r.keyPair = calls[c].keyPair
      /\ calls[c].keyPair \in KeyPairs
  BY <1>3, <1>4 DEF Requests
<1> HIDE DEF r, R
<1>6. calls' \in [Calls -> R] /\ calls'[c] = r /\ \A d \in Calls : d # c => calls'[d] = calls[d]
  BY <1>1, <1>2, <1>5
<1>7. chain' \subseteq KeyPairs
  BY <1>1, <1>2, <1>5
<1> QED BY <1>1, <1>5, <1>6, <1>7, NodeStep DEF R

\* A request or its answer is lost.
LEMMA CreateWeIdFailsStep ==
  ASSUME WeIdInv, NEW c \in Calls, CreateWeIdFails(c)
  PROVE  WeIdInv'
<1> DEFINE R == Requests \cup {Nil}
<1>1. calls' = [calls EXCEPT ![c] = Nil] /\ UNCHANGED <<walletVars, chain>>
  BY DEF CreateWeIdFails
<1>2. calls \in [Calls -> R] /\ chain' \subseteq KeyPairs /\ Nil \in R
  BY <1>1 DEF WeIdInv, WeIdTypeOK, Requests
<1> HIDE DEF R
<1>3. /\ calls' \in [Calls -> R] /\ calls'[c] = Nil
      /\ \A d \in Calls : d # c => calls'[d] = calls[d]
  BY <1>1, <1>2
<1> QED BY <1>1, <1>2, <1>3, NodeStep DEF R

\* Another device registers a key pair.
LEMMA RegisterElsewhereStep ==
  ASSUME WeIdInv, NEW k \in KeyPairs, RegisterElsewhere(k)
  PROVE  WeIdInv'
BY NodeStep DEF RegisterElsewhere, WeIdInv, WeIdTypeOK, Requests

\* The invariant holds on a new device.
LEMMA WeIdInitInv == WeIdInit => WeIdInv
<1> SUFFICES ASSUME WeIdInit PROVE WeIdInv
  OBVIOUS
<1>1. WalletInv
  BY WalletInitInv DEF WeIdInit
<1>2. WeIdTypeOK
  BY <1>1 DEF WeIdInit, WeIdTypeOK, WalletInv, NoCalls
<1>3. UnusedUnlisted /\ SessionStarted /\ OneInFlight /\ ListedBelowIndex
  BY EmptyList DEF WeIdInit, WalletInit, UnusedUnlisted, SessionStarted, OneInFlight,
                   NoCalls, ListedBelowIndex
<1>4. OwnWeIdsOnly
  BY EmptyStoreGone DEF WeIdInit, WalletInit, OwnWeIdsOnly
<1> QED BY <1>1, <1>2, <1>3, <1>4 DEF WeIdInv

\* Every step keeps the invariant when the app waits for each answer.
LEMMA WeIdInvStep ==
  ASSUME AppWaits, WeIdInv, [WeIdNext]_weIdVars
  PROVE  WeIdInv'
<1>1. CASE UNCHANGED weIdVars
  BY <1>1, NodeStep DEF weIdVars, WeIdInv, WeIdTypeOK, Requests
<1>2. CASE WalletCall
  BY <1>2, WalletCallStep DEF WalletCall, MayCall, WalletNext
<1>3. CASE ProcessEnds
  BY <1>3, WalletCallStep, CrashInOnCreatedStep DEF ProcessEnds, WalletNext
<1>4. CASE WeIdStep
  <2>1. Accepted \subseteq BOOLEAN
    BY DEF Accepted
  <2> QED BY <1>4, <2>1, CreateWeIdStep, RegisterWeIdStep, CreateWeIdFailsStep,
             OnCreatedStep, OnExistsStep, RegisterElsewhereStep
          DEF WeIdStep
<1> QED BY <1>1, <1>2, <1>3, <1>4 DEF WeIdNext

\* The invariant holds on a new device and is kept by every step of an app that
\* waits for each answer.
THEOREM WeIdInvariance ==
  ASSUME AppWaits
  PROVE  WeIdSpec => []WeIdInv
BY WeIdInitInv, WeIdInvStep, PTL DEF WeIdSpec

\* saveWIKeyPairAfterCreateWeId: no listed WeId has an index the wallet will
\* hand out again, whichever write is refused and wherever the process is killed.
THEOREM ListedBelowIndexCorrect ==
  ASSUME AppWaits
  PROVE  WeIdSpec => []ListedBelowIndex
<1>1. WeIdInv => ListedBelowIndex
  BY DEF WeIdInv
<1> QED BY <1>1, WeIdInvariance, PTL

\* A wallet holds WeIds and key pairs of its own master key only: the domain of
\* a new name is cleaned, and an answer is stored where its key pair came from.
THEOREM OwnWeIdsCorrect ==
  ASSUME AppWaits
  PROVE  WeIdSpec => []OwnWeIdsOnly
<1>1. WeIdInv => OwnWeIdsOnly
  BY DEF WeIdInv
<1> QED BY <1>1, WeIdInvariance, PTL

\* The open wallet stays the current one and opens with the password in memory
\* while its index is advanced (addAndUpdateCurrentIndex).
THEOREM WeIdSessionCorrect ==
  ASSUME AppWaits
  PROVE  WeIdSpec => []SessionOpens
<1>1. WeIdInv => SessionOpens
  BY DEF WeIdInv, WalletInv
<1> QED BY <1>1, WeIdInvariance, PTL

\* Type correctness of the creation of WeIds: the handlers write what the items,
\* the defaults and the requests hold.
THEOREM WeIdTypeCorrect ==
  ASSUME AppWaits
  PROVE  WeIdSpec => []WeIdTypeOK
<1>1. WeIdInv => WeIdTypeOK
  BY DEF WeIdInv
<1> QED BY <1>1, WeIdInvariance, PTL
=============================================================================
