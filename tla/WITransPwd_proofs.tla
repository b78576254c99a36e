------------------------- MODULE WITransPwd_proofs -------------------------
(***************************************************************************)
(* Proofs about the transaction passwords, for every set of key pairs and  *)
(* passwords, with any add refused and the process killed in any save.     *)
(***************************************************************************)
EXTENDS WITransPwd, TLAPS

\* Equal hashes come from equal passwords.
LEMMA TransPwdHashInjective ==
  ASSUME NEW p, NEW q, PwdHash(p) = PwdHash(q)
  PROVE  p = q
BY DEF PwdHash, Keccak256, HashTwice

\* getWIKeyPair hands out nothing but the content of the stored item.
LEMMA HandsOutContent ==
  ASSUME NEW h, NEW stored, NEW pwd, GetWIKeyPair(h, stored, pwd) # Nil
  PROVE  stored # Nil /\ GetWIKeyPair(h, stored, pwd) = stored.content
BY DEF GetWIKeyPair, Split, AesDecrypt

\* saveWIKeyPair writes items of the right kinds.
LEMMA SavedType ==
  ASSUME NEW x \in KeyIds \cup {NoKeyPair}, NEW pwd \in TransPwds
  PROVE  PwdHash(pwd) \in TransPwdHashes /\ Sealed(x, pwd) \in SealedPairs
BY DEF TransPwdHashes, SealedPairs

\* What is saved under a weId#keyId contains the key pair given to the save.
LEMMA SealedContent ==
  ASSUME NEW x, NEW pwd
  PROVE  Sealed(x, pwd).content = x
BY DEF Sealed, Plain, AesEncrypt

\* It is in plain text only without a password.
LEMMA SealedKey ==
  ASSUME NEW x, NEW pwd \in TransPwds
  PROVE  Sealed(x, pwd).key = Nil <=> IsEmpty(pwd)
<1>1. CASE IsEmpty(pwd)
  BY <1>1 DEF Sealed, Plain
<1>2. CASE ~IsEmpty(pwd)
  <2>1. Sealed(x, pwd).key = AesKey(PwdHash(pwd))
    BY <1>2 DEF Sealed, AesEncrypt
  <2> QED BY <1>2, <2>1, TransNilAssumption
<1> QED BY <1>1, <1>2

-----------------------------------------------------------------------------
\* saveWIKeyPair with the key pair of k, or with the nil one, whichever of its
\* two adds is refused.
LEMMA SaveWIKeyPairStep ==
  ASSUME TransInv, NEW k \in KeyIds, NEW x \in {k, NoKeyPair}, NEW pwd \in TransPwds,
         NEW okHash \in BOOLEAN, NEW okPair \in BOOLEAN,
         SaveWIKeyPair(k, x, pwd, okHash, okPair)
  PROVE  TransInv'
<1> DEFINE H == TransPwdHashes \cup {Nil}
           P == SealedPairs \cup {Nil}
           A == TransPwds \cup {Nil, "new", "unsaved"}
           C == SUBSET (TransPwds \cup {Nil})
           saved == Saves(k, x, pwd, okHash, okPair)
           h == IF IsEmpty(pwd) THEN hash[k] ELSE Add(PwdHash(pwd), okHash)
           s == IF IsEmpty(pwd) \/ okHash THEN Add(Sealed(x, pwd), okPair) ELSE pair[k]
           a == IF saved THEN Chosen(pwd) ELSE "unsaved"
           c == IF saved THEN {Chosen(pwd)} ELSE chosen[k]
<1>1. /\ hash \in [KeyIds -> H] /\ pair \in [KeyIds -> P] /\ acked \in [KeyIds -> A]
      /\ chosen \in [KeyIds -> C]
  BY DEF TransInv, TransTypeOK
<1>2. /\ hash' = [hash EXCEPT ![k] = h]
      /\ pair' = [pair EXCEPT ![k] = s]
      /\ acked' = [acked EXCEPT ![k] = a]
      /\ chosen' = [chosen EXCEPT ![k] = c]
  BY DEF SaveWIKeyPair, Acknowledge
<1>3. Sealed(x, pwd) \in P
  BY SavedType
<1>4. h \in H /\ s \in P /\ a \in A /\ c \in C
  <2>1. hash[k] \in H /\ pair[k] \in P
    BY <1>1
  <2>2. PwdHash(pwd) \in H /\ Nil \in H /\ Nil \in P
    BY SavedType
  <2> HIDE DEF H, P
  <2>3. h \in H
    BY <2>1, <2>2 DEF Add
  <2>4. s \in P
    BY <1>3, <2>1, <2>2 DEF Add
  <2>5. Chosen(pwd) \in TransPwds \cup {Nil}
    BY DEF Chosen
  <2>6. a \in A /\ c \in C
    BY <1>1, <2>5
  <2> QED BY <2>3, <2>4, <2>6
<1>5. s # Nil => s.content \in {k, NoKeyPair}
  BY SealedContent DEF Add, TransInv, OwnPair
<1>6. a # "new"
  BY TransNilAssumption, TransPwdAssumption DEF Chosen, IsEmpty
<1>7. a \notin {"new", "unsaved", Nil} => h = PwdHash(a) /\ s = AesEncrypt(k, PwdHash(a))
  BY DEF Add, Sealed, Saves, Chosen
<1> HIDE DEF H, P, A, C, saved, h, s, a, c
<1>8. TransTypeOK'
  <2>1. /\ hash' \in [KeyIds -> H] /\ pair' \in [KeyIds -> P] /\ acked' \in [KeyIds -> A]
        /\ chosen' \in [KeyIds -> C]
    BY <1>1, <1>2, <1>4
  <2> QED BY <2>1 DEF TransTypeOK, H, P, A, C
<1>9. OwnPair'
  BY <1>1, <1>2, <1>5 DEF TransInv, OwnPair
<1>10. SavedItems'
  BY <1>1, <1>2, <1>6, <1>7 DEF TransInv, SavedItems
<1> QED BY <1>8, <1>9, <1>10 DEF TransInv

\* A save cut short leaves a hash without its key pair, or a key pair without
\* its hash; it is marked as not saved.
LEMMA CrashInSaveWIKeyPairStep ==
  ASSUME TransInv, NEW k \in KeyIds, NEW cur, NEW new \in TransPwds,
         NEW callback \in Callbacks, CrashInSaveWIKeyPair(k, cur, new, callback)
  PROVE  TransInv'
<1> DEFINE H == TransPwdHashes \cup {Nil}
           P == SealedPairs \cup {Nil}
           A == TransPwds \cup {Nil, "new", "unsaved"}
           C == SUBSET (TransPwds \cup {Nil})
           keyPair == GetWIKeyPair(hash[k], pair[k], cur)
           c == IF keyPair = k \/ ~callback THEN chosen[k] \cup {Chosen(new)} ELSE chosen[k]
<1>1. /\ hash \in [KeyIds -> H] /\ pair \in [KeyIds -> P] /\ acked \in [KeyIds -> A]
      /\ chosen \in [KeyIds -> C]
  BY DEF TransInv, TransTypeOK
<1>2. PICK h \in H : hash' = [hash EXCEPT ![k] = h]
  <2>1. hash[k] \in H /\ PwdHash(new) \in H /\ Nil \in H
    BY <1>1, SavedType
  <2> QED BY <2>1 DEF CrashInSaveWIKeyPair, Add
<1>3. pair' = pair \/ pair' = [pair EXCEPT ![k] = Nil]
  BY DEF CrashInSaveWIKeyPair
<1>4. acked' = [acked EXCEPT ![k] = "unsaved"] /\ chosen' = [chosen EXCEPT ![k] = c]
  BY DEF CrashInSaveWIKeyPair
<1>5. Nil \in P /\ "unsaved" \in A /\ c \in C
  <2>1. Chosen(new) \in TransPwds \cup {Nil}
    BY DEF Chosen
  <2> QED BY <1>1, <2>1
<1> HIDE DEF H, P, A, C, c
<1>6. TransTypeOK'
  <2>1. /\ hash' \in [KeyIds -> H] /\ pair' \in [KeyIds -> P] /\ acked' \in [KeyIds -> A]
        /\ chosen' \in [KeyIds -> C]
    BY <1>1, <1>2, <1>3, <1>4, <1>5
  <2> QED BY <2>1 DEF TransTypeOK, H, P, A, C
<1>7. OwnPair'
  BY <1>1, <1>3 DEF TransInv, OwnPair
<1>8. SavedItems'
  BY <1>1, <1>2, <1>3, <1>4 DEF TransInv, SavedItems
<1> QED BY <1>6, <1>7, <1>8 DEF TransInv

\* updateTransPwd goes on with the stored key pair or with the nil one.
LEMMA UpdateTransPwdStep ==
  ASSUME TransInv, NEW k \in KeyIds, NEW cur, NEW new \in TransPwds, NEW callback,
         NEW okHash \in BOOLEAN, NEW okPair \in BOOLEAN,
         UpdateTransPwd(k, cur, new, callback, okHash, okPair)
  PROVE  TransInv'
<1> DEFINE keyPair == GetWIKeyPair(hash[k], pair[k], cur)
           x == IF keyPair = Nil THEN NoKeyPair ELSE keyPair
<1>1. x \in {k, NoKeyPair}
  BY HandsOutContent DEF TransInv, OwnPair
<1>2. UNCHANGED transVars \/ SaveWIKeyPair(k, x, new, okHash, okPair)
  BY DEF UpdateTransPwd
<1>3. CASE UNCHANGED transVars
  BY <1>3 DEF transVars, TransInv, TransTypeOK, OwnPair, SavedItems
<1>4. CASE SaveWIKeyPair(k, x, new, okHash, okPair)
  <2> HIDE DEF x
  <2> QED BY <1>1, <1>4, SaveWIKeyPairStep
<1> QED BY <1>2, <1>3, <1>4

\* The invariant holds before the first save.
LEMMA TransInitInv == TransInit => TransInv
BY DEF TransInit, TransInv, TransTypeOK, OwnPair, SavedItems

\* Every step of the transaction passwords keeps the invariant.
LEMMA TransStep ==
  ASSUME TransInv, [TransNext]_transVars
  PROVE  TransInv'
<1>1. CASE UNCHANGED transVars
  BY <1>1 DEF transVars, TransInv, TransTypeOK, OwnPair, SavedItems
<1>2. ASSUME NEW k \in KeyIds, NEW okHash \in Accepted, NEW okPair \in Accepted,
             \/ \E pwd \in TransPwds : SaveAfterCreateWeId(k, pwd, okHash, okPair)
             \/ \E cur, new \in TransPwds, callback \in Callbacks :
                  UpdateTransPwd(k, cur, new, callback, okHash, okPair)
             \/ \E cur, new \in TransPwds, callback \in Callbacks :
                  CrashInSaveWIKeyPair(k, cur, new, callback)
      PROVE  TransInv'
  <2>1. okHash \in BOOLEAN /\ okPair \in BOOLEAN
    BY DEF Accepted
  <2> QED BY <1>2, <2>1, SaveWIKeyPairStep, UpdateTransPwdStep, CrashInSaveWIKeyPairStep
          DEF SaveAfterCreateWeId
<1> QED BY <1>1, <1>2 DEF TransNext

\* The invariant holds of a wallet without key pairs and is kept by every step.
THEOREM TransInvariance == TransSpec => []TransInv
BY TransInitInv, TransStep, PTL DEF TransSpec

-----------------------------------------------------------------------------
\* A password that hands out the key pair of k was chosen.
LEMMA ChosenOpens ==
  ASSUME TransInv, ChosenItems, NEW k \in KeyIds, NEW p \in TransPwds,
         GetWIKeyPair(hash[k], pair[k], p) = k
  PROVE  p \in chosen[k]
<1>1. pair[k] # Nil /\ pair[k].content = k
  BY HandsOutContent, TransPwdAssumption
<1>2. CASE p = Nil
  <2>1. pair[k].key = Nil
    BY <1>1, <1>2, TransPwdAssumption DEF GetWIKeyPair, Split
  <2> QED BY <1>1, <1>2, <2>1 DEF ChosenItems
<1>3. CASE p # Nil
  <2>1. /\ hash[k] # Nil /\ hash[k] = PwdHash(p)
        /\ AesDecrypt(pair[k], HashTwice(p)) = k
    BY <1>3, TransPwdAssumption DEF GetWIKeyPair
  <2>2. pair[k].key = AesKey(HashTwice(p))
    BY <2>1, TransPwdAssumption DEF AesDecrypt
  <2>3. pair[k].key # Nil
    BY <2>2, TransNilAssumption
  <2>4. PICK q \in chosen[k] : hash[k] = PwdHash(q)
    BY <1>1, <2>1, <2>3 DEF ChosenItems
  <2> QED BY <2>1, <2>4, TransPwdHashInjective
<1> QED BY <1>2, <1>3

\* saveWIKeyPair: what is left of the key pair of k opens with a chosen password
\* only, whichever of the two adds is refused.
LEMMA SaveKeepsChosen ==
  ASSUME TransInv, ChosenItems, NEW k \in KeyIds, NEW x \in {k, NoKeyPair},
         NEW pwd \in TransPwds, NEW okHash \in BOOLEAN, NEW okPair \in BOOLEAN,
         SaveWIKeyPair(k, x, pwd, okHash, okPair)
  PROVE  ChosenItems'
<1> DEFINE saved == Saves(k, x, pwd, okHash, okPair)
           h == IF IsEmpty(pwd) THEN hash[k] ELSE Add(PwdHash(pwd), okHash)
           s == IF IsEmpty(pwd) \/ okHash THEN Add(Sealed(x, pwd), okPair) ELSE pair[k]
           c == IF saved THEN {Chosen(pwd)} ELSE chosen[k]
<1>1. /\ DOMAIN hash = KeyIds /\ hash = [j \in KeyIds |-> hash[j]]
      /\ DOMAIN pair = KeyIds /\ pair = [j \in KeyIds |-> pair[j]]
      /\ DOMAIN chosen = KeyIds /\ chosen = [j \in KeyIds |-> chosen[j]]
  BY DEF TransInv, TransTypeOK
<1>2. /\ hash' = [hash EXCEPT ![k] = h]
      /\ pair' = [pair EXCEPT ![k] = s]
      /\ chosen' = [chosen EXCEPT ![k] = c]
  BY DEF SaveWIKeyPair, Acknowledge
<1>3. ASSUME s # Nil, s.content = k
      PROVE  IF s.key = Nil THEN Nil \in c
             ELSE h = Nil \/ \E p \in c : p # Nil /\ h = PwdHash(p)
  <2>1. CASE IsEmpty(pwd)
    <3>1. okPair /\ s = Sealed(x, pwd)
      BY <1>3, <2>1 DEF Add
    <3>2. x = k
      BY <1>3, <3>1, SealedContent
    <3>3. s.key = Nil
      BY <2>1, <3>1, SealedKey
    <3>4. Nil \in c
      BY <2>1, <3>1, <3>2 DEF Saves, Chosen
    <3> QED BY <3>3, <3>4
  <2>2. CASE ~IsEmpty(pwd) /\ okHash
    <3>1. okPair /\ s = Sealed(x, pwd)
      BY <1>3, <2>2 DEF Add
    <3>2. x = k
      BY <1>3, <3>1, SealedContent
    <3>3. s.key # Nil
      BY <2>2, <3>1, SealedKey
    <3>4. c = {pwd} /\ pwd # Nil /\ h = PwdHash(pwd)
      BY <2>2, <3>1, <3>2 DEF Add, Saves, Chosen, IsEmpty
    <3> QED BY <3>3, <3>4
  <2>3. CASE ~IsEmpty(pwd) /\ ~okHash
    <3>1. h = Nil /\ s = pair[k] /\ c = chosen[k]
      BY <2>3 DEF Add, Saves
    <3> QED BY <1>3, <3>1 DEF ChosenItems
  <2> QED BY <2>1, <2>2, <2>3
<1> HIDE DEF saved, h, s, c
<1> QED BY <1>1, <1>2, <1>3 DEF ChosenItems

\* A kill inside saveWIKeyPair leaves the key pair under a hash of the new
\* password only if the current one opened it or nobody asked for it.
LEMMA CrashKeepsChosen ==
  ASSUME TransInv, ChosenItems, NEW k \in KeyIds, NEW cur \in TransPwds,
         NEW new \in TransPwds, NEW callback \in Callbacks,
         CrashInSaveWIKeyPair(k, cur, new, callback)
  PROVE  ChosenItems'
<1> DEFINE keyPair == GetWIKeyPair(hash[k], pair[k], cur)
           c == IF keyPair = k \/ ~callback THEN chosen[k] \cup {Chosen(new)} ELSE chosen[k]
<1>1. /\ DOMAIN hash = KeyIds /\ hash = [j \in KeyIds |-> hash[j]]
      /\ DOMAIN pair = KeyIds /\ pair = [j \in KeyIds |-> pair[j]]
      /\ DOMAIN chosen = KeyIds /\ chosen = [j \in KeyIds |-> chosen[j]]
  BY DEF TransInv, TransTypeOK
<1>2. chosen' = [chosen EXCEPT ![k] = c] /\ chosen[k] \subseteq c
  BY DEF CrashInSaveWIKeyPair
<1>3. acked[k] = "new" \/ keyPair # Nil \/ ~callback
  BY DEF CrashInSaveWIKeyPair
<1>4. CASE pair' = [pair EXCEPT ![k] = Nil]
  <2>1. PICK h : hash' = [hash EXCEPT ![k] = h]
    BY DEF CrashInSaveWIKeyPair
  <2> HIDE DEF keyPair, c
  <2> QED BY <1>1, <1>2, <1>4, <2>1 DEF ChosenItems
<1>5. CASE UNCHANGED pair /\ ~IsEmpty(new)
           /\ \E ok \in BOOLEAN : hash' = [hash EXCEPT ![k] = Add(PwdHash(new), ok)]
  <2>1. PICK h \in {Nil, PwdHash(new)} : hash' = [hash EXCEPT ![k] = h]
    BY <1>5 DEF Add
  <2>2. ASSUME pair[k] # Nil, pair[k].content = k
        PROVE  IF pair[k].key = Nil THEN Nil \in c
               ELSE h = Nil \/ \E p \in c : p # Nil /\ h = PwdHash(p)
    <3>1. keyPair # Nil \/ ~callback
      BY <1>3, <2>2 DEF TransInv, SavedItems
    <3>2. keyPair = k \/ ~callback
      BY <2>2, <3>1, HandsOutContent
    <3>3. new # Nil /\ new \in c
      BY <1>5, <3>2 DEF Chosen, IsEmpty
    <3> HIDE DEF keyPair, c
    <3> QED BY <1>2, <2>1, <2>2, <3>3 DEF ChosenItems
  <2> HIDE DEF keyPair, c
  <2> QED BY <1>1, <1>2, <1>5, <2>1, <2>2 DEF ChosenItems
<1> QED BY <1>4, <1>5 DEF CrashInSaveWIKeyPair

\* Every step keeps it.
LEMMA ChosenStep ==
  ASSUME TransInv, ChosenItems, [TransNext]_transVars
  PROVE  ChosenItems'
<1>1. CASE UNCHANGED transVars
  BY <1>1 DEF transVars, ChosenItems
<1>2. ASSUME NEW k \in KeyIds, NEW okHash \in Accepted, NEW okPair \in Accepted,
             NEW pwd \in TransPwds, SaveAfterCreateWeId(k, pwd, okHash, okPair)
      PROVE  ChosenItems'
  <2>1. okHash \in BOOLEAN /\ okPair \in BOOLEAN
    BY DEF Accepted
  <2> QED BY <1>2, <2>1, SaveKeepsChosen DEF SaveAfterCreateWeId
<1>3. ASSUME NEW k \in KeyIds, NEW okHash \in Accepted, NEW okPair \in Accepted,
             NEW cur \in TransPwds, NEW new \in TransPwds, NEW callback \in Callbacks,
             UpdateTransPwd(k, cur, new, callback, okHash, okPair)
      PROVE  ChosenItems'
  <2> DEFINE keyPair == GetWIKeyPair(hash[k], pair[k], cur)
             x == IF keyPair = Nil THEN NoKeyPair ELSE keyPair
  <2>1. okHash \in BOOLEAN /\ okPair \in BOOLEAN
    BY DEF Accepted
  <2>2. x \in {k, NoKeyPair}
    BY HandsOutContent DEF TransInv, OwnPair
  <2>3. UNCHANGED transVars \/ SaveWIKeyPair(k, x, new, okHash, okPair)
    BY <1>3 DEF UpdateTransPwd
  <2> HIDE DEF x
  <2> QED BY <1>1, <2>1, <2>2, <2>3, SaveKeepsChosen
<1>4. ASSUME NEW k \in KeyIds, NEW cur \in TransPwds, NEW new \in TransPwds,
             NEW callback \in Callbacks, CrashInSaveWIKeyPair(k, cur, new, callback)
      PROVE  ChosenItems'
  BY <1>4, CrashKeepsChosen
<1> QED BY <1>1, <1>2, <1>3, <1>4 DEF TransNext

\* getWIKeyPair: the password of the last save that answered YES hands out the
\* key pair and no other does, whichever adds are refused, with wrong current
\* passwords and without callbacks; after a kill also the password of an update
\* that got past the check of its current one.
THEOREM OnlyChosenCorrect == TransSpec => []OnlyChosenPwdOpens
<1>1. TransInit => ChosenItems
  BY DEF TransInit, ChosenItems
<1>2. TransInv /\ ChosenItems /\ [TransNext]_transVars => ChosenItems'
  BY ChosenStep
<1>3. TransInv /\ ChosenItems => OnlyChosenPwdOpens
  BY ChosenOpens DEF OnlyChosenPwdOpens
<1> QED BY <1>1, <1>2, <1>3, TransInvariance, PTL DEF TransSpec

\* updateTransPwd: a password that was set with the answer YES opens the key
\* pair, in the build in which the unspecified key buffer stays zeroed.  With a
\* key copied into the buffer it does not: the key pair is encrypted with the
\* hash of the key that decrypts it.
THEOREM SavedPwdCorrect ==
  ASSUME AesKeyIsZero
  PROVE  TransSpec => []SavedPwdOpens
<1>1. TransInv => SavedPwdOpens
  <2> SUFFICES ASSUME TransInv, NEW k \in KeyIds,
                      acked[k] \notin {"new", "unsaved", Nil}
               PROVE  GetWIKeyPair(hash[k], pair[k], acked[k]) = k
    BY DEF SavedPwdOpens
  <2> DEFINE p == acked[k]
  <2>1. p \in TransPwds /\ p # Nil
    BY DEF TransInv, TransTypeOK
  <2>2. hash[k] = PwdHash(p) /\ pair[k] = AesEncrypt(k, PwdHash(p))
    BY DEF TransInv, SavedItems
  <2>3. hash[k] # Nil /\ pair[k] # Nil
    BY <2>1, <2>2, TransNilAssumption
  <2>4. AesDecrypt(pair[k], HashTwice(p)) = k
    BY <2>2 DEF AesDecrypt, AesEncrypt, AesKey
  <2> QED BY <2>1, <2>2, <2>3, <2>4 DEF GetWIKeyPair
<1> QED BY <1>1, TransInvariance, PTL
=============================================================================
