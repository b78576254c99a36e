------------------- MODULE WICredentialPersistence_proofs -------------------
(***************************************************************************)
(* Proofs about the credential store, over every life of its wallet: what  *)
(* was saved and acknowledged is read back until it or its wallet is       *)
(* deleted, and no database password outlives its wallet.                  *)
(***************************************************************************)
EXTENDS WICredentialPersistence, WIHDWallet_proofs

\* A database is named by a wallet and a name of the app.
LEMMA DbNameParts ==
  ASSUME NEW db \in DbNames
  PROVE  db[1] \in Names /\ db[2] \in Domains /\ db[1] \in Int /\ db = <<db[1], db[2]>>
BY DEF DbNames, Names

\* A database password is stored as a ciphertext for a master key, or not at all.
LEMMA StoredPwdType ==
  ASSUME WalletTypeOK, NEW db \in DbNames
  PROVE  StoredPwd(db) \in DbPwdCiphers \cup {Nil}
<1>1. keychain[db[1]] \in Stores /\ db[2] \in Domains
  BY DbNameParts DEF WalletTypeOK
<1> QED BY <1>1 DEF StoredPwd, Stores

\* A stored password is that of some database, encrypted with a master key.
LEMMA CipherParts ==
  ASSUME NEW c \in DbPwdCiphers
  PROVE  c.content \in DbPwds
BY DEF DbPwdCiphers, EciesEncrypt

-----------------------------------------------------------------------------
\* getOrCreateDomainPwd in a session: the password stored in the current wallet's
\* domain, or the fresh one, and never nil.
LEMMA DomainPwdGiven ==
  ASSUME WalletInv, DbPwdsReadable, inited, NEW d \in Domains, NEW fresh \in DbPwds
  PROVE  /\ <<current, d>> \in DbNames
         /\ DomainPwdItem(d) = StoredPwd(<<current, d>>)
         /\ DomainPwd(d, fresh) =
              IF StoredPwd(<<current, d>>) = Nil THEN fresh
              ELSE StoredPwd(<<current, d>>).content
         /\ DomainPwd(d, fresh) \in DbPwds
         /\ DomainPwd(d, fresh) # Nil
<1> DEFINE db == <<current, d>>
<1>1. /\ keyStore = current /\ current \in Names /\ current # Nil
      /\ db \in DbNames /\ db[1] = current /\ db[2] = d
  BY SessionKey DEF DbNames
<1>2. PICK m \in Mnemonics :
        /\ LoadMasterKey(keychain[current], unlockPwd) = MasterKey(m)
        /\ MasterKey(m) # Nil
        /\ keychain[current].master.content = MasterKey(m)
  BY SessionKey
<1>3. SessionMasterKey = MasterKey(m)
  BY <1>1, <1>2 DEF SessionMasterKey
<1>4. DomainPwdItem(d) = StoredPwd(db)
  BY <1>1 DEF DomainPwdItem, StoredPwd
<1>5. CASE StoredPwd(db) = Nil
  BY <1>1, <1>2, <1>3, <1>4, <1>5, StoreAssumption DEF DomainPwd
<1>6. CASE StoredPwd(db) # Nil
  <2>1. StoredPwd(db).masterKey = MasterKey(m)
    BY <1>1, <1>2, <1>6 DEF DbPwdsReadable
  <2>2. StoredPwd(db).content \in DbPwds
    BY <1>1, <1>6, StoredPwdType, CipherParts DEF WalletInv
  <2>3. DomainPwd(d, fresh) = StoredPwd(db).content
    BY <1>2, <1>3, <1>4, <1>6, <2>1 DEF DomainPwd, EciesDecrypt
  <2> QED BY <1>1, <1>4, <1>6, <2>2, <2>3, StoreAssumption
<1> QED BY <1>5, <1>6

\* Without a session there is no password.
LEMMA NoSessionNoPwd ==
  ASSUME NEW d, NEW fresh, DomainPwd(d, fresh) # Nil
  PROVE  inited
BY DEF DomainPwd, SessionMasterKey

\* What getOrCreateDomainPwd writes: the domain's item for d, if there was none,
\* under the master key stored there.
LEMMA DomainPwdWritten ==
  ASSUME WalletInv, DbPwdsReadable, inited,
         NEW d \in Domains, NEW fresh \in DbPwds, NEW ok \in BOOLEAN,
         GetOrCreateDomainPwd(d, fresh, ok)
  PROVE  /\ keychain' \in [Names -> Stores]
         /\ \A w \in Names : SameLifecycle(keychain[w], keychain'[w])
         /\ \A db \in DbNames :
              \/ StoredPwd(db)' = StoredPwd(db)
              \/ /\ StoredPwd(db) = Nil
                 /\ ~Gone(keychain[db[1]])
                 /\ keychain[db[1]].master # Nil
                 /\ StoredPwd(db)' # Nil =>
                      StoredPwd(db)'.masterKey = keychain[db[1]].master.content
<1>1. /\ keyStore = current /\ current \in Names
      /\ DomainPwdItem(d) = StoredPwd(<<current, d>>)
      /\ keychain[current].master # Nil /\ ~Gone(keychain[current])
      /\ keychain \in [Names -> Stores]
  BY SessionKey, DomainPwdGiven DEF WalletInv, WalletTypeOK
<1>2. PICK m \in Mnemonics :
        /\ LoadMasterKey(keychain[current], unlockPwd) = MasterKey(m)
        /\ keychain[current].master.content = MasterKey(m)
  BY SessionKey
<1>3. SessionMasterKey = MasterKey(m)
  BY <1>1, <1>2 DEF SessionMasterKey
<1> DEFINE item == Add(EciesEncrypt(fresh, MasterKey(m)), ok)
           s == keychain[current]
           t == [s EXCEPT !.dbPwds[d] = item]
<1>4. /\ item \in DbPwdCiphers \cup {Nil}
      /\ item # Nil => item.masterKey = MasterKey(m)
  <2>1. EciesEncrypt(fresh, MasterKey(m)) \in DbPwdCiphers
    BY DEF DbPwdCiphers
  <2>2. EciesEncrypt(fresh, MasterKey(m)).masterKey = MasterKey(m)
    BY DEF EciesEncrypt
  <2> QED BY <2>1, <2>2 DEF Add
<1>5. CASE keychain' = keychain
  BY <1>1, <1>5 DEF SameLifecycle, StoredPwd
<1>6. CASE keychain' # keychain
  <2>1. StoredPwd(<<current, d>>) = Nil
    BY <1>1, <1>6 DEF GetOrCreateDomainPwd
  <2>2. keychain' = [keychain EXCEPT ![current] = t]
    BY <1>1, <1>3, <1>6 DEF GetOrCreateDomainPwd
  <2> HIDE DEF item
  <2>3. /\ s \in Stores /\ s.dbPwds \in [Domains -> DbPwdCiphers \cup {Nil}]
    BY <1>1 DEF Stores
  <2>4. /\ t \in Stores
        /\ SameLifecycle(s, t)
        /\ t.dbPwds = [s.dbPwds EXCEPT ![d] = item]
    BY <1>4, <2>3 DEF Stores, SameLifecycle
  <2> HIDE DEF s, t
  <2>5. /\ keychain' \in [Names -> Stores]
        /\ \A w \in Names : w # current => keychain'[w] = keychain[w]
        /\ keychain'[current] = t
    BY <1>1, <2>2, <2>4
  <2>6. \A w \in Names : SameLifecycle(keychain[w], keychain'[w])
    BY <2>4, <2>5 DEF SameLifecycle, s
  <2>7. ASSUME NEW db \in DbNames
        PROVE  \/ StoredPwd(db)' = StoredPwd(db)
               \/ /\ StoredPwd(db) = Nil
                  /\ ~Gone(keychain[db[1]])
                  /\ keychain[db[1]].master # Nil
                  /\ StoredPwd(db)' # Nil =>
                       StoredPwd(db)'.masterKey = keychain[db[1]].master.content
    <3>1. db[1] \in Names /\ db[2] \in Domains /\ db = <<db[1], db[2]>>
      BY DbNameParts
    <3>2. CASE db[1] # current
      BY <2>5, <3>1, <3>2 DEF StoredPwd
    <3>3. CASE db[1] = current /\ db[2] # d
      BY <2>3, <2>4, <2>5, <3>1, <3>3 DEF StoredPwd, s
    <3>4. CASE db[1] = current /\ db[2] = d
      <4>1. db = <<current, d>>
        BY <3>1, <3>4
      <4>2. StoredPwd(db)' = item
        BY <2>3, <2>4, <2>5, <3>4 DEF StoredPwd
      <4> QED BY <1>1, <1>2, <1>4, <2>1, <3>4, <4>1, <4>2
    <3> QED BY <3>2, <3>3, <3>4
  <2> QED BY <2>5, <2>6, <2>7
<1> QED BY <1>5, <1>6

-----------------------------------------------------------------------------
(***************************************************************************)
(* The inductive invariant, action by action.                              *)
(***************************************************************************)

\* managerWithName: the new handle has the password that the keychain keeps, or
\* one that the keychain refused.
LEMMA ManagerWithNameStep ==
  ASSUME StoreInv, NEW d \in Domains, NEW fresh \in DbPwds, NEW ok \in BOOLEAN,
         ManagerWithName(d, fresh, ok)
  PROVE  StoreInv'
<1>1. /\ WalletInv /\ WalletTypeOK /\ StoreTypeOK /\ DbPwdsReadable /\ TakenDbs /\ SavedRows
      /\ inited
  BY NoSessionNoPwd DEF StoreInv, WalletInv, ManagerWithName
<1>2. /\ store' = [db |-> <<current, d>>, key |-> DomainPwd(d, fresh)]
      /\ dbSet' = {<<current, d>>}
      /\ UNCHANGED <<current, previous, walletIndex, weIdList, memory, files, acked>>
      /\ GetOrCreateDomainPwd(d, fresh, ok)
  BY DEF ManagerWithName, defaults
<1>3. /\ keychain' \in [Names -> Stores]
      /\ \A w \in Names : SameLifecycle(keychain[w], keychain'[w])
      /\ \A db \in DbNames :
           \/ StoredPwd(db)' = StoredPwd(db)
           \/ /\ StoredPwd(db) = Nil
              /\ ~Gone(keychain[db[1]])
              /\ keychain[db[1]].master # Nil
              /\ StoredPwd(db)' # Nil =>
                   StoredPwd(db)'.masterKey = keychain[db[1]].master.content
  BY <1>1, <1>2, DomainPwdWritten
<1>4. WalletInv'
  BY <1>1, <1>2, <1>3, OtherItemsStep DEF WalletTypeOK
<1>5. StoreTypeOK'
  <2>1. <<current, d>> \in DbNames /\ DomainPwd(d, fresh) \in DbPwds
    BY <1>1, DomainPwdGiven
  <2> QED BY <1>1, <1>2, <2>1 DEF StoreTypeOK
<1>6. DbPwdsReadable'
  <2> SUFFICES ASSUME NEW db \in DbNames, StoredPwd(db)' # Nil
               PROVE  /\ keychain'[db[1]].master # Nil
                      /\ StoredPwd(db)'.masterKey = keychain'[db[1]].master.content
    BY DEF DbPwdsReadable
  <2>1. keychain'[db[1]].master = keychain[db[1]].master
    BY <1>3, DbNameParts DEF SameLifecycle
  <2> QED BY <1>1, <1>3, <2>1 DEF DbPwdsReadable
<1>7. TakenDbs'
  <2>1. store'.db[1] = current /\ current <= walletIndex
    BY <1>1, <1>2, SessionKey DEF WalletInv, NamesTaken
  <2> QED BY <1>1, <1>2, <2>1 DEF TakenDbs
<1>8. SavedRows'
  <2> SUFFICES ASSUME NEW db \in DbNames, NEW c \in CredentialIds,
                      acked[db][c] # Nil, ~Gone(keychain'[db[1]])
               PROVE  SavedRow(db, c)'
    BY <1>2 DEF SavedRows
  <2>1. ~Gone(keychain[db[1]])
    BY <1>3, DbNameParts, SameLifecycleReads
  <2>2. SavedRow(db, c)
    BY <1>1, <2>1 DEF SavedRows
  <2>3. StoredPwd(db)' = StoredPwd(db)
    BY <1>3, <2>2 DEF SavedRow
  <2> QED BY <1>2, <2>2, <2>3 DEF SavedRow
<1> QED BY <1>4, <1>5, <1>6, <1>7, <1>8 DEF StoreInv

\* A step of the store that leaves the keychain alone: the wallet part of the
\* invariant is that of an unchanged wallet or of a restart.
LEMMA StoreOnlyStep ==
  ASSUME StoreInv, UNCHANGED <<keychain, defaults>>, UNCHANGED memory \/ LoseMemory
  PROVE  /\ WalletInv'
         /\ DbPwdsReadable'
         /\ walletIndex' = walletIndex
         /\ \A db \in DbNames : /\ StoredPwd(db)' = StoredPwd(db)
                                /\ keychain'[db[1]] = keychain[db[1]]
<1>1. WalletInv'
  <2>1. UNCHANGED walletVars \/ Restart
    BY DEF walletVars, Restart
  <2>2. [WalletNext]_walletVars
    BY <2>1 DEF WalletNext
  <2> QED BY <2>2, WalletStep DEF StoreInv
<1>2. \A db \in DbNames : StoredPwd(db)' = StoredPwd(db)
  BY DEF StoredPwd
<1>3. DbPwdsReadable'
  BY <1>2 DEF StoreInv, DbPwdsReadable
<1> QED BY <1>1, <1>2, <1>3 DEF defaults

\* The handle is gone or the same; the databases and the history are the same.
LEMMA SameFilesStep ==
  ASSUME StoreInv, UNCHANGED <<keychain, defaults>>, UNCHANGED memory \/ LoseMemory,
         UNCHANGED <<files, dbSet, acked>>, store' = store \/ store' = Nil
  PROVE  StoreInv'
<1>1. StoreTypeOK'
  BY DEF StoreInv, StoreTypeOK
<1>2. TakenDbs'
  BY StoreOnlyStep DEF StoreInv, TakenDbs
<1>3. SavedRows'
  BY StoreOnlyStep DEF StoreInv, SavedRows, SavedRow
<1> QED BY <1>1, <1>2, <1>3, StoreOnlyStep DEF StoreInv

\* An opened database has the handle's key if it is a new one, and is one.
LEMMA OpenedType ==
  ASSUME StoreTypeOK, store # Nil
  PROVE  /\ store.db \in DbNames /\ store.key \in DbPwds
         /\ Opened(files[store.db], store.key) \in Databases
         /\ Opened(files[store.db], store.key) # Nil
         /\ files[store.db] # Nil =>
              Opened(files[store.db], store.key) = files[store.db]
         /\ files[store.db] = Nil =>
              Opened(files[store.db], store.key).key = store.key
<1>1. /\ store.db \in DbNames /\ store.key \in DbPwds
      /\ files[store.db] \in Databases \cup {Nil}
  BY DEF StoreTypeOK
<1>2. [key |-> store.key, rows |-> NoRows] \in Databases
  BY <1>1 DEF Databases, NoRows
<1>3. CASE files[store.db] = Nil
  BY <1>1, <1>2, <1>3, DatabaseAssumption DEF Opened
<1>4. CASE files[store.db] # Nil
  BY <1>1, <1>4, DatabaseAssumption DEF Opened
<1> QED BY <1>3, <1>4

\* add: the row is in the handle's database, where there was none with its id.
LEMMA RowAddedFiles ==
  ASSUME StoreTypeOK, NEW c \in CredentialIds, NEW v \in Contents, RowAdded(c, v)
  PROVE  /\ files' \in [DbNames -> Databases \cup {Nil}]
         /\ \A db \in DbNames : db # store.db => files'[db] = files[db]
         /\ files'[store.db] # Nil
         /\ files'[store.db].key = store.key
         /\ files'[store.db].rows[c] = v
         /\ files[store.db] # Nil =>
              /\ files[store.db].key = store.key
              /\ files[store.db].rows[c] = Nil
              /\ \A e \in CredentialIds :
                   e # c => files'[store.db].rows[e] = files[store.db].rows[e]
<1> DEFINE file == Opened(files[store.db], store.key)
           new == [file EXCEPT !.rows[c] = v]
<1>1. /\ store # Nil
      /\ CanInsert(file, store.key, c)
      /\ files' = [files EXCEPT ![store.db] = new]
  BY DEF RowAdded
<1>2. /\ store.db \in DbNames
      /\ file \in Databases
      /\ files[store.db] # Nil => file = files[store.db]
      /\ files \in [DbNames -> Databases \cup {Nil}]
  BY <1>1, OpenedType DEF StoreTypeOK
<1>3. file.key = store.key /\ file.rows[c] = Nil
  BY <1>1 DEF CanInsert
<1> HIDE DEF file
<1>4. /\ new \in Databases /\ new.key = file.key /\ new.rows[c] = v
      /\ \A e \in CredentialIds : e # c => new.rows[e] = file.rows[e]
  BY <1>2 DEF Databases
<1> HIDE DEF new
<1>5. new # Nil
  BY <1>4, DatabaseAssumption
<1> QED BY <1>1, <1>2, <1>3, <1>4, <1>5

\* A row that is added, by a save or by one killed before its answer, takes the
\* place of no acknowledged one.
LEMMA RowAddedStep ==
  ASSUME StoreInv, NEW c \in CredentialIds, NEW v \in Contents, RowAdded(c, v),
         UNCHANGED <<keychain, defaults>>, UNCHANGED memory \/ LoseMemory,
         UNCHANGED dbSet, store' = store \/ store' = Nil,
         \/ UNCHANGED acked
         \/ /\ acked' = [acked EXCEPT ![store.db][c] = v]
            /\ StoredPwd(store.db) # Nil
            /\ StoredPwd(store.db).content = store.key
  PROVE  StoreInv'
<1>1. StoreTypeOK /\ TakenDbs /\ SavedRows
  BY DEF StoreInv
<1>2. store # Nil /\ store.db \in DbNames
  BY <1>1, OpenedType DEF RowAdded
<1>3. acked \in [DbNames -> [CredentialIds -> Contents \cup {Nil}]]
  BY <1>1 DEF StoreTypeOK
<1>4. /\ acked' \in [DbNames -> [CredentialIds -> Contents \cup {Nil}]]
      /\ \A db \in DbNames, e \in CredentialIds :
           \/ acked'[db][e] = acked[db][e]
           \/ /\ db = store.db /\ e = c /\ acked'[db][e] = v
              /\ StoredPwd(store.db) # Nil
              /\ StoredPwd(store.db).content = store.key
  BY <1>2, <1>3
<1>5. StoreTypeOK'
  BY <1>1, <1>4, RowAddedFiles DEF StoreTypeOK
<1>6. TakenDbs'
  BY <1>1, <1>2, <1>4, StoreOnlyStep DEF TakenDbs
<1>7. SavedRows'
  <2> SUFFICES ASSUME NEW db \in DbNames, NEW e \in CredentialIds,
                      acked'[db][e] # Nil, ~Gone(keychain[db[1]])
               PROVE  /\ StoredPwd(db) # Nil
                      /\ files'[db] # Nil
                      /\ files'[db].key = StoredPwd(db).content
                      /\ files'[db].rows[e] = acked'[db][e]
    BY StoreOnlyStep DEF SavedRows, SavedRow
  <2>1. acked[db][e] # Nil => SavedRow(db, e)
    BY <1>1 DEF SavedRows
  <2>2. CASE acked'[db][e] = acked[db][e]
    <3>1. SavedRow(db, e)
      BY <2>1, <2>2
    <3>2. CASE db # store.db
      BY <1>1, <2>2, <3>1, <3>2, RowAddedFiles DEF SavedRow
    <3>3. CASE db = store.db
      <4>1. e # c
        BY <1>1, <2>2, <3>1, <3>3, RowAddedFiles DEF SavedRow
      <4> QED BY <1>1, <2>2, <3>1, <3>3, <4>1, RowAddedFiles DEF SavedRow
    <3> QED BY <3>2, <3>3
  <2>3. CASE acked'[db][e] # acked[db][e]
    BY <1>1, <1>4, <2>3, RowAddedFiles
  <2> QED BY <2>2, <2>3
<1> QED BY <1>5, <1>6, <1>7, StoreOnlyStep DEF StoreInv

\* The failed save has at most made the database.
LEMMA SaveCredentialFailsStep ==
  ASSUME StoreInv, SaveCredentialFails
  PROVE  StoreInv'
<1>1. /\ store # Nil
      /\ \/ files' = files
         \/ files' = [files EXCEPT ![store.db] = Opened(files[store.db], store.key)]
      /\ UNCHANGED <<walletVars, dbSet, store, acked>>
  BY DEF SaveCredentialFails
<1>2. /\ StoreTypeOK /\ TakenDbs /\ SavedRows
      /\ UNCHANGED <<keychain, defaults, memory>>
  BY <1>1 DEF StoreInv, walletVars
<1>3. /\ files' \in [DbNames -> Databases \cup {Nil}]
      /\ \A db \in DbNames : files[db] # Nil => files'[db] = files[db]
  BY <1>1, <1>2, OpenedType DEF StoreTypeOK
<1>4. StoreTypeOK'
  BY <1>1, <1>2, <1>3 DEF StoreTypeOK
<1>5. TakenDbs'
  BY <1>1, <1>2, StoreOnlyStep DEF TakenDbs
<1>6. SavedRows'
  BY <1>1, <1>2, <1>3, StoreOnlyStep DEF SavedRows, SavedRow
<1> QED BY <1>2, <1>4, <1>5, <1>6, StoreOnlyStep DEF StoreInv

\* deleteCredentialBy takes the row and its acknowledgement, or neither.
LEMMA DeleteCredentialByStep ==
  ASSUME StoreInv, NEW c \in CredentialIds, NEW ok \in BOOLEAN, DeleteCredentialBy(c, ok)
  PROVE  StoreInv'
<1>1. CASE ~ok
  <2>1. UNCHANGED <<keychain, defaults, memory>> /\ UNCHANGED <<files, dbSet, acked, store>>
    BY <1>1 DEF DeleteCredentialBy, walletVars
  <2> QED BY <2>1, SameFilesStep
<1>2. CASE ok
  <2>1. /\ store # Nil /\ files[store.db] # Nil
        /\ files' = [files EXCEPT ![store.db].rows[c] = Nil]
        /\ acked' = [acked EXCEPT ![store.db][c] = Nil]
        /\ UNCHANGED <<keychain, defaults, memory, dbSet, store>>
    BY <1>2 DEF DeleteCredentialBy, walletVars
  <2>2. /\ StoreTypeOK /\ TakenDbs /\ SavedRows
        /\ store.db \in DbNames /\ files[store.db] \in Databases
    BY <2>1 DEF StoreInv, StoreTypeOK
  <2> DEFINE old == files[store.db]
             new == [old EXCEPT !.rows[c] = Nil]
  <2>3. /\ new \in Databases /\ new.key = old.key /\ new.rows[c] = Nil
        /\ \A e \in CredentialIds : e # c => new.rows[e] = old.rows[e]
    BY <2>2 DEF Databases
  <2>4. files' = [files EXCEPT ![store.db] = new]
    BY <2>1
  <2> HIDE DEF new
  <2>5. new # Nil
    BY <2>3, DatabaseAssumption
  <2>6. /\ files \in [DbNames -> Databases \cup {Nil}]
        /\ acked \in [DbNames -> [CredentialIds -> Contents \cup {Nil}]]
    BY <2>2 DEF StoreTypeOK
  <2>7. /\ files' \in [DbNames -> Databases \cup {Nil}]
        /\ \A db \in DbNames : db # store.db => files'[db] = files[db]
        /\ files'[store.db] = new
    BY <2>2, <2>3, <2>4, <2>6
  <2>8. /\ acked' \in [DbNames -> [CredentialIds -> Contents \cup {Nil}]]
        /\ \A db \in DbNames, e \in CredentialIds :
             acked'[db][e] # Nil => /\ acked'[db][e] = acked[db][e]
                                    /\ db # store.db \/ e # c
    BY <2>1, <2>2, <2>6
  <2>9. StoreTypeOK'
    BY <2>1, <2>2, <2>7, <2>8 DEF StoreTypeOK
  <2>10. TakenDbs'
    BY <2>1, <2>2, <2>8, StoreOnlyStep DEF TakenDbs
  <2>11. SavedRows'
    <3> SUFFICES ASSUME NEW db \in DbNames, NEW e \in CredentialIds,
                        acked'[db][e] # Nil, ~Gone(keychain[db[1]])
                 PROVE  /\ StoredPwd(db) # Nil
                        /\ files'[db] # Nil
                        /\ files'[db].key = StoredPwd(db).content
                        /\ files'[db].rows[e] = acked'[db][e]
      BY <2>1, StoreOnlyStep DEF SavedRows, SavedRow
    <3>1. /\ acked'[db][e] = acked[db][e] /\ (db # store.db \/ e # c)
          /\ SavedRow(db, e)
      BY <2>2, <2>8 DEF SavedRows
    <3> QED BY <2>3, <2>5, <2>7, <3>1 DEF SavedRow
  <2> QED BY <2>1, <2>9, <2>10, <2>11, StoreOnlyStep DEF StoreInv
<1> QED BY <1>1, <1>2

\* A step of the wallet: the next name's domain has no passwords, and no row is
\* acknowledged under that name.
LEMMA WalletAroundStoreStep ==
  ASSUME StoreInv,
         \/ InitHDWallet \/ InitHDWalletWithMnemonics \/ DeleteCurrentWallet
         \/ Restart \/ Crash,
         UNCHANGED <<files, dbSet, acked>>, store' = store \/ store' = Nil
  PROVE  StoreInv'
<1>1. /\ WalletInv /\ WalletTypeOK /\ StoreTypeOK /\ DbPwdsReadable /\ TakenDbs /\ SavedRows
      /\ [WalletNext]_walletVars
  BY DEF StoreInv, WalletInv, WalletNext
<1>2. WalletInv'
  BY <1>1, WalletStep
<1>3. StoreTypeOK'
  BY <1>1 DEF StoreTypeOK
<1>4. walletIndex \in Int /\ walletIndex' \in Int /\ walletIndex' >= walletIndex
      /\ NextName = walletIndex + 1
  BY <1>1, <1>2, WalletCounts, WalletAssumption
     DEF WalletInv, WalletTypeOK, TakeNextName, NextName
<1>5. ASSUME NEW db \in DbNames, StoredPwd(db)' # Nil
      PROVE  keychain'[db[1]] = keychain[db[1]]
  <2>1. db[1] \in Names /\ db[2] \in Domains
    BY DbNameParts
  <2>2. ~Fresh(keychain'[db[1]])
    BY <1>5, <2>1 DEF Fresh, EmptyStore, StoredPwd
  <2> QED BY <1>1, <2>1, <2>2, WalletDomains DEF DomainKept, Fresh
<1>6. DbPwdsReadable'
  BY <1>1, <1>5 DEF DbPwdsReadable, StoredPwd
<1>7. TakenDbs'
  <2>1. \A db \in DbNames : db[1] \in Int
    BY DbNameParts
  <2>2. store # Nil => store.db \in DbNames
    BY <1>1 DEF StoreTypeOK
  <2> QED BY <1>1, <1>4, <2>1, <2>2 DEF TakenDbs
<1>8. SavedRows'
  <2> SUFFICES ASSUME NEW db \in DbNames, NEW c \in CredentialIds,
                      acked[db][c] # Nil, ~Gone(keychain'[db[1]])
               PROVE  SavedRow(db, c)'
    BY DEF SavedRows
  <2>1. db[1] \in Names /\ db[1] # NextName
    BY <1>1, <1>4, DbNameParts DEF TakenDbs
  <2>2. keychain'[db[1]] = keychain[db[1]]
    BY <1>1, <2>1, WalletDomains, EmptyStoreGone DEF DomainKept
  <2>3. SavedRow(db, c)
    BY <1>1, <2>2 DEF SavedRows
  <2> QED BY <2>2, <2>3 DEF SavedRow, StoredPwd
<1> QED BY <1>2, <1>3, <1>6, <1>7, <1>8 DEF StoreInv

\* Without the app there are no files and no handle, but the domains stay.
LEMMA AppRemovedStep ==
  ASSUME StoreInv, AppRemoved
  PROVE  StoreInv'
<1>1. /\ Reinstall /\ keychain' = keychain
      /\ files' = [db \in DbNames |-> Nil] /\ dbSet' = {} /\ store' = Nil
      /\ acked' = [db \in DbNames |-> NoRows]
  BY DEF AppRemoved, Reinstall
<1>2. WalletInv'
  BY <1>1, WalletStep DEF StoreInv, WalletNext
<1>3. NoRows \in [CredentialIds -> Contents \cup {Nil}]
      /\ \A c \in CredentialIds : NoRows[c] = Nil
  BY DEF NoRows
<1>4. StoreTypeOK'
  BY <1>1, <1>3 DEF StoreTypeOK
<1>5. DbPwdsReadable'
  BY <1>1 DEF StoreInv, DbPwdsReadable, StoredPwd
<1>6. TakenDbs' /\ SavedRows'
  BY <1>1, <1>3 DEF TakenDbs, SavedRows
<1> QED BY <1>2, <1>4, <1>5, <1>6 DEF StoreInv

-----------------------------------------------------------------------------
\* The invariant holds on a new device.
LEMMA StoreInitInv ==
  ASSUME StoreInit PROVE StoreInv
<1>1. /\ WalletInv
      /\ files = [db \in DbNames |-> Nil] /\ dbSet = {} /\ store = Nil
      /\ acked = [db \in DbNames |-> NoRows]
  BY WalletInitInv DEF StoreInit
<1>2. NoRows \in [CredentialIds -> Contents \cup {Nil}]
      /\ \A c \in CredentialIds : NoRows[c] = Nil
  BY DEF NoRows
<1>3. StoreTypeOK
  BY <1>1, <1>2 DEF StoreTypeOK
<1>4. DbPwdsReadable
  BY DbNameParts DEF StoreInit, WalletInit, DbPwdsReadable, StoredPwd, EmptyStore
<1>5. TakenDbs /\ SavedRows
  BY <1>1, <1>2 DEF TakenDbs, SavedRows
<1> QED BY <1>1, <1>3, <1>4, <1>5 DEF StoreInv

\* Every step of the store and of its wallet keeps the invariant.
LEMMA StoreStep ==
  ASSUME StoreInv, [StoreNext]_<<walletVars, storeVars>>
  PROVE  StoreInv'
<1>1. ASSUME NEW d \in Domains, NEW fresh \in DbPwds \ PwdsInUse, NEW ok \in Accepted,
             ManagerWithName(d, fresh, ok)
      PROVE  StoreInv'
  <2>1. ok \in BOOLEAN
    BY DEF Accepted
  <2> QED BY <1>1, <2>1, ManagerWithNameStep
<1>2. ASSUME NEW d, NEW encryptDB, ManagerWithoutPwd(d, encryptDB)
      PROVE  StoreInv'
  BY <1>2, SameFilesStep DEF ManagerWithoutPwd
<1>3. CASE ManagerReset \/ UNCHANGED <<walletVars, storeVars>>
  BY <1>3, SameFilesStep DEF ManagerReset, walletVars, storeVars
<1>4. ASSUME NEW c \in CredentialIds, NEW v \in Contents,
             SaveCredential(c, v) \/ CrashInSaveCredential(c, v)
      PROVE  StoreInv'
  BY <1>4, RowAddedStep DEF SaveCredential, CrashInSaveCredential, walletVars
<1>5. CASE WalletHandler \/ ProcessEnds
  BY <1>5, WalletAroundStoreStep DEF WalletHandler, ProcessEnds, storeVars
<1> QED BY <1>1, <1>2, <1>3, <1>4, <1>5, SaveCredentialFailsStep, DeleteCredentialByStep,
           AppRemovedStep
        DEF StoreNext

\* The invariant of the store together with that of its wallet.
THEOREM StoreInvariance == StoreSpec => []StoreInv
BY StoreInitInv, StoreStep, PTL DEF StoreSpec

\* Files, handle and history keep their kinds.
THEOREM StoreTypeCorrect == StoreSpec => []StoreTypeOK
<1>1. StoreInv => StoreTypeOK
  BY DEF StoreInv
<1> QED BY <1>1, StoreInvariance, PTL

\* getOrCreateDomainPwd and deleteWallet: a database password is stored with the
\* master key that decrypts it, and goes with it.
THEOREM DbPwdsCorrect == StoreSpec => []DbPwdsReadable
<1>1. StoreInv => DbPwdsReadable
  BY DEF StoreInv
<1> QED BY <1>1, StoreInvariance, PTL

\* saveCredential: what was acknowledged while its password was in the keychain
\* is read back, through switches, kills and restarts.
THEOREM SavedCredentialCorrect == StoreSpec => []SavedCredentialLoads
<1>1. StoreInv => SavedCredentialLoads
  BY DEF StoreInv, SavedRows, SavedRow, SavedCredentialLoads, LoadByCredentialId, Opened
<1> QED BY <1>1, StoreInvariance, PTL
=============================================================================
