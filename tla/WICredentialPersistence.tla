---------------------- MODULE WICredentialPersistence ----------------------
(***************************************************************************)
(* The credential store of a wallet: WICredentialPersistence.mm on top of  *)
(* WIDBPersistence.mm, opened by WIManager.mm with the database password   *)
(* that getOrCreateDomainPwd of WIHDWallet.m keeps in the wallet's domain  *)
(* of the keychain.                                                        *)
(*                                                                         *)
(* A database is a file in Documents named after the current wallet and    *)
(* after the name the app gives.  It is encrypted as a whole with the      *)
(* password of the handle that wrote to it first.  The handle in           *)
(* WIManager.manager stays as it is when the wallet is switched, and a     *)
(* deleted wallet's files stay where they are.  The life of the wallet     *)
(* goes on around the store: its handlers are those of WIHDWallet.         *)
(*                                                                         *)
(* Restores are left out.  A failed one leaves inited at YES on a deleted  *)
(* domain, where getOrCreateDomainPwd fails and managerWithName ends the   *)
(* process; here it does so only without an inited wallet, or with         *)
(* encryptDB NO.                                                           *)
(***************************************************************************)
EXTENDS WIHDWallet

CONSTANTS
  CredentialIds,   \* primary keys
  Contents         \* everything else in a row

ASSUME StoreAssumption == Nil \notin Contents \cup DbPwds

VARIABLES
  files,   \* files[<<w, d>>]: Documents/wi-<w>_<d>.sqlite; Nil: no database there
  dbSet,   \* NSUserDefaults wallet_db_set
  store,   \* WIManager.manager.credentialStore; Nil: none
  acked    \* acked[db][c]: the row whose save answered YES while the password of
           \* the handle was in the keychain, until it is deleted; Nil: none

storeVars == <<files, dbSet, store, acked>>

-----------------------------------------------------------------------------
DbNames == Names \X Domains
NoRows == [c \in CredentialIds |-> Nil]
Databases == [key : DbPwds, rows : [CredentialIds -> Contents \cup {Nil}]]

\* nil is no database.
ASSUME DatabaseAssumption == Nil \notin Databases

StoredPwd(db) == keychain[db[1]].dbPwds[db[2]]

\* A random password is none of those that are already somewhere.
PwdsInUse ==
  {StoredPwd(db).content : db \in {f \in DbNames : StoredPwd(f) # Nil}}
    \cup {files[db].key : db \in {f \in DbNames : files[f] # Nil}}
    \cup (IF store = Nil THEN {} ELSE {store.key})

(***************************************************************************)
(* getOrCreateDomainPwd.  __createKeyPair needs an inited wallet whose     *)
(* master key loads.  A password is created when the domain has none, and  *)
(* handed out whether or not the keychain accepted it.                     *)
(***************************************************************************)
DomainPwdItem(d) == IF keyStore = Nil THEN Nil ELSE keychain[keyStore].dbPwds[d]

SessionMasterKey ==
  IF inited THEN LoadMasterKey(keychain[keyStore], unlockPwd) ELSE Nil

DomainPwd_Undecrypted(d, fresh) ==
  IF SessionMasterKey = Nil
  THEN Nil
  ELSE IF DomainPwdItem(d) = Nil THEN fresh ELSE DomainPwdItem(d)
DomainPwd(d, fresh) ==
  IF SessionMasterKey = Nil
  THEN Nil
  ELSE IF DomainPwdItem(d) = Nil
       THEN fresh
       ELSE EciesDecrypt(DomainPwdItem(d), SessionMasterKey)

GetOrCreateDomainPwd_AlwaysNew(d, fresh, ok) ==
  keychain' = [keychain EXCEPT ![keyStore].dbPwds[d] =
                 Add(EciesEncrypt(fresh, SessionMasterKey), ok)]
GetOrCreateDomainPwd(d, fresh, ok) ==
  keychain' = IF DomainPwdItem(d) # Nil
              THEN keychain
              ELSE [keychain EXCEPT ![keyStore].dbPwds[d] =
                      Add(EciesEncrypt(fresh, SessionMasterKey), ok)]

-----------------------------------------------------------------------------
\* managerWithName:encryptDB:YES, initWithDomain and registerDatabase, which
\* replaces the set of databases by the newest one.
ManagerWithName(d, fresh, ok) ==
  /\ DomainPwd(d, fresh) # Nil
  /\ GetOrCreateDomainPwd(d, fresh, ok)
  /\ store' = [db |-> <<current, d>>, key |-> DomainPwd(d, fresh)]
  /\ dbSet' = {<<current, d>>}
  /\ UNCHANGED <<defaults, memory, files, acked>>

\* Without a password, because of an error or because encryptDB is NO, an error
\* is called back but the method goes on, and the literal array it logs, which
\* may not hold nil, raises: the process ends.
ManagerWithoutPwd(d, encryptDB) ==
  /\ encryptDB => \A fresh \in DbPwds : DomainPwd(d, fresh) = Nil
  /\ LoseMemory
  /\ store' = Nil
  /\ UNCHANGED <<keychain, defaults, files, dbSet, acked>>

ManagerReset ==
  /\ store' = Nil
  /\ UNCHANGED <<walletVars, files, dbSet, acked>>

-----------------------------------------------------------------------------
(***************************************************************************)
(* A database opened with a key: a file that does not exist is made with   *)
(* this key when its table is created; with another key nothing works.     *)
(***************************************************************************)
Opened(file, key) == IF file = Nil THEN [key |-> key, rows |-> NoRows] ELSE file

\* add: creates the table if it is missing, then inserts; the id is the primary
\* key, so a second row with it is refused.
CanInsert(file, key, c) == file.key = key /\ file.rows[c] = Nil

RowAdded(c, v) ==
  /\ store # Nil
  /\ LET file == Opened(files[store.db], store.key)
     IN /\ CanInsert(file, store.key, c)
        /\ files' = [files EXCEPT ![store.db] = [file EXCEPT !.rows[c] = v]]

SaveCredential(c, v) ==
  /\ RowAdded(c, v)
  /\ acked' = IF StoredPwd(store.db) # Nil /\ StoredPwd(store.db).content = store.key
              THEN [acked EXCEPT ![store.db][c] = v]
              ELSE acked
  /\ UNCHANGED <<walletVars, dbSet, store>>

\* The save answers NO: refused, or out of space before or after the table.
SaveCredentialFails ==
  /\ store # Nil
  /\ files' \in {files,
                 [files EXCEPT ![store.db] = Opened(@, store.key)]}
  /\ UNCHANGED <<walletVars, dbSet, store, acked>>

\* Killed after the insert, before the answer.
CrashInSaveCredential(c, v) ==
  /\ RowAdded(c, v)
  /\ LoseMemory
  /\ store' = Nil
  /\ UNCHANGED <<keychain, defaults, dbSet, acked>>

\* deleteCredentialBy, which may fail like any other statement.
DeleteCredentialBy(c, ok) ==
  /\ store # Nil
  /\ files[store.db] # Nil
  /\ files[store.db].key = store.key
  /\ files' = IF ok THEN [files EXCEPT ![store.db].rows[c] = Nil] ELSE files
  /\ acked' = IF ok THEN [acked EXCEPT ![store.db][c] = Nil] ELSE acked
  /\ UNCHANGED <<walletVars, dbSet, store>>

\* loadByCredentialId of a handle: the row with the id; Nil when not found.
LoadByCredentialId(handle, c) ==
  LET file == Opened(files[handle.db], handle.key)
  IN IF file.key = handle.key THEN file.rows[c] ELSE Nil

-----------------------------------------------------------------------------
StoreInit ==
  /\ WalletInit
  /\ files = [db \in DbNames |-> Nil]
  /\ dbSet = {}
  /\ store = Nil
  /\ acked = [db \in DbNames |-> NoRows]

\* A wallet handler leaves the store alone; the end of the process takes the
\* handle; removing the app takes its files and its defaults.
WalletHandler ==
  /\ InitHDWallet \/ InitHDWalletWithMnemonics \/ DeleteCurrentWallet
  /\ UNCHANGED storeVars

ProcessEnds ==
  /\ Restart \/ Crash
  /\ store' = Nil
  /\ UNCHANGED <<files, dbSet, acked>>

AppRemoved ==
  /\ Reinstall
  /\ files' = [db \in DbNames |-> Nil]
  /\ dbSet' = {}
  /\ store' = Nil
  /\ acked' = [db \in DbNames |-> NoRows]

StoreNext ==
  \/ \E d \in Domains :
       \/ \E fresh \in DbPwds \ PwdsInUse, ok \in Accepted : ManagerWithName(d, fresh, ok)
       \/ \E encryptDB \in BOOLEAN : ManagerWithoutPwd(d, encryptDB)
  \/ ManagerReset
  \/ \E c \in CredentialIds, v \in Contents :
       SaveCredential(c, v) \/ CrashInSaveCredential(c, v)
  \/ SaveCredentialFails
  \/ \E c \in CredentialIds, ok \in BOOLEAN : DeleteCredentialBy(c, ok)
  \/ WalletHandler
  \/ ProcessEnds
  \/ AppRemoved

StoreSpec == StoreInit /\ [][StoreNext]_<<walletVars, storeVars>>

-----------------------------------------------------------------------------
(***************************************************************************)
(* Properties.                                                             *)
(***************************************************************************)

\* Files, handle and history are of the kinds the code writes.
StoreTypeOK ==
  /\ files \in [DbNames -> Databases \cup {Nil}]
  /\ dbSet \subseteq DbNames
  /\ store \in [db : DbNames, key : DbPwds] \cup {Nil}
  /\ acked \in [DbNames -> [CredentialIds -> Contents \cup {Nil}]]

\* A database password stored in a domain can be decrypted with the master key
\* stored there: none outlives its wallet, so that the files a deleted wallet
\* leaves behind stay unreadable, and none that an earlier installation left in
\* the keychain gets into a new wallet of the same name.
DbPwdsReadable ==
  \A db \in DbNames :
    StoredPwd(db) # Nil =>
      /\ keychain[db[1]].master # Nil
      /\ StoredPwd(db).masterKey = keychain[db[1]].master.content

\* A credential whose save answered YES while its database's password was in the
\* keychain is there, unchanged, under the password that the next start reads
\* back, until it or its wallet is deleted: through refused adds, switches of the
\* wallet, kills and restarts.
SavedCredentialLoads ==
  \A db \in DbNames, c \in CredentialIds :
    acked[db][c] # Nil /\ ~Gone(keychain[db[1]]) =>
      /\ StoredPwd(db) # Nil
      /\ LET handle == [db |-> db, key |-> StoredPwd(db).content]
         IN LoadByCredentialId(handle, c) = acked[db][c]

-----------------------------------------------------------------------------
(***************************************************************************)
(* The inductive invariant behind the properties above.  A saved row is in *)
(* a database of a name already taken, which no new wallet gets.           *)
(***************************************************************************)
TakenDbs ==
  /\ store # Nil => store.db[1] <= walletIndex
  /\ \A db \in DbNames, c \in CredentialIds : acked[db][c] # Nil => db[1] <= walletIndex

\* The row is under the password that the keychain keeps.
SavedRow(db, c) ==
  /\ StoredPwd(db) # Nil
  /\ files[db] # Nil
  /\ files[db].key = StoredPwd(db).content
  /\ files[db].rows[c] = acked[db][c]

SavedRows ==
  \A db \in DbNames, c \in CredentialIds :
    acked[db][c] # Nil /\ ~Gone(keychain[db[1]]) => SavedRow(db, c)

StoreInv == WalletInv /\ StoreTypeOK /\ DbPwdsReadable /\ TakenDbs /\ SavedRows
=============================================================================
