# WeIdentityService: a TLA+ verification project

WeIdentityService is an iOS SDK (Objective-C) for decentralised identities.  An
app opens a wallet, derives key pairs from it, registers their public keys as
WeIds with a WeIdentity node, restores the wallet on another device from its
mnemonics or from a file, and creates, exchanges and keeps credentials.  What can
go wrong is not the cryptography, which is a library, but the order in which
several small stores are written while answers of the node arrive late, the
keychain refuses a write or the process is killed.

Paths below are relative to `src/WeIdentityService/Classes/Code/`.

## Inventory

| Component | State | Operations | Interacts with |
|---|---|---|---|
| Keychain (`Suite/WIKeychainPersistence.m`) | items of a domain | add (delete, then add), update, batchAdd, get, delete a domain | used by the wallet; survives a reinstall |
| Wallet manager (`Restoration/Wallet/WIWalletManager.mm`) | NSUserDefaults: current and previous wallet, counter of names, database set | getNextWalletName, setCurrentWallet, deleteWallet, deletePreviousWallet, deleteCurrentWallet, registerDatabase | names keychain domains; emptied by a reinstall |
| HD wallet (`Restoration/Wallet/WIHDWallet.m`) | shared object: key store, index, password, inited; per wallet a list of WeIds | initHDWallet, import from mnemonics or a file, exports, key pairs, transaction and database passwords | keychain, wallet manager, wedpr library |
| WeId service (`WI/Headers/WeId/WIWeIdentityService.m`) | isNullWithFirstRequest; requests in flight | createWeId, getWeIdByPubKeyList, getWIDocumentByWeId | node (asynchronous), HD wallet |
| Restoration service (`WI/Headers/WeId/WIRestorationService.m`) | the lists of the lookup in flight | initHDWalletWithMnemonics | WeId service, HD wallet, wallet manager |
| Restoration file (`WIHDWallet.m`, `Restoration/Utils/WISaveDataWithFile.m`) | a file of encrypted lines | exportRestorationFile (appends), initHDWalletWithFile (wants one line) | HD wallet; leaves the app with the user |
| Credential store and manager (`WICredentialPersistence`, `WIDBPersistence`, `WIManager`) | one encrypted database per wallet and name, the handle of the shared manager | open, save, load, delete | HD wallet (database password), wallet manager |
| Credential service (`WICredentialService`, `WICredential`) | none of its own | create and sign, JSON, save, load, verify | transaction passwords, credential store |
| Evidence, payment, network | a shared group id | requests | node |
| Export and import of credentials (`WIRestoration`) | files | export, import | HD wallet |

Everything runs on the main queue, so a handler is not interleaved with another;
what interleaves is requests and their answers, and what interrupts is the end
of the process.  The release build compiles `NSAssert` to nothing
(`Example/WeIdentityService.xcodeproj/project.pbxproj:597`), so assertions are
no guards.

What makes each part correct:

* wallet: a name never leads to a part of a wallet; the wallet that is open can
  be used; the old wallet is not harmed before the new one is complete;
* WeId service: an index is not handed out twice; a WeId is stored in the wallet
  its key came from, with its own key pair; an index lost to a failure is passed;
* restoration: the old wallet is not touched before the restored one is complete,
  and a restore that fails leaves the old one current;
* transaction password: the password set last, and no other, opens the key pair;
* restoration file: an import that says YES opened the wallet exported last;
* credential store: what was saved can be loaded while its wallet exists, and the
  files of a deleted wallet can be read by nobody;
* credentials: copies through JSON and rows stay what their issuer signed, and what
  the SDK signs it can verify.

The hazards behind these are listed in `PROJECT.json`, each at its line.

## Modules

| Module | Models | Extends |
|---|---|---|
| `WINil` | nil | |
| `WICryptoUtils` | hashes, AES, ECIES and signatures, symbolically | `WINil` |
| `WIKeychainPersistence` | the effect and the answer of a keychain write that may be refused | `WINil` |
| `WIHDWallet` | the life of a wallet | the two above |
| `WIWeIdentityService` | creation of WeIds, the chain, requests in flight | `WIHDWallet` |
| `WIRestorationService` | restoration from mnemonics | `WIWeIdentityService` |
| `WITransPwd` | transaction passwords of stored key pairs | `WICryptoUtils`, `WIKeychainPersistence` |
| `WIVault` | abstract: what the wallet promises its user | |
| `WIRestorationFile` | export to and import from a file, around the whole life of the wallet | `WIHDWallet` |
| `WICredentialPersistence` | databases, their passwords and the shared manager, around the life of the wallet | `WIHDWallet` |
| `WICredential` | what is hashed, exchanged and stored of a credential | `WICryptoUtils` |
| `WICredentialService` | creation, exchange, saving and verification, around the changes of transaction passwords | `WITransPwd`, `WICredential` |
| `MC...` | instances for TLC | the module of the same name |
| `..._proofs` | theorems and proofs | the module of the same name, and the proofs of the components it is built on |

`WIVault_proofs` extends `WIHDWallet_proofs`: it proves that the wallet implements
the vault.

How state and actions correspond to the code:

* A wallet is its name, the value of the counter.  `keychain[w]` is a record of
  its items; `current`, `previous`, `walletIndex` and `weIdList` are the
  NSUserDefaults keys; `keyStore`, `currentIndex`, `inited` and `unlockPwd` the
  fields of the shared object.
* A handler is one action, with its writes, answers and clean-up.  Which adds
  are refused is a parameter.  A kill between two writes of a handler is an action
  of its own; `batchAdd` enumerates a dictionary, so any subset of its items may be
  missing:

  | Action | Killed inside | Leaves |
  |---|---|---|
  | `CrashInSave` | the filling of a new domain | any items of the new wallet, which is not current; with all of them the previous name may be written |
  | `CrashInReplace` | the switch to a whole new wallet | the old one deleted, its list or its name still there |
  | `CrashInOnCreated` | the handler of a new WeId | the index, then the list, without the key pair |
  | `CrashInSaveWeIdInfo` | the save that ends a restore | some or all key pairs, with all of them the list, then the index |
  | `CrashInDeletePrevious` | deletePreviousWallet, or after it | everything restored; the old wallet's domain deleted, then its list, then its name |
  | `CrashAfterLookupFails`, `CrashAfterSaveFails`, `CrashAfterRefused` | `__initHDWalletFailed`, by what it was called for (`KilledInInitFailed`) | the current domain deleted, then its list, then the previous name overwritten |
  | `CrashInSaveWIKeyPair` | saveWIKeyPair | the old hash deleted, or the new one added, or the key pair deleted too |
  | `CrashInSaveCredential` | a save to a database | the row, unanswered |

  A kill at any other place leaves what some action leaves, followed by `Crash`.
* `Reinstall` empties NSUserDefaults and keeps the keychain.
* New mnemonics are random in the code; the model lets a new wallet get any
  mnemonics, also ones seen before.
* `WIVault` has two variables, a vault and a session.  `Vault` in `WIHDWallet`
  maps them: the vault is empty without a current wallet, lost when the current
  wallet's items are deleted, and otherwise the mnemonic and the password of the
  current wallet (`VaultOf`); the session is the password in memory while
  `inited`.  A refused import, a kill while a new domain is filled, a change of
  the counter of names are stutters there; `CrashInReplace` is `Lose`.
* The restoration file is its first line and whether there are more: an import
  reads files of one line, so nothing else of the other lines matters.
* A database is a file with the key it was first written with and its rows.  The
  password of a database is encrypted for a key pair of a random index, stored
  next to it, so the master key decides who can read it.  `PwdsInUse` keeps a
  random password different from those that are still somewhere.
* `ManagerWithoutPwd`: without a password an array literal with nil raises and
  ends the process.  With `encryptDB` NO this is always so.
* A dictionary is a set of key and value pairs without nil values, and its JSON
  text the dictionary itself: the text has its keys sorted, so equal dictionaries
  have equal texts.  The keys are kept, because the code uses both "f" and "$f".
* Restores are not composed with the credential store.  A failed restore leaves
  `inited` YES on a deleted domain, where getting a database password fails and
  opening a database ends the process; in `StoreSpec` an open fails only without an
  inited wallet or with `encryptDB` NO.
* Credentials from elsewhere are signed the way the comment of `__calculateProof`
  says, and may come without id, without "$f" or with a context.
* The AES key: the code copies a 64-character key into a buffer of 33 bytes and
  ignores the failure, which leaves the buffer unspecified.  `AesKeyIsZero`
  chooses between the two outcomes a build can have.  The wallet behaves the same
  in both, because it checks a hash of the password first.  A transaction
  password depends on it: `saveWIKeyPair` encrypts with another key than
  `getWIKeyPair` decrypts with, so a key pair can be read back only if the key is
  zero.  The runs of `WITransPwd` therefore use `AesKeyIsZero = TRUE`.
* The chain is the set of registered key pairs.  The node registers a new key
  and answers "exists" (code 100105) for a known one; a request or its answer may
  be lost.  `RegisterElsewhere` is a second device with the same mnemonics, which
  registers its indexes in order.
* A lookup gives the WeIds of the known keys, in their order, without their places
  (`getWeIdByPubKeyList` filters them into a new array).  `Place` counts how many
  known keys there are up to one; that is where the filter leaves it in `Found`.
* `AppWaits` says whether the app makes a call only when none is in flight and no
  restore waits for the node; nothing in the SDK enforces it.  A second device
  (`OtherDevice`) does not wait.  At most one restore is in flight: a bound.
* `before` and `outcome` (restoration), `acked` (transaction passwords and
  credential store), `chosen` (transaction passwords), `exported` and `answers`
  (file) and `issued` (credentials) are history variables for the properties.
  `chosen` holds the password of the last save that answered YES and those of
  updates killed since then that got past the check of the current one.  `issued` is what the
  issuer signed, before fromJson reads it.

Keychain reads and deletes are taken to succeed.

## Runs

| Run | Instance | Shows |
|---|---|---|
| `wallet_lifecycle` | 2 mnemonics, 2 unlock and 2 restore passwords, 2 names, refusals, kills, a restoration file | the current wallet is whole or deleted (`CurrentWalletWhole`), what is in memory can be used (`SessionOpens`), a wallet is harmed only when its replacement is complete (`ReplacedOnlyByWhole`); the wallet implements `WIVault` (`RefinesVault`); an import from a file that answers YES first opened the wallet exported last, and one that answers NO changed nothing (`ImportRestores`) |
| `weid_creation` | 2 mnemonics, 2 names, 2 indexes, refusals, kills, a second device, one call at a time, fairness | every listed WeId is below the stored index (`ListedBelowIndex`) and was made by that wallet (`OwnWeIdsOnly`); `SessionOpens`; a used index is passed (`UsedIndexIsPassed`) |
| `restore` | 1 mnemonic, 2 unlock passwords, 2 names, buckets of 2, refusals, kills, lookups that fail, an app that waits, a second device | a restore that fails after its import leaves the old wallet current and whole (`FailedRestoreKeepsWallet`); no step, killed or not, touches its items before the restored wallet has its key pairs, list and index (`OldWalletKeptUntilSaved`); success means a key pair for every WeId (`RestoredHaveKeys`) |
| `trans_pwd` | 2 key pairs, nil, "" and 2 passwords, refusals, kills, updates with and without callback | the password of the last save that answered YES opens the key pair (`SavedPwdOpens`), and no other does, neither an older one nor that of a failed update (`OnlyChosenPwdOpens`); an update killed since may have put its password in place |
| `credential_store` | 2 mnemonics, 2 names, a database name, 4 database passwords, refusals, kills, reinstalls; no restores | a stored database password can be read with the master key next to it and is gone with it (`DbPwdsReadable`); a saved credential is there under the password the next start reads (`SavedCredentialLoads`) |
| `credential_service` | 2 credentials, 2 claims, an issuer elsewhere, nil and a transaction password, refusals, kills | every copy, that of the first import included, has the id, issuer, claim and signature its issuer gave it (`IssuedStaysIntact`) |

Runs that end in a counterexample, each about a comment of the code that the code
does not live up to (quoted under `findings` in `PROJECT.json`):

| Run | Property | What happens |
|---|---|---|
| `overlap_switch` | `OwnWeIdsOnly` | an answer that arrives after a wallet switch is stored in the wrong wallet |
| `restore_save_refused` | `RefusedRestoreKeepsWallet` | a restore whose import is refused deletes the user's current wallet |
| `restore_full_bucket` | `RestoredAll` | only the WeIds of the last bucket are restored |
| `restore_gap` | `PairsMatch` | WeIds after an unregistered index get the key pair of their neighbour |
| `trans_pwd_delete` | `DeletedPwdOpens` | after a transaction password is deleted nothing opens the key pair |
| `credential_sign` | `CreatedVerifies` | a credential is signed over another text than the one that is verified (key "f" for "$f", and a second hash), so no credential made by the SDK verifies |

Seen while modelling, without a run of its own:

* With two createWeId calls in flight (`AppWaits = FALSE`) the answers may come in
  either order and the later one moves the index back, so `ListedBelowIndex` is a
  promise to apps that wait.
* After a failed restore the shared object still holds the deleted wallet with
  `inited` YES, until the app is restarted; the restore properties are therefore
  about what is stored.  On a device that had no wallet the deleted one stays
  current, and initHDWallet can neither load it nor make another.
* initHDWalletWithFile always calls back a last time with NO.
* exportRestorationFile answers YES without a wallet and writes "(null)".
* A failed restore makes the previous wallet current by writing the deleted name over
  the previous one first; a kill between the two writes leaves the old wallet's items
  without a name that leads to them.
* An update of a transaction password without a callback goes on when the current
  password is wrong.  Killed after the new hash is added and before the key pair is
  deleted, it leaves the old key pair under the new password in the build with the
  zero key.  `OnlyChosenPwdOpens` admits it: nothing is promised for a kill.
* The comment of updateTransPwd (`WIHDWallet.h:92`) counts nil, the empty string and
  blanks alike as no password.  saveWIKeyPair does so for the empty string,
  getWIKeyPair compares with nil only: a key pair saved with "" is handed out for nil
  and refused for "".  The properties name such a save by nil.
* fromJson does not read "$f", which toJson writes and `WICredential.h:19` fixes to
  "1": the first import loses it, and a signature that covers it no longer verifies.
  `IssuedStaysIntact` compares with what the issuer signed, before fromJson, and is
  about id, issuer, claim and signature only.
* Nothing keeps an app from another import while a restore waits for the node.  If the
  restore then fails, `__initHDWalletFailed` takes the wallets that are current and
  previous by then: it deletes the one imported last and makes a deleted one current.
  `FailedRestoreKeepsWallet` fails so with `AppWaits = FALSE`; the restore properties
  are promises to apps that wait.
* `encryptDB:NO` ends the process.  A database whose password the keychain
  refused accepts saves that are lost with the process.
* exportCredentialList and restoreCredentialListByFile look for the password
  under a name without the wallet in front and always answer NO.
* verifyWithPubKey and other methods of the headers have no implementation.

Bounds.  Two names are a wallet and its replacement, and after a reinstall the
names meet the keychain items of the wallets before.  Two indexes are one to use
and one to go on with; a bucket of 2 has an empty, a partial and a full answer
(10 in the code).  Two mnemonics and two passwords are enough to take one for
another.  A fifth database password adds no states to `credential_store`: at most
four are in use or about to be.  Two credentials are one and another that must not
be taken for it, and one transaction password beside nil makes every change the
credential service can see.  `restore` has one mnemonic, so that an import meets the
WeIds of the wallet it replaces, and two unlock passwords to tell the two wallets
apart.  `restore_full_bucket` has one index more than a bucket, and
`restore_gap` room for a gap inside one.  `MaxIndex` and `MaxWallets` bound
counters that the code leaves unbounded.

Fairness (`weid_creation`).  A user who wants a WeId asks again (weak fairness of
`CreateWeId`).  Of requests that are made again and again some reaches the node
and some answer comes back (strong fairness); the main queue runs the handler.
Neither restarts nor losses are excluded.  The code has no retry of its own, so
without a user who asks again nothing is promised.

## Proofs

Every safety property of a passing run is also a theorem, under the hypotheses below:
it holds for every set of mnemonics, passwords, key pairs, databases and credentials,
every start index, every number of names and every size of a bucket, with or without
refusals.  The theorems about WeIds and restores are for apps that wait (`AppWaits`),
and `SavedPwdCorrect` needs `AesKeyIsZero`.  Each follows from an inductive invariant,
stated at the end of the component's module.  TLC checked the invariants on the
instances of the runs before they were proved.

| Module | Theorems | Inductive invariant |
|---|---|---|
| `WIHDWallet_proofs` | `WalletInvariance`, `WalletTypeCorrect`, `CurrentWalletCorrect`, `SessionCorrect`, `Replacement` | `WalletInv` |
| `WIVault_proofs` | `WalletRefinesVault` | `WalletInv` |
| `WIRestorationFile_proofs` | `FileInvariance`, `ImportRestoresCorrect`, `FileRefinesVault`, `FileReplacement` | `FileInv` |
| `WIWeIdentityService_proofs` | `WeIdInvariance`, `WeIdTypeCorrect`, `ListedBelowIndexCorrect`, `OwnWeIdsCorrect`, `WeIdSessionCorrect` | `WeIdInv`, for apps that wait |
| `WIRestorationService_proofs` | `RestoreInvariance`, `RestoreTypeCorrect`, `FailedRestoreCorrect`, `RestoredHaveKeysCorrect`, `OldWalletKept` | `RestoreInv`, for apps that wait |
| `WITransPwd_proofs` | `TransInvariance`, `OnlyChosenCorrect`, `SavedPwdCorrect` | `TransInv`, and `ChosenItems` |
| `WICredentialPersistence_proofs` | `StoreInvariance`, `StoreTypeCorrect`, `DbPwdsCorrect`, `SavedCredentialCorrect` | `StoreInv` |
| `WICredentialService_proofs` | `CredentialInvariance`, `IssuedIntactCorrect` | `CredentialInv` |

The arguments, and what each invariant adds to the properties:

* Wallet.  `NamesTaken` (the current name is not above the counter) is what the other
  parts lack: the next name is one above the counter, so it is not the current one,
  and cleaning and filling its domain leaves the current wallet alone
  (`NextNameFree`, `SavedAsNextDomain`).  A save without a refusal is a whole wallet
  that its password opens (`SaveWhole`).  A load succeeds only with the password the
  wallet was saved with, because equal hashes come from equal passwords (`OpensOwn`).
  Every action is then a switch to such a wallet (`SwitchStep`), a write outside the
  current domain (`KeepStep`), a load (`LoadStep`), or the kill in the middle of a
  replacement (`CrashInReplaceStep`).
* Vault.  A whole domain holds one mnemonic under one password (`OneSecret`), so
  `VaultOf` is what was saved.  Each action of the wallet then is one step of the
  vault or leaves vault and session as they are.
* File.  `OnlyLineIsLatest`: a file of one line holds the mnemonics exported last.
  Exports append, so an older line can only be there in a file that no import reads.
* WeIds.  `UnusedUnlisted` (names still to be handed out have empty lists) keeps the
  list of a new wallet free of WeIds of another; `SessionStarted` makes the index of
  a request one that a key pair can have; `OneInFlight` says that a request in
  flight belongs to the open wallet and to the index in memory.  It is where
  `AppWaits` is needed, and the hypothesis of every theorem of the module:
  `overlap_switch` shows what happens without.  The handlers share one lemma
  (`AnsweredStep`) about what an answer may write.
* Restoration.  `Restoring`: while a lookup is in flight the imported wallet is
  current and open with an empty list, and the wallet to be replaced is the previous
  one and whole.  It is where `AppWaits` is needed: a call beside a restore changes
  which wallets are current and previous.  The proofs cannot use `WalletInv`, because a failed restore leaves a deleted
  wallet open in memory; `WalletNamesStep` and `OtherStep` prove again what is left
  of it (`NamesInUse`).  That the places of a lookup with gaps have key pairs
  (`FoundIs`) is a counting argument: up to the j-th key there are at most j known
  ones (`UpToCount`), and every place is taken (`PlacesTaken`, by the pigeonhole
  principle).  The key pair need not be the right one (`restore_gap`); what is
  proved is that there is one.  `OldWalletKept` is by cases on the writes: each step
  and each kill either leaves the items of the wallet before alone, or has written
  all that `SavedWhole` asks for (`IndexCompletes`).
* Transaction passwords.  `OwnPair`: under a key's name there is its own key pair or the
  nil one, also after a refused or killed save.  `SavedItems`: after a save that was
  acknowledged both items are made from its password.  `ChosenItems`: a key pair in
  plain text was saved without a password, and next to a ciphertext of it there is no
  hash but one of a chosen password.  A refused add of the hash leaves no hash, and one
  of the key pair no key pair, because an add deletes first.
* Credential store.  On top of `WalletInv`: `TakenDbs` (the open database and
  every acknowledged row belong to a name that was handed out, which no new wallet
  gets) and `SavedRows` (the row an acknowledged save left, and the
  password that reads it).
* Credentials.  On top of `TransInv`: `CopiesOK`, every copy and every row is a copy
  (`IsCopyOf`) of what its issuer signed; the context and "$f" are what toJson,
  fromJson and the rows may drop.

Assumptions, each in the module that declares its constants: the bounds are natural
numbers and the sets the code keeps apart are disjoint (`WalletAssumption`,
`CallsAssumption`, `BucketAssumption`, `TransPwdAssumption`, `ServiceAssumption`,
`StoreAssumption`, `FileAssumption`); nil is none of the values the code stores
(`NilAssumption`, `TransNilAssumption`, `DatabaseAssumption`, `IssuedAssumption`,
`OutcomeAssumption`).  The latter cannot be derived because `Nil` is any value; the
runs give it a model value and evaluate all of them.

Only model-checked: `UsedIndexIsPassed`, which is liveness under fairness and out of
the prover's reach; and the six properties that the code violates, each by a
counterexample.

## Mutants

Every property of a passing run has a mutated definition next to the one it
replaces (`ImportHDWallet_DeleteFirst`, `ReadContent_FirstLine`,
`GetOrCreateDomainPwd_AlwaysNew`, `FromJson_SignNotSet`, ...) that breaks it: a bug the
code could have had.  No specification uses them; `PROJECT.json` pairs them.

## Plan

Done: the wallet and its abstract specification, WeId creation, restoration,
transaction passwords, the restoration file, the credential store and the credential
service, each with its proofs.  To come:

1. the safety core of `UsedIndexIsPassed`: in one session the index in memory never
   goes back for an app that waits, as an action property with its run and theorem;
2. the restoration of a lookup without gaps: under the assumption that the chain has
   no gap, `PairsMatch` for the restored wallet, from `PlacesTaken`;
3. the credential store around restores, a failed one included.

## Not modelled

* The wedpr library and its generated protobuf code: a binary; a mnemonic has a
  master key or is refused.
* Payment and evidence services and the network manager: each method formats one
  request, in one turn of the main queue with the group id it sets, and passes
  the answer on.  No later call depends on anything they keep.
* Export and import of credentials: they answer NO before they change anything.
* verifyWithIssuerWeId: its last call has no implementation.
* WIKVPersistence and WIStringModel: used by nothing.
* Documents (immutable values), errors, logging, the example app.
* The vendored pods (SQLCipher, WCDB, Protobuf, AFNetworking, YYModel), which make
  up nearly all C code under `src/Example/Pods`: third-party libraries, modelled
  only by what this SDK relies on: an encrypted file opens with its own key, a
  primary key is unique, an insert binds nil as NULL.
