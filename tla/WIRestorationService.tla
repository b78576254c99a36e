------------------------ MODULE WIRestorationService ------------------------
(***************************************************************************)
(* initHDWalletWithMnemonics of WIRestorationService.m: import a wallet    *)
(* without deleting the current one, ask the node bucket by bucket which   *)
(* of its public keys are WeIds, store what was found, and only then       *)
(* delete the previous wallet; on a failure go back to the previous one.   *)
(*                                                                         *)
(* Nothing in the code keeps an app from other calls while a restore waits *)
(* for the node: with AppWaits it makes none before the callback, without  *)
(* it any.  At most one restore is in flight.                              *)
(***************************************************************************)
EXTENDS WIWeIdentityService

CONSTANTS
  Bucket,     \* WIRestorationWeIDBucket: public keys per request
  NetFails    \* whether a lookup may fail or be answered by an error

ASSUME BucketAssumption == Bucket \in Nat \ {0} /\ NetFails \in BOOLEAN

\* nil is no key pair, and no outcome.
ASSUME OutcomeAssumption ==
  Nil \notin KeyPairs /\ Nil \notin {"restored", "refused", "failed"}

VARIABLES
  restore,                  \* [masterKey, start] of the lookup in flight, or Nil
  isNullWithFirstRequest,   \* WIWeIdentityService: an earlier lookup found WeIds
  outcome,                  \* how the last restore ended: "restored", "refused" (the
                            \* import failed), "failed"; Nil after any other step
  before                    \* the whole wallet that was current when it began, or Nil

restoreVars == <<weIdVars, restore, isNullWithFirstRequest, outcome, before>>
lookupVars == <<chain, calls, isNullWithFirstRequest>>

-----------------------------------------------------------------------------
\* getPublicKeyList: the key pairs a lookup asks for.
Keys == [i \in 1 .. Bucket |-> KeyPair(restore.masterKey, restore.start + i - 1)]

\* The node knows some of them.
Known == {j \in 1 .. Bucket : Keys[j] \in chain}

\* getWeIdByPubKeyList keeps the WeIds of the known keys in their order, and not
\* their places: the j-th key asked for moves up to Place(j).
Place(j) == Cardinality({i \in Known : i <= j})
Found == [r \in 1 .. Cardinality(Known) |->
            WeIdOf(Keys[CHOOSE j \in Known : Place(j) = r])]

Remember == before' = IF current # Nil /\ Whole(keychain[current]) THEN current ELSE Nil

\* __initHDWalletFailed, from the values its caller left: deletes the wallet
\* that is current and makes the previous one current, if there is one.
InitHDWalletFailed_WrongOne(kc, lists, cur, prev) ==
  /\ keychain' = DeletedFrom(kc, prev)
  /\ weIdList' = ForgetWeIds(lists, prev)
  /\ current' = IF prev # Nil THEN prev ELSE cur
  /\ previous' = IF prev # Nil THEN cur ELSE prev
  /\ restore' = Nil
InitHDWalletFailed(kc, lists, cur, prev) ==
  /\ keychain' = DeletedFrom(kc, cur)
  /\ weIdList' = ForgetWeIds(lists, cur)
  /\ current' = IF prev # Nil THEN prev ELSE cur
  /\ previous' = IF prev # Nil THEN cur ELSE prev
  /\ restore' = Nil

-----------------------------------------------------------------------------
(***************************************************************************)
(* The import, with index 0 and without delete, and the first request.     *)
(***************************************************************************)
BeginRestore_KeepsMnemonic(mnemonic, pwd) ==
  /\ restore = Nil
  /\ MayCall
  /\ ImportHDWallet(mnemonic, 0, pwd, FALSE, {})
  /\ restore' = [masterKey |-> mnemonic, start |-> StartIndex]
  /\ outcome' = Nil
  /\ Remember
  /\ UNCHANGED lookupVars
BeginRestore(mnemonic, pwd) ==
  /\ restore = Nil
  /\ MayCall
  /\ ImportHDWallet(mnemonic, 0, pwd, FALSE, {})
  /\ restore' = [masterKey |-> MasterKey(mnemonic), start |-> StartIndex]
  /\ outcome' = Nil
  /\ Remember
  /\ UNCHANGED lookupVars

\* The import fails because an add is refused.  It cleans up after itself and
\* leaves the current wallet current; then __initHDWalletFailed runs.
BeginRestoreRefused(mnemonic, pwd, refused) ==
  /\ restore = Nil
  /\ MayCall
  /\ ~BatchAddDone(LifecycleItems, refused)
  /\ TakeNextName
  /\ LET kc == SavedAsNext(mnemonic, StartIndex, pwd, refused)
         new == IF IsHDWalletCreated THEN NextName ELSE Nil
     IN InitHDWalletFailed(DeletedFrom(kc, new), ForgetWeIds(weIdList, new),
                           current, previous)
  /\ outcome' = "refused"
  /\ Remember
  /\ UNCHANGED <<memory, lookupVars>>

(***************************************************************************)
(* The handlers of a lookup's answer.                                      *)
(***************************************************************************)
OnLookupFails ==
  /\ restore # Nil
  /\ InitHDWalletFailed(keychain, weIdList, current, previous)
  /\ outcome' = "failed"
  /\ UNCHANGED <<walletIndex, memory, lookupVars, before>>

\* An answer without a WeId is an error until some lookup has found one.
OnLookupEmpty ==
  /\ restore # Nil
  /\ Found = <<>> /\ ~isNullWithFirstRequest
  /\ InitHDWalletFailed(keychain, weIdList, current, previous)
  /\ outcome' = "failed"
  /\ UNCHANGED <<walletIndex, memory, lookupVars, before>>

\* A full bucket: ask for the next one, with keys of the wallet that is open now.
\* What was found is not kept.
OnLookupFull ==
  /\ restore # Nil
  /\ Len(Found) = Bucket
  /\ isNullWithFirstRequest' = TRUE
  /\ LET masterKey == LoadMasterKey(keychain[keyStore], unlockPwd)
     IN IF masterKey # Nil
        THEN /\ restore' = [masterKey |-> masterKey, start |-> restore.start + Bucket]
             /\ outcome' = Nil
             /\ UNCHANGED <<keychain, current, previous, weIdList>>
        ELSE /\ InitHDWalletFailed(keychain, weIdList, current, previous)
             /\ outcome' = "failed"
  /\ UNCHANGED <<walletIndex, memory, chain, calls, before>>

\* saveWeIdInfoAndCurrentIndex: the i-th WeId found gets the i-th key pair asked
\* for; then the list and the index (one past the given one).
WithPairs(kc, refused) ==
  [kc EXCEPT ![keyStore].pairs =
     [weId \in WeIds |->
        IF \E i \in DOMAIN Found : Found[i] = weId
        THEN LET i == CHOOSE j \in DOMAIN Found : Found[j] = weId
             IN Add(Keys[i], i \notin refused)
        ELSE @[weId]]]

WithFound(lists) == [lists EXCEPT ![current] = @ \o Found]

RestoredIndex == restore.start + Len(Found)

WithIndex(kc) == [kc EXCEPT ![keyStore].index = StoredIndex(RestoredIndex, TRUE)]

\* Then deletePreviousWallet.
OnLookupLast_IndexUnchecked(refused, okIndex) ==
  /\ restore # Nil
  /\ Len(Found) < Bucket
  /\ BatchAddDone(DOMAIN Found, refused)
  /\ isNullWithFirstRequest' = TRUE
  /\ currentIndex' = RestoredIndex + 1
  /\ LET kc == WithPairs(keychain, refused)
     IN keychain' = DeletedFrom(IF IndexStored(okIndex) THEN WithIndex(kc) ELSE kc, previous)
  /\ weIdList' = ForgetWeIds(WithFound(weIdList), previous)
  /\ previous' = Nil
  /\ restore' = Nil
  /\ outcome' = "restored"
  /\ UNCHANGED <<current, walletIndex, keyStore, inited, unlockPwd, chain, calls, before>>
OnLookupLast(refused, okIndex) ==
  /\ restore # Nil
  /\ Len(Found) < Bucket
  /\ Found = <<>> => isNullWithFirstRequest
  /\ isNullWithFirstRequest' = TRUE
  /\ LET kc == WithPairs(keychain, refused)
         lists == WithFound(weIdList)
     IN IF ~BatchAddDone(DOMAIN Found, refused)
        THEN /\ InitHDWalletFailed(kc, weIdList, current, previous)
             /\ outcome' = "failed"
             /\ UNCHANGED currentIndex
        ELSE /\ currentIndex' = RestoredIndex + 1
             /\ IF ~IndexStored(okIndex)
                THEN /\ InitHDWalletFailed(kc, lists, current, previous)
                     /\ outcome' = "failed"
                ELSE /\ keychain' = DeletedFrom(WithIndex(kc), previous)
                     /\ weIdList' = ForgetWeIds(lists, previous)
                     /\ previous' = Nil
                     /\ restore' = Nil
                     /\ outcome' = "restored"
                     /\ UNCHANGED current
  /\ UNCHANGED <<walletIndex, keyStore, inited, unlockPwd, chain, calls, before>>

-----------------------------------------------------------------------------
(***************************************************************************)
(* The process is killed inside a handler of the restore.                  *)
(***************************************************************************)
Killed ==
  /\ LoseMemory
  /\ restore' = Nil
  /\ isNullWithFirstRequest' = FALSE
  /\ outcome' = Nil
  /\ calls' = NoCalls

\* Inside saveWeIdInfoAndCurrentIndex: some key pairs may be missing; with all
\* of them the list may be written, and with the list the index.
CrashInSaveWeIdInfo(missing, listWritten, indexWritten) ==
  /\ restore # Nil
  /\ Found # <<>> /\ Len(Found) < Bucket
  /\ listWritten => missing = {}
  /\ indexWritten => listWritten /\ IndexStored(TRUE)
  /\ keychain' = LET kc == WithPairs(keychain, missing)
                 IN IF indexWritten THEN WithIndex(kc) ELSE kc
  /\ weIdList' = IF listWritten THEN WithFound(weIdList) ELSE weIdList
  /\ Killed
  /\ UNCHANGED <<current, previous, walletIndex, chain, before>>

\* Inside deletePreviousWallet, or after it and before the callback: the domain
\* of the previous wallet is deleted, then its list, then its name.
CrashInDeletePrevious(listDeleted, nameDeleted) ==
  /\ restore # Nil
  /\ Found # <<>> /\ Len(Found) < Bucket
  /\ IndexStored(TRUE)
  /\ previous # Nil
  /\ nameDeleted => listDeleted
  /\ keychain' = DeletedFrom(WithIndex(WithPairs(keychain, {})), previous)
  /\ weIdList' = ForgetWeIds(WithFound(weIdList), IF listDeleted THEN previous ELSE Nil)
  /\ previous' = IF nameDeleted THEN Nil ELSE previous
  /\ Killed
  /\ UNCHANGED <<current, walletIndex, chain, before>>

\* Inside __initHDWalletFailed, from the values its caller left: the domain of
\* the current wallet is deleted, then its list, then setCurrentWallet writes
\* the name of the previous wallet; the current name is still to be switched.
KilledInInitFailed(kc, lists, listDeleted, previousWritten) ==
  /\ previousWritten => listDeleted /\ previous # Nil
  /\ keychain' = DeletedFrom(kc, current)
  /\ weIdList' = ForgetWeIds(lists, IF listDeleted THEN current ELSE Nil)
  /\ previous' = IF previousWritten THEN current ELSE previous
  /\ Killed
  /\ UNCHANGED current

\* It is called because a lookup failed, found nothing or had no keys to ask for.
CrashAfterLookupFails(listDeleted, previousWritten) ==
  /\ restore # Nil
  /\ \/ NetFails
     \/ Found = <<>> /\ ~isNullWithFirstRequest
     \/ Len(Found) = Bucket /\ LoadMasterKey(keychain[keyStore], unlockPwd) = Nil
  /\ KilledInInitFailed(keychain, weIdList, listDeleted, previousWritten)
  /\ UNCHANGED <<walletIndex, chain, before>>

\* It is called because a key pair or the index was not stored.
CrashAfterSaveFails(refused, listDeleted, previousWritten) ==
  /\ restore # Nil
  /\ Len(Found) < Bucket
  /\ Found = <<>> => isNullWithFirstRequest
  /\ KeychainFails \/ ~BatchAddDone(DOMAIN Found, refused) \/ ~IndexStored(TRUE)
  /\ KilledInInitFailed(WithPairs(keychain, refused),
                        IF BatchAddDone(DOMAIN Found, refused)
                          THEN WithFound(weIdList) ELSE weIdList,
                        listDeleted, previousWritten)
  /\ UNCHANGED <<walletIndex, chain, before>>

\* It is called because the import was refused; whatever was saved under the new name
\* is deleted already.
CrashAfterRefused(listDeleted, previousWritten) ==
  /\ restore = Nil
  /\ MayCall
  /\ KeychainFails
  /\ current # Nil
  /\ TakeNextName
  /\ KilledInInitFailed(DeletedFrom(keychain, NextName), ForgetWeIds(weIdList, NextName),
                        listDeleted, previousWritten)
  /\ Remember
  /\ UNCHANGED chain

-----------------------------------------------------------------------------
RestoreInit ==
  /\ WeIdInit
  /\ restore = Nil
  /\ isNullWithFirstRequest = FALSE
  /\ outcome = Nil
  /\ before = Nil

\* Whether the app makes a call, or has one in flight, beside a restore.
MayCallBeside == AppWaits => restore = Nil

OtherCall ==
  /\ MayCallBeside
  /\ WalletCall \/ WeIdStep
  /\ outcome' = Nil
  /\ UNCHANGED <<restore, isNullWithFirstRequest, before>>

\* Another device does not wait for this one's restore.
OtherDevice ==
  /\ restore # Nil
  /\ \E k \in KeyPairs : RegisterElsewhere(k)
  /\ outcome' = Nil
  /\ UNCHANGED <<restore, isNullWithFirstRequest, before>>

ProcessEndsRestoring ==
  /\ ProcessEnds
  /\ MayCallBeside \/ ~Crash
  /\ restore' = Nil
  /\ isNullWithFirstRequest' = FALSE
  /\ outcome' = Nil
  /\ UNCHANGED before

RestoreStep ==
  \/ \E m \in Mnemonics, pwd \in UnlockPwds :
       \/ BeginRestore(m, pwd)
       \/ \E refused \in Refusals(LifecycleItems) : BeginRestoreRefused(m, pwd, refused)
  \/ NetFails /\ OnLookupFails
  \/ OnLookupEmpty
  \/ OnLookupFull
  \/ /\ restore # Nil
     /\ \E refused \in Refusals(DOMAIN Found), okIndex \in Accepted :
          OnLookupLast(refused, okIndex)

RestoreCrash ==
  \/ /\ restore # Nil
     /\ \/ \E missing \in SUBSET DOMAIN Found, list, index \in BOOLEAN :
             CrashInSaveWeIdInfo(missing, list, index)
        \/ \E refused \in Refusals(DOMAIN Found), list, name \in BOOLEAN :
             CrashAfterSaveFails(refused, list, name)
  \/ \E list, name \in BOOLEAN :
       \/ CrashInDeletePrevious(list, name)
       \/ CrashAfterLookupFails(list, name)
       \/ CrashAfterRefused(list, name)

RestoreNext ==
  OtherCall \/ OtherDevice \/ ProcessEndsRestoring \/ RestoreStep \/ RestoreCrash

RestoreSpec == RestoreInit /\ [][RestoreNext]_restoreVars

-----------------------------------------------------------------------------
(***************************************************************************)
(* Properties.                                                             *)
(***************************************************************************)

\* The state of a restore in flight, and the rest of the SDK's state.
RestoreTypeOK ==
  /\ WeIdTypeOK
  /\ restore = Nil \/ restore \in [masterKey : {MasterKey(m) : m \in Mnemonics}, start : Nat]
  /\ isNullWithFirstRequest \in BOOLEAN
  /\ outcome \in {Nil, "restored", "refused", "failed"}
  /\ before \in Names \cup {Nil}

\* A restore that fails after its import leaves the wallet that was current before
\* it current and whole ("delete the new wallet", "restore the old wallet" in
\* __initHDWalletFailed), whichever lookup, add or update failed.
FailedRestoreKeepsWallet ==
  outcome = "failed" /\ before # Nil => current = before /\ Whole(keychain[before])

\* The same of a restore whose import is refused by the keychain.
RefusedRestoreKeepsWallet ==
  outcome = "refused" /\ before # Nil => current = before /\ Whole(keychain[before])

\* The wallet being restored is complete: it opens, every WeId the last lookup
\* found is listed and has a key pair, and the index is past them.
SavedWhole(s, list) ==
  /\ Whole(s)
  /\ list = Found
  /\ \A weId \in ToSet(list) : s.pairs[weId] # Nil
  /\ s.index = RestoredIndex + 1

\* Once the import has succeeded, a step touches the items of the wallet that is
\* to be replaced only when the new wallet is complete in the keychain and in
\* its list, whatever add, update or lookup fails and wherever the process is
\* killed, inside deletePreviousWallet and __initHDWalletFailed too.
OldWalletKeptUntilSaved ==
  [][restore # Nil /\ before # Nil /\ keychain'[before] # keychain[before]
       => SavedWhole(keychain'[current], weIdList'[current])]_restoreVars

\* A restore that answers YES has stored a key pair for every WeId it listed.
RestoredHaveKeys ==
  outcome = "restored" =>
    \A weId \in ToSet(weIdList[current]) : keychain[current].pairs[weId] # Nil

\* A restore that answers YES has listed every WeId of the mnemonics.
RestoredAll ==
  outcome = "restored" =>
    \A k \in chain : MasterKey(k[1]) = LoadMasterKey(keychain[current], unlockPwd)
                       => WeIdOf(k) \in ToSet(weIdList[current])

\* The key pair stored for a WeId is the one the WeId was registered with.
PairsMatch ==
  \A w \in Names : \A weId \in WeIds :
    keychain[w].pairs[weId] # Nil => weId = WeIdOf(keychain[w].pairs[weId])

-----------------------------------------------------------------------------
(***************************************************************************)
(* The inductive invariant behind the properties that hold.                *)
(***************************************************************************)

\* The names in NSUserDefaults were handed out, and an open wallet has one.
NamesInUse ==
  /\ NamesTaken
  /\ previous # Nil => previous <= walletIndex
  /\ inited => keyStore # Nil

\* While a lookup is in flight the imported wallet is current, open and whole,
\* nothing is listed in it, no other request is in flight, and the wallet it is
\* to replace is the previous one.
Restoring ==
  restore # Nil =>
    /\ current # Nil
    /\ keyStore = current
    /\ previous # current
    /\ Whole(keychain[current])
    /\ calls = NoCalls
    /\ weIdList[current] = <<>>
    /\ restore.start >= StartIndex
    /\ before # Nil => previous = before /\ Whole(keychain[before])

RestoreInv ==
  /\ RestoreTypeOK
  /\ NamesInUse
  /\ UnusedUnlisted
  /\ SessionStarted
  /\ Restoring
  /\ FailedRestoreKeepsWallet
  /\ RestoredHaveKeys
=============================================================================
