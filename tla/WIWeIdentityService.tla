------------------------ MODULE WIWeIdentityService ------------------------
(***************************************************************************)
(* createWeIdWithTransPwd: a key pair is derived at the current index, its *)
(* public key is sent to the WeIdentity node, and the handler of the       *)
(* answer advances the index and stores the WeId and its key pair.         *)
(* Between the request and the answer the app may call the SDK again.      *)
(***************************************************************************)
EXTENDS WIHDWallet, SequencesExt

CONSTANTS
  Calls,      \* slots for createWeId calls in flight
  AppWaits    \* whether the app makes a call only when none is in flight

ASSUME CallsAssumption == AppWaits \in BOOLEAN

VARIABLES
  chain,      \* the key pairs registered as WeIds on the chain
  calls       \* calls[c]: the request in flight in slot c, or Nil

weIdVars == <<walletVars, chain, calls>>

Answers == {"pending", "created", "exists"}

NoCalls == [c \in Calls |-> Nil]
MayCall == AppWaits => calls = NoCalls

-----------------------------------------------------------------------------
(***************************************************************************)
(* createKeyPairSuccess and __createWeId up to the request.  The index is  *)
(* read, not advanced.                                                     *)
(***************************************************************************)
CreateWeId(c) ==
  /\ MayCall
  /\ calls[c] = Nil
  /\ inited
  /\ currentIndex <= MaxIndex
  /\ LET masterKey == LoadMasterKey(keychain[keyStore], unlockPwd)
     IN /\ masterKey # Nil
        /\ calls' = [calls EXCEPT ![c] =
                       [keyPair |-> KeyPair(masterKey, currentIndex),
                        index   |-> currentIndex,
                        answer  |-> "pending"]]
  /\ UNCHANGED <<walletVars, chain>>

\* The node registers a new public key, and answers 100105 for a known one.
RegisterWeId(c) ==
  /\ calls[c] # Nil
  /\ calls[c].answer = "pending"
  /\ calls' = [calls EXCEPT ![c].answer =
                 IF calls[c].keyPair \in chain THEN "exists" ELSE "created"]
  /\ chain' = chain \cup {calls[c].keyPair}
  /\ UNCHANGED walletVars

\* Another device that uses the same mnemonics registers its next key pair.
RegisterElsewhere(k) ==
  /\ k \notin chain
  /\ k[2] > StartIndex => <<k[1], k[2] - 1>> \in chain
  /\ chain' = chain \cup {k}
  /\ UNCHANGED <<walletVars, calls>>

\* The request fails, is answered by another error code, or is answered by a
\* document without the public key: nothing is stored, whatever the node did.
CreateWeIdFails(c) ==
  /\ calls[c] # Nil
  /\ calls' = [calls EXCEPT ![c] = Nil]
  /\ UNCHANGED <<walletVars, chain>>

-----------------------------------------------------------------------------
(***************************************************************************)
(* Handlers of the answer.  They work on the wallet that is open and       *)
(* current when the answer arrives.                                        *)
(***************************************************************************)

\* addAndUpdateCurrentIndex: memory first, then the keychain.
StoredIndex(index, ok) == Update(keychain[keyStore].index, index + 1, ok)
IndexStored(ok) == UpdateDone(keychain[keyStore].index, ok)

\* saveWIKeyPairAfterCreateWeId: index, list, key pair, in this order; it
\* stops when the index cannot be stored.
OnCreated_ListFirst(c, okIndex, okPair) ==
  /\ calls[c] # Nil
  /\ calls[c].answer = "created"
  /\ LET call == calls[c]
         weId == WeIdOf(call.keyPair)
     IN /\ currentIndex' = call.index + 1
        /\ keychain' = [keychain EXCEPT ![keyStore].index = StoredIndex(call.index, okIndex),
                                        ![keyStore].pairs[weId] = Add(call.keyPair, okPair)]
        /\ weIdList' = [weIdList EXCEPT ![current] = Append(@, weId)]
  /\ calls' = [calls EXCEPT ![c] = Nil]
  /\ UNCHANGED <<current, previous, walletIndex, keyStore, inited, unlockPwd, chain>>
OnCreated(c, okIndex, okPair) ==
  /\ calls[c] # Nil
  /\ calls[c].answer = "created"
  /\ LET call == calls[c]
         weId == WeIdOf(call.keyPair)
     IN /\ currentIndex' = call.index + 1
        /\ IF IndexStored(okIndex)
           THEN /\ keychain' =
                     [keychain EXCEPT
                        ![keyStore].index = StoredIndex(call.index, okIndex),
                        ![keyStore].pairs[weId] = Add(call.keyPair, okPair)]
                /\ weIdList' = [weIdList EXCEPT ![current] = Append(@, weId)]
           ELSE UNCHANGED <<keychain, weIdList>>
  /\ calls' = [calls EXCEPT ![c] = Nil]
  /\ UNCHANGED <<current, previous, walletIndex, keyStore, inited, unlockPwd, chain>>

\* Code 100105: the index is used up, so it is advanced past it.
OnExists_Ignored(c, okIndex) ==
  /\ calls[c] # Nil
  /\ calls[c].answer = "exists"
  /\ calls' = [calls EXCEPT ![c] = Nil]
  /\ UNCHANGED <<walletVars, chain>>
OnExists_StoreOnly(c, okIndex) ==
  /\ calls[c] # Nil
  /\ calls[c].answer = "exists"
  /\ keychain' = [keychain EXCEPT ![keyStore].index = StoredIndex(calls[c].index, okIndex)]
  /\ calls' = [calls EXCEPT ![c] = Nil]
  /\ UNCHANGED <<defaults, memory, chain>>
OnExists(c, okIndex) ==
  /\ calls[c] # Nil
  /\ calls[c].answer = "exists"
  /\ currentIndex' = calls[c].index + 1
  /\ keychain' = [keychain EXCEPT ![keyStore].index = StoredIndex(calls[c].index, okIndex)]
  /\ calls' = [calls EXCEPT ![c] = Nil]
  /\ UNCHANGED <<defaults, keyStore, inited, unlockPwd, chain>>

\* The process is killed while the answer is handled: the index is stored, the
\* list may be, the key pair is not.
CrashInOnCreated(c, listWritten) ==
  /\ calls[c] # Nil
  /\ calls[c].answer = "created"
  /\ IndexStored(TRUE)
  /\ keychain' = [keychain EXCEPT ![keyStore].index = StoredIndex(calls[c].index, TRUE)]
  /\ weIdList' = IF listWritten
                 THEN [weIdList EXCEPT ![current] = Append(@, WeIdOf(calls[c].keyPair))]
                 ELSE weIdList
  /\ LoseMemory
  /\ calls' = NoCalls
  /\ UNCHANGED <<current, previous, walletIndex, chain>>

-----------------------------------------------------------------------------
WeIdInit == WalletInit /\ chain = {} /\ calls = NoCalls

\* Calls on the wallet.
WalletCall ==
  /\ MayCall
  /\ InitHDWallet \/ InitHDWalletWithMnemonics \/ DeleteCurrentWallet
  /\ UNCHANGED <<chain, calls>>

\* The end of the process with what is in flight: between two handlers, inside a
\* call on the wallet, or inside the handler of an answer.
ProcessEnds ==
  \/ /\ Restart \/ Reinstall \/ (MayCall /\ Crash)
     /\ calls' = NoCalls
     /\ UNCHANGED chain
  \/ \E c \in Calls, listWritten \in BOOLEAN : CrashInOnCreated(c, listWritten)

WeIdStep ==
  \/ \E c \in Calls :
       \/ CreateWeId(c)
       \/ RegisterWeId(c)
       \/ CreateWeIdFails(c)
       \/ \E okIndex, okPair \in Accepted : OnCreated(c, okIndex, okPair)
       \/ \E okIndex \in Accepted : OnExists(c, okIndex)
  \/ \E k \in KeyPairs : RegisterElsewhere(k)

WeIdNext == WalletCall \/ ProcessEnds \/ WeIdStep

WeIdSpec == WeIdInit /\ [][WeIdNext]_weIdVars

(***************************************************************************)
(* A user who wants a WeId keeps asking for one.  Of a call that is made   *)
(* again and again not every request and not every answer is lost (strong  *)
(* fairness); the main queue runs the handler of an answer that arrives.   *)
(***************************************************************************)
WeIdFairness ==
  \A c \in Calls :
    /\ WF_weIdVars(CreateWeId(c))
    /\ SF_weIdVars(RegisterWeId(c))
    /\ SF_weIdVars(\E okIndex, okPair \in Accepted : OnCreated(c, okIndex, okPair))
    /\ SF_weIdVars(\E okIndex \in Accepted : OnExists(c, okIndex))

WeIdFairSpec == WeIdSpec /\ WeIdFairness

-----------------------------------------------------------------------------
(***************************************************************************)
(* Properties.                                                             *)
(***************************************************************************)

\* The wallet's state, the registered key pairs and the requests in flight
\* are of the kinds the handlers expect.
WeIdTypeOK ==
  /\ WalletTypeOK
  /\ chain \subseteq KeyPairs
  /\ calls \in [Calls -> [keyPair : KeyPairs, index : Indexes, answer : Answers]
                          \cup {Nil}]

\* No listed WeId of a wallet has an index the wallet will hand out again:
\* saveWIKeyPairAfterCreateWeId stores the advanced index before it lists the
\* WeId, and stops if it cannot, so not even a killed process leaves a WeId
\* listed at an index that is still to come.
ListedBelowIndex ==
  \A w \in Names : \A weId \in ToSet(weIdList[w]) :
    keychain[w].index # Nil => weId[2][2] < keychain[w].index

\* The domain and the list of a wallet hold WeIds of its own master key only,
\* each with the key pair it was registered with: an earlier wallet's items
\* under a reused name are removed first (__createNewKeyStoreWith), and an
\* answer is stored in the wallet its key pair came from.
OwnWeIdsOnly ==
  \A w \in Names :
    ~Gone(keychain[w]) =>
      \E m \in Mnemonics :
        /\ keychain[w].master # Nil => keychain[w].master.content = MasterKey(m)
        /\ \A weId \in ToSet(weIdList[w]) : weId[2][1] = m
        /\ \A weId \in WeIds :
             keychain[w].pairs[weId] # Nil =>
               weId = WeIdOf(keychain[w].pairs[weId]) /\ weId[2][1] = m

\* An index that is already used on the chain (by a lost answer, a killed
\* process or another device) is passed in the end: asking again meets code
\* 100105, whose handler advances the index.
UsedIndexIsPassed ==
  \A k \in KeyPairs :
    (inited /\ keyStore # Nil /\ currentIndex = k[2] /\ k \in chain
       /\ LoadMasterKey(keychain[keyStore], unlockPwd) = MasterKey(k[1]))
    ~> (currentIndex # k[2]
          \/ LoadMasterKey(keychain[keyStore], unlockPwd) # MasterKey(k[1]))

-----------------------------------------------------------------------------
(***************************************************************************)
(* The inductive invariant behind the safety properties when the app waits *)
(* for each answer.                                                        *)
(***************************************************************************)

\* A name that is still to be handed out has no WeIds listed.
UnusedUnlisted == \A w \in Names : w > walletIndex => weIdList[w] = <<>>

\* An open wallet goes on at or above the first index (__loadWalletInfo).
SessionStarted == inited => currentIndex >= StartIndex

\* There is at most one request in flight.  It was made in this session, at
\* the index in memory, with the key pair of the wallet that is open.
OneInFlight ==
  \A c \in Calls :
    calls[c] # Nil =>
      /\ \A d \in Calls : calls[d] # Nil => d = c
      /\ inited
      /\ calls[c].index = currentIndex
      /\ calls[c].keyPair[2] = currentIndex
      /\ LoadMasterKey(keychain[keyStore], unlockPwd) = MasterKey(calls[c].keyPair[1])

WeIdInv ==
  /\ WalletInv
  /\ WeIdTypeOK
  /\ UnusedUnlisted
  /\ SessionStarted
  /\ OneInFlight
  /\ ListedBelowIndex
  /\ OwnWeIdsOnly
=============================================================================
