----------------------------- MODULE WITransPwd -----------------------------
(***************************************************************************)
(* The transaction password of a stored key pair: saveWIKeyPair,           *)
(* getWIKeyPair and updateTransPwd of WIHDWallet.m.  For each weId#keyId   *)
(* the keychain holds the hash of the password, if there is one, and the   *)
(* key pair, in plain text or encrypted.  The two items are written one    *)
(* after the other, and an add deletes the old item before it adds the new *)
(* one.                                                                    *)
(***************************************************************************)
EXTENDS WICryptoUtils, WIKeychainPersistence

CONSTANTS
  KeyIds,      \* weId#keyId; k also stands for the key pair created for it
  TransPwds,   \* what an app gives as a password: Nil and EmptyPwd included
  EmptyPwd,    \* the string without characters
  Callbacks,   \* whether an update is called with a callback
  Crashes      \* whether the process may be killed inside a save

ASSUME TransPwdAssumption ==
  /\ Nil \notin KeyIds
  /\ EmptyPwd # Nil
  /\ Callbacks \subseteq BOOLEAN
  /\ Crashes \in BOOLEAN

VARIABLES
  hash,    \* wi_public_key_hash_<weid#keyid>
  pair,    \* wi_public_key_pair_<weid#keyid>
  acked,   \* the password of the last save if it saved the key pair (Nil: without
           \* one), "unsaved" after any other save, "new" before the first
  chosen   \* the password of the last save that saved the key pair, and the new
           \* passwords of updates killed since then whose current password opened
           \* it, or was not asked for want of a callback

transVars == <<hash, pair, acked, chosen>>

-----------------------------------------------------------------------------
NoKeyPair == "(null)|(null)"   \* a nil key pair, formatted

Plain(keyPair) == [content |-> keyPair, key |-> Nil]

\* "private|public" has two parts; the text of a ciphertext has one.
Split(stored) == IF stored.key = Nil THEN stored.content ELSE Nil

IsEmpty(pwd) == pwd = Nil \/ pwd = EmptyPwd
PwdHash(pwd) == Keccak256(HashTwice(pwd))

\* nil is no hash and no ciphertext; acked marks a save by strings that are no
\* passwords either.
ASSUME TransNilAssumption ==
  /\ {"new", "unsaved"} \cap (TransPwds \cup {Nil}) = {}
  /\ NoKeyPair \notin KeyIds
  /\ \A p \in TransPwds :
       /\ PwdHash(p) # Nil
       /\ AesKey(PwdHash(p)) # Nil /\ AesKey(HashTwice(p)) # Nil
       /\ \A k \in KeyIds : AesEncrypt(k, PwdHash(p)) # Nil

(***************************************************************************)
(* getWIKeyPair: a password must be given exactly when a hash is stored,   *)
(* and must have that hash.  Here "" is a password.                        *)
(***************************************************************************)
GetWIKeyPair(h, stored, pwd) ==
  IF /\ (h # Nil) = (pwd # Nil)
     /\ stored # Nil
     /\ pwd # Nil => PwdHash(pwd) = h
  THEN IF pwd = Nil THEN Split(stored) ELSE AesDecrypt(stored, HashTwice(pwd))
  ELSE Nil

(***************************************************************************)
(* saveWIKeyPair.  The key pair is encrypted with the hash of the key made *)
(* from the password, and getWIKeyPair decrypts with that key itself.      *)
(* Without a password, "" included, the stored hash is left as it is.      *)
(***************************************************************************)
Sealed(keyPair, pwd) ==
  IF IsEmpty(pwd) THEN Plain(keyPair) ELSE AesEncrypt(keyPair, PwdHash(pwd))

Chosen(pwd) == IF IsEmpty(pwd) THEN Nil ELSE pwd

\* Whether a save answers YES, and has saved the key pair of k.
Saves(k, keyPair, pwd, okHash, okPair) ==
  okPair /\ (IsEmpty(pwd) \/ okHash) /\ keyPair = k

Acknowledge(k, pwd, saved) ==
  /\ acked' = [acked EXCEPT ![k] = IF saved THEN Chosen(pwd) ELSE "unsaved"]
  /\ chosen' = [chosen EXCEPT ![k] = IF saved THEN {Chosen(pwd)} ELSE @]

SaveWIKeyPair_HashKept(k, keyPair, pwd, okHash, okPair) ==
  /\ hash' = [hash EXCEPT ![k] = IF IsEmpty(pwd) \/ @ # Nil THEN @
                                 ELSE Add(PwdHash(pwd), okHash)]
  /\ pair' = [pair EXCEPT ![k] = IF IsEmpty(pwd) \/ okHash
                                 THEN Add(Sealed(keyPair, pwd), okPair) ELSE @]
  /\ Acknowledge(k, pwd, Saves(k, keyPair, pwd, okHash, okPair))
SaveWIKeyPair_RefusedAddKeepsPair(k, keyPair, pwd, okHash, okPair) ==
  /\ hash' = [hash EXCEPT ![k] = IF IsEmpty(pwd) THEN @ ELSE Add(PwdHash(pwd), okHash)]
  /\ pair' = [pair EXCEPT ![k] = IF okPair /\ (IsEmpty(pwd) \/ okHash)
                                 THEN Sealed(keyPair, pwd) ELSE @]
  /\ Acknowledge(k, pwd, Saves(k, keyPair, pwd, okHash, okPair))
SaveWIKeyPair(k, keyPair, pwd, okHash, okPair) ==
  /\ hash' = [hash EXCEPT ![k] = IF IsEmpty(pwd) THEN @ ELSE Add(PwdHash(pwd), okHash)]
  /\ pair' = [pair EXCEPT ![k] = IF IsEmpty(pwd) \/ okHash
                                 THEN Add(Sealed(keyPair, pwd), okPair) ELSE @]
  /\ Acknowledge(k, pwd, Saves(k, keyPair, pwd, okHash, okPair))

\* The last write of saveWIKeyPairAfterCreateWeId, once for each key pair.
SaveAfterCreateWeId(k, pwd, okHash, okPair) ==
  /\ acked[k] = "new"
  /\ SaveWIKeyPair(k, k, pwd, okHash, okPair)

(***************************************************************************)
(* updateTransPwd.  When the current password is wrong it returns only if  *)
(* it was given a callback; otherwise it goes on to save a nil key pair.   *)
(* An app knows a weId only after it was created.                          *)
(***************************************************************************)
UpdateTransPwd(k, currentPwd, newPwd, callback, okHash, okPair) ==
  /\ acked[k] # "new"
  /\ LET keyPair == GetWIKeyPair(hash[k], pair[k], currentPwd)
     IN IF keyPair = Nil /\ callback
        THEN UNCHANGED transVars
        ELSE SaveWIKeyPair(k, IF keyPair = Nil THEN NoKeyPair ELSE keyPair,
                           newPwd, okHash, okPair)

\* Killed inside saveWIKeyPair: after the hash is deleted, after it is added,
\* or after the key pair is deleted.  An update without a callback gets there
\* with a wrong current password too.
CrashInSaveWIKeyPair(k, currentPwd, newPwd, callback) ==
  LET keyPair == GetWIKeyPair(hash[k], pair[k], currentPwd)
  IN /\ Crashes
     /\ acked[k] = "new" \/ keyPair # Nil \/ ~callback
     /\ \/ /\ ~IsEmpty(newPwd)
           /\ \E ok \in BOOLEAN : hash' = [hash EXCEPT ![k] = Add(PwdHash(newPwd), ok)]
           /\ UNCHANGED pair
        \/ /\ hash' = [hash EXCEPT ![k] = IF IsEmpty(newPwd) THEN @ ELSE PwdHash(newPwd)]
           /\ pair' = [pair EXCEPT ![k] = Nil]
     /\ acked' = [acked EXCEPT ![k] = "unsaved"]
     /\ chosen' = [chosen EXCEPT ![k] =
                     IF keyPair = k \/ ~callback THEN @ \cup {Chosen(newPwd)} ELSE @]

-----------------------------------------------------------------------------
TransInit ==
  /\ hash = [k \in KeyIds |-> Nil]
  /\ pair = [k \in KeyIds |-> Nil]
  /\ acked = [k \in KeyIds |-> "new"]
  /\ chosen = [k \in KeyIds |-> {}]

TransNext ==
  \E k \in KeyIds, okHash, okPair \in Accepted :
    \/ \E pwd \in TransPwds : SaveAfterCreateWeId(k, pwd, okHash, okPair)
    \/ \E cur, new \in TransPwds, callback \in Callbacks :
         \/ UpdateTransPwd(k, cur, new, callback, okHash, okPair)
         \/ CrashInSaveWIKeyPair(k, cur, new, callback)

TransSpec == TransInit /\ [][TransNext]_transVars

-----------------------------------------------------------------------------
(***************************************************************************)
(* Properties.                                                             *)
(***************************************************************************)

\* A key pair is handed out with the password of the last save that answered YES,
\* and with no other: not with one that was replaced or taken away since, and not
\* with the new password of an update that was refused or had a wrong current
\* password.  An update that was killed since may have put its new password in
\* place, if its current password opened the key pair, or if it had no callback,
\* without which updateTransPwd goes on when the current password is wrong.
OnlyChosenPwdOpens ==
  \A k \in KeyIds : \A p \in TransPwds :
    GetWIKeyPair(hash[k], pair[k], p) = k => p \in chosen[k]

\* After a save or an update that set a password and answered YES, that password
\* opens the key pair, whatever went wrong before ("set", "change" in the comment
\* of updateTransPwd).
SavedPwdOpens ==
  \A k \in KeyIds :
    acked[k] \notin {"new", "unsaved", Nil} => GetWIKeyPair(hash[k], pair[k], acked[k]) = k

\* After an update that took the password away and answered YES, the key pair is
\* handed out without one ("delete" in the comment of updateTransPwd).
DeletedPwdOpens ==
  \A k \in KeyIds : acked[k] = Nil => GetWIKeyPair(hash[k], pair[k], Nil) = k

-----------------------------------------------------------------------------
(***************************************************************************)
(* The inductive invariant behind SavedPwdOpens and, with ChosenItems,     *)
(* behind OnlyChosenPwdOpens.                                              *)
(***************************************************************************)

TransPwdHashes == {PwdHash(p) : p \in TransPwds}
SealedPairs == {Sealed(x, p) : x \in KeyIds \cup {NoKeyPair}, p \in TransPwds}

\* Every item is of the kind that saveWIKeyPair writes.
TransTypeOK ==
  /\ hash \in [KeyIds -> TransPwdHashes \cup {Nil}]
  /\ pair \in [KeyIds -> SealedPairs \cup {Nil}]
  /\ acked \in [KeyIds -> TransPwds \cup {Nil, "new", "unsaved"}]
  /\ chosen \in [KeyIds -> SUBSET (TransPwds \cup {Nil})]

\* Under a weId#keyId there is its own key pair or the nil one.
OwnPair == \A k \in KeyIds : pair[k] # Nil => pair[k].content \in {k, NoKeyPair}

\* Nothing is stored before the first save, and after one that set a password
\* both items are made from that password.
SavedItems ==
  \A k \in KeyIds :
    /\ acked[k] = "new" => pair[k] = Nil
    /\ acked[k] \notin {"new", "unsaved", Nil} =>
         hash[k] = PwdHash(acked[k]) /\ pair[k] = AesEncrypt(k, PwdHash(acked[k]))

TransInv == TransTypeOK /\ OwnPair /\ SavedItems

\* The key pair is in plain text only if no password was chosen, and next to a
\* ciphertext of it there is no hash but that of a chosen password.
ChosenItems ==
  \A k \in KeyIds :
    pair[k] # Nil /\ pair[k].content = k =>
      IF pair[k].key = Nil THEN Nil \in chosen[k]
      ELSE hash[k] = Nil \/ \E p \in chosen[k] : p # Nil /\ hash[k] = PwdHash(p)
=============================================================================
