--------------------------- MODULE WICryptoUtils ---------------------------
(***************************************************************************)
(* Symbolic model of the cryptographic helpers of WICryptoUtils.m that the *)
(* wallet uses.  A hash is a tagged value, so two hashes are equal exactly *)
(* when their arguments are; a ciphertext records its content and the AES  *)
(* key it was made with.                                                   *)
(***************************************************************************)
EXTENDS WINil

CONSTANT
  AesKeyIsZero   \* outcome of getCString: on a key longer than its buffer

ASSUME AesKeyIsZeroAssumption == AesKeyIsZero \in BOOLEAN

Keccak256(content) == <<"keccak256", content>>

HashTwice(content) == Keccak256(Keccak256(content))

(***************************************************************************)
(* The key is a 64-character hexadecimal hash and the buffer holds 33      *)
(* bytes.  getCString:maxLength:encoding: then answers NO and leaves the   *)
(* buffer unspecified: still zeroed, or filled with a prefix of the key.   *)
(* The result of the call is not looked at.                                *)
(***************************************************************************)
AesKey(key) == IF AesKeyIsZero THEN <<"zero">> ELSE key

AesEncrypt(content, key) == [content |-> content, key |-> AesKey(key)]

AesDecrypt(cipher, key) ==
  IF cipher.key = AesKey(key) THEN cipher.content ELSE Nil

(***************************************************************************)
(* eciesSecp256k1Encrypt and Decrypt with the key pair of a random index   *)
(* of a master key.  The index is stored next to the ciphertext, so that   *)
(* the master key alone decides which key pair it is.                      *)
(***************************************************************************)
EciesEncrypt(content, masterKey) == [content |-> content, masterKey |-> masterKey]

EciesDecrypt(cipher, masterKey) ==
  IF cipher.masterKey = masterKey THEN cipher.content ELSE Nil

(***************************************************************************)
(* wedprCryptoSecp256k1Sign hashes the message it is given before signing; *)
(* wedprSecp256k1VerifySign takes its message as the hash that was signed. *)
(***************************************************************************)
SignHash(keyPair, hash) == [signer |-> keyPair, hash |-> hash]

Secp256k1Sign(keyPair, message) == SignHash(keyPair, Keccak256(message))

Secp256k1VerifySign(publicKey, message, sign) == sign = SignHash(publicKey, message)
=============================================================================
