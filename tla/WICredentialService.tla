------------------------ MODULE WICredentialService ------------------------
(***************************************************************************)
(* WICredentialService.mm: credentials are created with the key pair that  *)
(* a transaction password hands out (WITransPwd), arrive as JSON from      *)
(* other issuers, are exchanged as JSON, saved and loaded.  The store is   *)
(* an open database; what can happen to it is WICredentialPersistence.     *)
(***************************************************************************)
EXTENDS WITransPwd, WICredential

CONSTANTS
  Uuids,          \* ids of credentials
  Claims,
  OtherIssuers,   \* key pairs of issuers elsewhere
  Contexts        \* contexts a text from elsewhere may carry

ASSUME ServiceAssumption ==
  /\ OtherIssuers \cap KeyIds = {}
  /\ Nil \notin Uuids \cup Claims \cup OtherIssuers \cup Contexts

VARIABLES
  held,     \* the credentials the app holds in memory
  rows,     \* rows[u]: the row of the table with the id u; Nil: none
  issued    \* issued[u]: the credential as its issuer signed it, here or elsewhere;
            \* Nil: no such credential yet

credentialVars == <<held, rows, issued>>

-----------------------------------------------------------------------------
FreshUuids == {u \in Uuids : issued[u] = Nil}

\* createCredentialWithCptId up to __calculateProof.
Unsigned(u, k, claim) ==
  [id |-> u, issuer |-> k, claim |-> claim, context |-> Nil, f |-> "1", proof |-> Nil]

\* __calculateProof: signs the hash of dictionaryValue.
CalculateProof(k, c) == Secp256k1Sign(k, HashFrom(DictionaryValue(c)))

SettingSign(c, sign) == [c EXCEPT !.proof = sign]

Created(u, k, claim) ==
  LET c == Unsigned(u, k, claim) IN SettingSign(c, CalculateProof(k, c))

CreateCredential(u, k, claim, pwd) ==
  /\ GetWIKeyPair(hash[k], pair[k], pwd) = k
  /\ held' = held \cup {Created(u, k, claim)}
  /\ issued' = [issued EXCEPT ![u] = Created(u, k, claim)]
  /\ UNCHANGED <<transVars, rows>>

\* The formatted nil key pair that updateTransPwd may have saved is no key to
\* sign with: the NULL that comes back is read, and the process ends.
CreateWithNoKeyPair(k, pwd) ==
  /\ GetWIKeyPair(hash[k], pair[k], pwd) = NoKeyPair
  /\ held' = {}
  /\ UNCHANGED <<transVars, rows, issued>>

(***************************************************************************)
(* A text from elsewhere, signed the way the comment of __calculateProof   *)
(* says: the hash of the JSON without the proof.  It may come without id,  *)
(* "$f" or context.                                                        *)
(***************************************************************************)
ContentElsewhere(u, o, claim, withId, f) ==
  Dictionary({<<"id", IF withId THEN u ELSE Nil>>, <<"issuer", o>>,
              <<"claim", claim>>, <<"$f", f>>})

ProofElsewhere(u, o, claim, withId, f) ==
  SignHash(o, HashFrom(ContentElsewhere(u, o, claim, withId, f)))

JsonElsewhere(u, o, claim, withId, f, context) ==
  JsonFromDic(ContentElsewhere(u, o, claim, withId, f)
                \cup {<<"proof", ProofElsewhere(u, o, claim, withId, f)>>}
                \cup Dictionary({<<"context", context>>}))

\* What the issuer signed, before fromJson reads it.
Original(u, o, claim, withId, f, context) ==
  [id |-> u, issuer |-> o, claim |-> claim, context |-> context, f |-> f,
   proof |-> ProofElsewhere(u, o, claim, withId, f)]

Received(u, o, claim, withId, f, context) ==
  FromJson(JsonElsewhere(u, o, claim, withId, f, context), u)

ReceiveJson(u, o, claim, withId, f, context) ==
  /\ held' = held \cup {Received(u, o, claim, withId, f, context)}
  /\ issued' = [issued EXCEPT ![u] = Original(u, o, claim, withId, f, context)]
  /\ UNCHANGED <<transVars, rows>>

\* nil is no credential.
ASSUME IssuedAssumption ==
  \A u \in Uuids, claim \in Claims :
    /\ \A k \in KeyIds : Created(u, k, claim) # Nil
    /\ \A o \in OtherIssuers, withId \in BOOLEAN, f \in {Nil, "1"},
          context \in Contexts \cup {Nil} : Original(u, o, claim, withId, f, context) # Nil

\* toJson, and fromJson of that text here or in another app.
ExchangeJson(c) ==
  /\ c \in held
  /\ \E u \in FreshUuids \cup {Nil} : held' = held \cup {FromJson(ToJson(c), u)}
  /\ UNCHANGED <<transVars, rows, issued>>

\* saveCredential: an insert; a row with the same id is not replaced.
SaveCredential(c) ==
  /\ c \in held
  /\ rows[c.id] = Nil
  /\ rows' = [rows EXCEPT ![c.id] = Row(c)]
  /\ UNCHANGED <<transVars, held, issued>>

GetCredentialById(u) ==
  /\ rows[u] # Nil
  /\ held' = held \cup {rows[u]}
  /\ UNCHANGED <<transVars, rows, issued>>

RestartApp ==
  /\ held' = {}
  /\ UNCHANGED <<transVars, rows, issued>>

\* verify:issuerWeIdPublicKey: with the issuer's key.
Verify(c) == Secp256k1VerifySign(c.issuer, GetHash(c), c.proof)

-----------------------------------------------------------------------------
CredentialInit ==
  /\ TransInit
  /\ held = {}
  /\ rows = [u \in Uuids |-> Nil]
  /\ issued = [u \in Uuids |-> Nil]

TransPwdStep == TransNext /\ UNCHANGED credentialVars

CredentialNext ==
  \/ TransPwdStep
  \/ \E u \in FreshUuids, claim \in Claims :
       \/ \E k \in KeyIds, pwd \in TransPwds : CreateCredential(u, k, claim, pwd)
       \/ \E o \in OtherIssuers, withId \in BOOLEAN, f \in {Nil, "1"},
             context \in Contexts \cup {Nil} : ReceiveJson(u, o, claim, withId, f, context)
  \/ \E k \in KeyIds, pwd \in TransPwds : CreateWithNoKeyPair(k, pwd)
  \/ \E c \in held : ExchangeJson(c) \/ SaveCredential(c)
  \/ \E u \in Uuids : GetCredentialById(u)
  \/ RestartApp

CredentialSpec == CredentialInit /\ [][CredentialNext]_<<transVars, credentialVars>>

-----------------------------------------------------------------------------
(***************************************************************************)
(* Properties.                                                             *)
(***************************************************************************)
Copies == held \cup ({rows[u] : u \in Uuids} \ {Nil})

\* Every copy of a credential, from its creation or first import on and after any
\* number of exports, imports, saves and loads, has the id, issuer, claim and
\* signature that its issuer gave it.  "$f" and the context it may lose, at the
\* first import already.
IssuedStaysIntact ==
  \A c \in Copies :
    /\ issued[c.id] # Nil
    /\ c.issuer = issued[c.id].issuer
    /\ c.claim = issued[c.id].claim
    /\ c.proof = issued[c.id].proof

\* A credential that createCredential answered with has a signature that verify
\* accepts with its issuer's key ("Required: the signature of Credential").
CreatedVerifies ==
  \A u \in Uuids :
    issued[u] # Nil /\ issued[u].issuer \in KeyIds => Verify(issued[u])

-----------------------------------------------------------------------------
(***************************************************************************)
(* The inductive invariant behind the first property.                      *)
(***************************************************************************)

\* The service's tables have an entry for each id, and a credential is issued
\* under its own.
TablesOK ==
  /\ issued = [u \in Uuids |-> issued[u]]
  /\ rows = [u \in Uuids |-> rows[u]]
  /\ \A u \in Uuids : issued[u] # Nil => issued[u].id = u

IsCopyOf(c, o) ==
  /\ c = [id |-> c.id, issuer |-> c.issuer, claim |-> c.claim,
          context |-> c.context, f |-> c.f, proof |-> c.proof]
  /\ c.id = o.id /\ c.issuer = o.issuer /\ c.claim = o.claim /\ c.proof = o.proof

CopiesOK ==
  /\ \A c \in held : c.id \in Uuids /\ issued[c.id] # Nil /\ IsCopyOf(c, issued[c.id])
  /\ \A u \in Uuids : rows[u] # Nil => issued[u] # Nil /\ IsCopyOf(rows[u], issued[u])

CredentialInv == TransInv /\ TablesOK /\ CopiesOK
=============================================================================
