--------------------- MODULE WICredentialService_proofs ---------------------
(***************************************************************************)
(* Proofs about credentials, for every set of ids, claims, issuers and     *)
(* passwords, and any number of exports, imports, saves and loads.         *)
(***************************************************************************)
EXTENDS WICredentialService, WITransPwd_proofs

\* fromJson reads from a text what its one entry for a key holds, or nil.
LEMMA ValueIs ==
  ASSUME NEW dic, NEW key, NEW v,
         \A e \in dic : e[1] = key => e[2] = v,
         v # Nil => <<key, v>> \in dic
  PROVE  Value(JsonFromDic(dic), key) = v
<1> DEFINE json == JsonFromDic(dic)
<1>1. json[2] = dic
  BY DEF JsonFromDic
<1> HIDE DEF json
<1>2. CASE \E e \in dic : e[1] = key
  <2> DEFINE entry == CHOOSE e \in dic : e[1] = key
  <2>1. entry \in dic /\ entry[1] = key
    BY <1>2
  <2>2. Value(json, key) = entry[2]
    BY <1>1, <1>2 DEF Value
  <2> HIDE DEF entry
  <2> QED BY <2>1, <2>2 DEF json
<1>3. CASE ~\E e \in dic : e[1] = key
  <2>1. v = Nil
    BY <1>3
  <2>2. Value(json, key) = Nil
    BY <1>1, <1>3 DEF Value
  <2> QED BY <2>1, <2>2 DEF json
<1> QED BY <1>2, <1>3

\* A key that is not in a text is read as nil.
LEMMA ValueMissing ==
  ASSUME NEW dic, NEW key, \A e \in dic : e[1] # key
  PROVE  Value(JsonFromDic(dic), key) = Nil
BY DEF Value, JsonFromDic

\* toJson and fromJson keep id, issuer, claim and proof, and lose the "f",
\* which is written as "$f".
LEMMA JsonKeeps ==
  ASSUME NEW c, NEW u, c.id # Nil
  PROVE  FromJson(ToJson(c), u) =
           [id |-> c.id, issuer |-> c.issuer, claim |-> c.claim,
            context |-> Nil, f |-> Nil, proof |-> c.proof]
<1> DEFINE dic == ToMap(c) \cup Dictionary({<<"proof", c.proof>>})
           json == JsonFromDic(dic)
<1>1. \A e : e \in dic <=>
        /\ e \in {<<"$f", c.f>>, <<"claim", c.claim>>, <<"id", c.id>>,
                  <<"issuer", c.issuer>>, <<"proof", c.proof>>}
        /\ e[2] # Nil
  BY DEF ToMap, Dictionary
<1> HIDE DEF dic
<1>2. Value(json, "id") = c.id
  <2>1. \A e \in dic : e[1] = "id" => e[2] = c.id
    BY <1>1
  <2>2. c.id # Nil => <<"id", c.id>> \in dic
    BY <1>1
  <2> QED BY <2>1, <2>2, ValueIs
<1>3. Value(json, "issuer") = c.issuer
  <2>1. \A e \in dic : e[1] = "issuer" => e[2] = c.issuer
    BY <1>1
  <2>2. c.issuer # Nil => <<"issuer", c.issuer>> \in dic
    BY <1>1
  <2> QED BY <2>1, <2>2, ValueIs
<1>4. Value(json, "claim") = c.claim
  <2>1. \A e \in dic : e[1] = "claim" => e[2] = c.claim
    BY <1>1
  <2>2. c.claim # Nil => <<"claim", c.claim>> \in dic
    BY <1>1
  <2> QED BY <2>1, <2>2, ValueIs
<1>5. Value(json, "proof") = c.proof
  <2>1. \A e \in dic : e[1] = "proof" => e[2] = c.proof
    BY <1>1
  <2>2. c.proof # Nil => <<"proof", c.proof>> \in dic
    BY <1>1
  <2> QED BY <2>1, <2>2, ValueIs
<1>6. Value(json, "context") = Nil
  <2>1. \A e \in dic : e[1] # "context"
    BY <1>1
  <2> QED BY <2>1, ValueMissing
<1>7. Value(json, "f") = Nil
  <2>1. \A e \in dic : e[1] # "f"
    BY <1>1
  <2> QED BY <2>1, ValueMissing
<1>8. json = ToJson(c)
  BY DEF dic, ToJson
<1> HIDE DEF json
<1> QED BY <1>2, <1>3, <1>4, <1>5, <1>6, <1>7, <1>8 DEF FromJson

\* fromJson of a text from elsewhere gives the id it came with or the new one, and
\* the issuer, claim and signature of what was signed.
LEMMA ReceivedIs ==
  ASSUME NEW u \in Uuids, NEW o, NEW claim, NEW withId \in BOOLEAN, NEW f, NEW context
  PROVE  IsCopyOf(Received(u, o, claim, withId, f, context),
                  Original(u, o, claim, withId, f, context))
<1> DEFINE id == IF withId THEN u ELSE Nil
           proof == ProofElsewhere(u, o, claim, withId, f)
           dic == ContentElsewhere(u, o, claim, withId, f) \cup {<<"proof", proof>>}
                    \cup Dictionary({<<"context", context>>})
           json == JsonFromDic(dic)
           r == Received(u, o, claim, withId, f, context)
           original == Original(u, o, claim, withId, f, context)
<1>1. \A e : e \in dic <=>
        \/ e = <<"proof", proof>>
        \/ /\ e \in {<<"id", id>>, <<"issuer", o>>, <<"claim", claim>>, <<"$f", f>>,
                     <<"context", context>>}
           /\ e[2] # Nil
  <2> HIDE DEF proof
  <2> QED BY DEF Dictionary, ContentElsewhere
<1>2. r = FromJson(json, u)
  BY DEF Received, JsonElsewhere
<1>3. id \in {u, Nil} /\ u # Nil
  BY ServiceAssumption
<1>4. /\ original.id = u /\ original.issuer = o
      /\ original.claim = claim /\ original.proof = proof
  BY DEF Original
<1> HIDE DEF dic, r, id, proof, original
<1>5. Value(json, "id") = id
  <2>1. \A e \in dic : e[1] = "id" => e[2] = id
    BY <1>1
  <2>2. id # Nil => <<"id", id>> \in dic
    BY <1>1
  <2> QED BY <2>1, <2>2, ValueIs
<1>6. Value(json, "issuer") = o
  <2>1. \A e \in dic : e[1] = "issuer" => e[2] = o
    BY <1>1
  <2>2. o # Nil => <<"issuer", o>> \in dic
    BY <1>1
  <2> QED BY <2>1, <2>2, ValueIs
<1>7. Value(json, "claim") = claim
  <2>1. \A e \in dic : e[1] = "claim" => e[2] = claim
    BY <1>1
  <2>2. claim # Nil => <<"claim", claim>> \in dic
    BY <1>1
  <2> QED BY <2>1, <2>2, ValueIs
<1>8. Value(json, "proof") = proof
  <2>1. \A e \in dic : e[1] = "proof" => e[2] = proof
    BY <1>1
  <2>2. proof # Nil => <<"proof", proof>> \in dic
    BY <1>1
  <2> QED BY <2>1, <2>2, ValueIs
<1> HIDE DEF json
<1>9. /\ r.id = u /\ r.issuer = o /\ r.claim = claim /\ r.proof = proof
      /\ r = [id |-> r.id, issuer |-> r.issuer, claim |-> r.claim,
              context |-> r.context, f |-> r.f, proof |-> r.proof]
  BY <1>2, <1>3, <1>5, <1>6, <1>7, <1>8 DEF FromJson
<1> QED BY <1>4, <1>9 DEF IsCopyOf, r, original

\* createCredential makes a credential with the id and the issuer it was given.
LEMMA CreatedIs ==
  ASSUME NEW u, NEW k, NEW claim
  PROVE  LET c == Created(u, k, claim) IN c.id = u /\ IsCopyOf(c, c)
BY DEF Created, Unsigned, SettingSign, IsCopyOf
-----------------------------------------------------------------------------
\* What is exchanged, saved or loaded is a copy of the same credential.
LEMMA CopiedAgain ==
  ASSUME NEW c, NEW o, NEW u, IsCopyOf(c, o)
  PROVE  /\ c.id # Nil => IsCopyOf(FromJson(ToJson(c), u), o)
         /\ IsCopyOf(Row(c), o)
         /\ Row(c).id = c.id
<1>1. ASSUME c.id # Nil
      PROVE  IsCopyOf(FromJson(ToJson(c), u), o)
  BY <1>1, JsonKeeps DEF IsCopyOf
<1>2. Row(c) = [id |-> c.id, issuer |-> c.issuer, claim |-> c.claim,
                context |-> Nil, f |-> c.f, proof |-> c.proof]
  BY DEF IsCopyOf, Row
<1>3. IsCopyOf(Row(c), o) /\ Row(c).id = c.id
  BY <1>2 DEF IsCopyOf
<1> QED BY <1>1, <1>3

\* A credential o is issued under a fresh id, and a copy of it is held.
LEMMA IssueStep ==
  ASSUME CredentialInv, NEW u \in FreshUuids, NEW o, NEW c,
         o # Nil, o.id = u, IsCopyOf(c, o),
         held' = held \cup {c},
         issued' = [issued EXCEPT ![u] = o],
         UNCHANGED <<transVars, rows>>
  PROVE  CredentialInv'
<1>1. u \in Uuids /\ issued[u] = Nil
  BY DEF FreshUuids
<1>2. issued = [v \in Uuids |-> issued[v]]
  BY DEF CredentialInv, TablesOK
<1>3. /\ issued' = [v \in Uuids |-> issued'[v]]
      /\ issued'[u] = o
      /\ \A v \in Uuids : v # u => issued'[v] = issued[v]
  BY <1>1, <1>2
<1>4. TransInv'
  BY DEF CredentialInv, TransInv, TransTypeOK, OwnPair, SavedItems, transVars
<1>5. TablesOK'
  BY <1>3 DEF CredentialInv, TablesOK
<1>6. CopiesOK'
  <2>1. ASSUME NEW d \in held'
        PROVE  d.id \in Uuids /\ issued'[d.id] # Nil /\ IsCopyOf(d, issued'[d.id])
    <3>1. CASE d = c
      BY <1>1, <1>3, <3>1 DEF IsCopyOf
    <3>2. CASE d # c
      <4>1. d \in held
        BY <3>2
      <4>2. d.id \in Uuids /\ issued[d.id] # Nil /\ IsCopyOf(d, issued[d.id])
        BY <4>1 DEF CredentialInv, CopiesOK
      <4> QED BY <1>1, <1>3, <4>2
    <3> QED BY <3>1, <3>2
  <2>2. ASSUME NEW v \in Uuids, rows[v] # Nil
        PROVE  issued'[v] # Nil /\ IsCopyOf(rows[v], issued'[v])
    <3>1. issued[v] # Nil /\ IsCopyOf(rows[v], issued[v])
      BY <2>2 DEF CredentialInv, CopiesOK
    <3> QED BY <1>1, <1>3, <3>1
  <2> QED BY <2>1, <2>2 DEF CopiesOK
<1> QED BY <1>4, <1>5, <1>6 DEF CredentialInv

\* createCredential issues what it answers with.
LEMMA CreateCredentialStep ==
  ASSUME CredentialInv, NEW u \in FreshUuids, NEW k \in KeyIds, NEW claim \in Claims,
         NEW pwd \in TransPwds, CreateCredential(u, k, claim, pwd)
  PROVE  CredentialInv'
<1> DEFINE c == Created(u, k, claim)
<1>1. c # Nil /\ c.id = u /\ IsCopyOf(c, c)
  BY CreatedIs, IssuedAssumption DEF FreshUuids
<1>2. /\ held' = held \cup {c}
      /\ issued' = [issued EXCEPT ![u] = c]
      /\ UNCHANGED <<transVars, rows>>
  BY DEF CreateCredential
<1> HIDE DEF c
<1> QED BY <1>1, <1>2, IssueStep

\* fromJson of a text from elsewhere makes a copy of what was signed there.
LEMMA ReceiveJsonStep ==
  ASSUME CredentialInv, NEW u \in FreshUuids, NEW o \in OtherIssuers, NEW claim \in Claims,
         NEW withId \in BOOLEAN, NEW f \in {Nil, "1"}, NEW context \in Contexts \cup {Nil},
         ReceiveJson(u, o, claim, withId, f, context)
  PROVE  CredentialInv'
<1> DEFINE c == Received(u, o, claim, withId, f, context)
           original == Original(u, o, claim, withId, f, context)
<1>1. u \in Uuids
  BY DEF FreshUuids
<1>2. original # Nil /\ original.id = u
  BY <1>1, IssuedAssumption DEF Original
<1>3. IsCopyOf(c, original)
  BY <1>1, ReceivedIs
<1>4. /\ held' = held \cup {c}
      /\ issued' = [issued EXCEPT ![u] = original]
      /\ UNCHANGED <<transVars, rows>>
  BY DEF ReceiveJson
<1> HIDE DEF c, original
<1> QED BY <1>2, <1>3, <1>4, IssueStep

\* The app holds one more copy, or fewer, and nothing else changes.
LEMMA HoldStep ==
  ASSUME CredentialInv, UNCHANGED <<transVars, rows, issued>>,
         \A c \in held' :
           \/ c \in held
           \/ c.id \in Uuids /\ issued[c.id] # Nil /\ IsCopyOf(c, issued[c.id])
  PROVE  CredentialInv'
<1>1. TransInv'
  BY DEF CredentialInv, TransInv, TransTypeOK, OwnPair, SavedItems, transVars
<1>2. TablesOK'
  BY DEF CredentialInv, TablesOK
<1>3. CopiesOK'
  BY DEF CredentialInv, CopiesOK
<1> QED BY <1>1, <1>2, <1>3 DEF CredentialInv

\* toJson and fromJson make one more copy.
LEMMA ExchangeJsonStep ==
  ASSUME CredentialInv, NEW c \in held, ExchangeJson(c)
  PROVE  CredentialInv'
<1>1. PICK u : held' = held \cup {FromJson(ToJson(c), u)}
  BY DEF ExchangeJson
<1> DEFINE d == FromJson(ToJson(c), u)
<1>2. c.id \in Uuids /\ issued[c.id] # Nil /\ IsCopyOf(c, issued[c.id])
  BY DEF CredentialInv, CopiesOK
<1>3. c.id # Nil
  BY <1>2, ServiceAssumption
<1>4. d.id = c.id
  BY <1>3, JsonKeeps
<1>5. IsCopyOf(d, issued[c.id])
  BY <1>2, <1>3, CopiedAgain
<1> HIDE DEF d
<1> QED BY <1>1, <1>2, <1>4, <1>5, HoldStep DEF ExchangeJson, d

\* saveCredential makes a row of a copy.
LEMMA SaveCredentialStep ==
  ASSUME CredentialInv, NEW c \in held, SaveCredential(c)
  PROVE  CredentialInv'
<1>1. c.id \in Uuids /\ issued[c.id] # Nil /\ IsCopyOf(c, issued[c.id])
  BY DEF CredentialInv, CopiesOK
<1> DEFINE row == Row(c)
<1>2. IsCopyOf(row, issued[c.id])
  BY <1>1, CopiedAgain
<1>3. rows' = [rows EXCEPT ![c.id] = row] /\ UNCHANGED <<transVars, held, issued>>
  BY DEF SaveCredential
<1> HIDE DEF row
<1>4. rows = [v \in Uuids |-> rows[v]]
  BY DEF CredentialInv, TablesOK
<1>5. /\ rows' = [v \in Uuids |-> rows'[v]]
      /\ rows'[c.id] = row
      /\ \A v \in Uuids : v # c.id => rows'[v] = rows[v]
  BY <1>1, <1>3, <1>4
<1>6. TransInv'
  BY <1>3 DEF CredentialInv, TransInv, TransTypeOK, OwnPair, SavedItems, transVars
<1>7. TablesOK'
  BY <1>3, <1>5 DEF CredentialInv, TablesOK
<1>8. CopiesOK'
  BY <1>1, <1>2, <1>3, <1>5 DEF CredentialInv, CopiesOK
<1> QED BY <1>6, <1>7, <1>8 DEF CredentialInv

\* The invariant holds before the first credential.
LEMMA CredentialInitInv == CredentialInit => CredentialInv
<1> SUFFICES ASSUME CredentialInit PROVE CredentialInv
  OBVIOUS
<1>1. TransInv
  BY TransInitInv DEF CredentialInit
<1>2. TablesOK /\ CopiesOK
  BY DEF CredentialInit, TablesOK, CopiesOK
<1> QED BY <1>1, <1>2 DEF CredentialInv

\* Every step of the service keeps the invariant.
LEMMA CredentialStep ==
  ASSUME CredentialInv, [CredentialNext]_<<transVars, credentialVars>>
  PROVE  CredentialInv'
<1>1. CASE UNCHANGED <<transVars, credentialVars>>
  BY <1>1, HoldStep DEF credentialVars
<1>2. CASE TransPwdStep
  <2>1. TransInv'
    BY <1>2, TransStep DEF CredentialInv, TransPwdStep
  <2>2. TablesOK' /\ CopiesOK'
    BY <1>2 DEF CredentialInv, TransPwdStep, credentialVars, TablesOK, CopiesOK
  <2> QED BY <2>1, <2>2 DEF CredentialInv
<1>3. ASSUME NEW u \in FreshUuids, NEW claim \in Claims, NEW k \in KeyIds,
             NEW pwd \in TransPwds, CreateCredential(u, k, claim, pwd)
      PROVE  CredentialInv'
  BY <1>3, CreateCredentialStep
<1>4. ASSUME NEW u \in FreshUuids, NEW claim \in Claims, NEW o \in OtherIssuers,
             NEW withId \in BOOLEAN, NEW f \in {Nil, "1"},
             NEW context \in Contexts \cup {Nil},
             ReceiveJson(u, o, claim, withId, f, context)
      PROVE  CredentialInv'
  BY <1>4, ReceiveJsonStep
<1>5. ASSUME NEW k \in KeyIds, NEW pwd \in TransPwds, CreateWithNoKeyPair(k, pwd)
      PROVE  CredentialInv'
  BY <1>5, HoldStep DEF CreateWithNoKeyPair
<1>6. ASSUME NEW c \in held, ExchangeJson(c) \/ SaveCredential(c)
      PROVE  CredentialInv'
  BY <1>6, ExchangeJsonStep, SaveCredentialStep
<1>7. ASSUME NEW u \in Uuids, GetCredentialById(u)
      PROVE  CredentialInv'
  <2>1. rows[u].id = u /\ issued[u] # Nil /\ IsCopyOf(rows[u], issued[u])
    BY <1>7 DEF GetCredentialById, CredentialInv, CopiesOK, TablesOK, IsCopyOf
  <2> QED BY <1>7, <2>1, HoldStep DEF GetCredentialById
<1>8. CASE RestartApp
  BY <1>8, HoldStep DEF RestartApp
<1> QED BY <1>1, <1>2, <1>3, <1>4, <1>5, <1>6, <1>7, <1>8 DEF CredentialNext

\* The invariant holds before the first credential and is kept by every step.
THEOREM CredentialInvariance == CredentialSpec => []CredentialInv
BY CredentialInitInv, CredentialStep, PTL DEF CredentialSpec

\* A copy, in memory or in a row, is a copy of the credential with its id.
LEMMA CopyOfIssued ==
  ASSUME CredentialInv, NEW c \in Copies
  PROVE  /\ c.id \in Uuids
         /\ issued[c.id] # Nil
         /\ IsCopyOf(c, issued[c.id])
<1>1. CASE c \in held
  BY <1>1 DEF CredentialInv, CopiesOK
<1>2. CASE c \notin held
  <2>1. PICK u \in Uuids : c = rows[u] /\ rows[u] # Nil
    BY <1>2 DEF Copies
  <2>2. issued[u] # Nil /\ IsCopyOf(c, issued[u])
    BY <2>1 DEF CredentialInv, CopiesOK
  <2>3. c.id = u
    BY <2>2 DEF CredentialInv, TablesOK, IsCopyOf
  <2> QED BY <2>2, <2>3
<1> QED BY <1>1, <1>2

\* Every copy of a credential, from its creation or its first import (fromJson)
\* on and after any number of exports (toJson), imports, saves and loads, has the
\* id, issuer, claim and signature that its issuer gave it.
THEOREM IssuedIntactCorrect == CredentialSpec => []IssuedStaysIntact
<1>1. CredentialInv => IssuedStaysIntact
  BY CopyOfIssued DEF IsCopyOf, IssuedStaysIntact
<1> QED BY <1>1, CredentialInvariance, PTL
=============================================================================
