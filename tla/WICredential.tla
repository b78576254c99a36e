---------------------------- MODULE WICredential ----------------------------
(***************************************************************************)
(* WICredential.mm: a credential and what is made of it, namely the map    *)
(* that is hashed, the JSON text that is exchanged and the row of the      *)
(* database.  A key pair stands for both of its keys and, as the issuer,   *)
(* for the WeId it belongs to.  "claim" stands for the claim, the CPT, the *)
(* dates and the type, which are treated alike.                            *)
(*                                                                         *)
(* A dictionary is a set of <<key, value>>; a nil value is left out of it. *)
(* Its JSON text has the keys sorted, so equal dictionaries have the same  *)
(* text.                                                                   *)
(***************************************************************************)
EXTENDS WICryptoUtils

Dictionary(entries) == {e \in entries : e[2] # Nil}

\* __jsonFromDic
JsonFromDic(dic) == <<"json", dic>>

\* __hashFrom
HashFrom(dic) == Keccak256(JsonFromDic(dic))

\* __toMap: without proof and context, and the property f under the key "$f".
ToMap(c) ==
  Dictionary({<<"$f", c.f>>, <<"claim", c.claim>>, <<"id", c.id>>,
              <<"issuer", c.issuer>>})

\* dictionaryValue of WIBaseModel: every property under its own name.
DictionaryValue(c) ==
  Dictionary({<<"f", c.f>>, <<"claim", c.claim>>, <<"id", c.id>>,
              <<"issuer", c.issuer>>, <<"context", c.context>>, <<"proof", c.proof>>})

GetHash(c) == HashFrom(ToMap(c))

ToJson(c) == JsonFromDic(ToMap(c) \cup Dictionary({<<"proof", c.proof>>}))

\* fromJson: each property from the key of its own name, so that "$f" is not
\* read; without an id the credential gets a new one.
Value(json, key) ==
  IF \E e \in json[2] : e[1] = key
  THEN (CHOOSE e \in json[2] : e[1] = key)[2]
  ELSE Nil

FromJson_SignNotSet(json, uuid) ==
  [id      |-> IF Value(json, "id") = Nil THEN uuid ELSE Value(json, "id"),
   issuer  |-> Value(json, "issuer"),
   claim   |-> Value(json, "claim"),
   context |-> Value(json, "context"),
   f       |-> Value(json, "f"),
   proof   |-> Nil]
FromJson(json, uuid) ==
  [id      |-> IF Value(json, "id") = Nil THEN uuid ELSE Value(json, "id"),
   issuer  |-> Value(json, "issuer"),
   claim   |-> Value(json, "claim"),
   context |-> Value(json, "context"),
   f       |-> Value(json, "f"),
   proof   |-> Value(json, "proof")]

\* The columns of the table: every property but the context.  An insert binds a
\* missing f as NULL, so that the default of its column is not used.
Row(c) == [c EXCEPT !.context = Nil]
=============================================================================
