----------------------- MODULE WIKeychainPersistence -----------------------
(***************************************************************************)
(* WIKeychainPersistence.m: a domain of the iOS keychain is a set of named *)
(* items.  Each operator gives the value of an item after a call, from its *)
(* value before and from whether the keychain accepted the write (it       *)
(* refuses one, for example, while the device is locked: the items are     *)
(* stored with kSecAttrAccessibleWhenUnlocked).  Nil is an absent item.    *)
(***************************************************************************)
EXTENDS WINil

CONSTANT
  KeychainFails   \* whether SecItemAdd and SecItemUpdate may be refused

ASSUME KeychainFailsAssumption == KeychainFails \in BOOLEAN

(***************************************************************************)
(* add: first deletes the old item, then adds the new one.  When the       *)
(* second call is refused the old value is already gone.                   *)
(***************************************************************************)
Add(data, ok) == IF ok THEN data ELSE Nil

(***************************************************************************)
(* update: SecItemUpdate changes an item only if it exists.                *)
(***************************************************************************)
Update(old, data, ok) == IF ok /\ old # Nil THEN data ELSE old

UpdateDone(old, ok) == ok /\ old # Nil

(***************************************************************************)
(* batchAdd: one add for every item, none rolled back; the call answers 1  *)
(* only for a non-empty dictionary of which no add was refused.            *)
(***************************************************************************)
BatchAddDone_Unchecked(items, refused) == items # {}
BatchAddDone(items, refused) == items # {} /\ refused = {}

Refusals(items) == IF KeychainFails THEN SUBSET items ELSE {{}}

Accepted == IF KeychainFails THEN BOOLEAN ELSE {TRUE}
=============================================================================
