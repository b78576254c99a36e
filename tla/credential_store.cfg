SPECIFICATION StoreSpec
CONSTANTS
  Nil = Nil
  AesKeyIsZero = FALSE
  KeychainFails = TRUE
  Mnemonics = {m1, m2}
  BadMnemonics = {bad}
  UnlockPwds = {p1}
  ImportIndexes = {1000}
  Domains = {d}
  DbPwds = {x1, x2, x3, x4}
  StartIndex = 1000
  MaxIndex = 1000
  MaxWallets = 2
  CredentialIds = {c1}
  Contents = {v1, v2}
SYMMETRY Symmetry
INVARIANTS
  StoreTypeOK
  DbPwdsReadable
  SavedCredentialLoads
