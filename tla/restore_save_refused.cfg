SPECIFICATION RestoreSpec
CONSTANTS
  Nil = Nil
  AesKeyIsZero = FALSE
  KeychainFails = TRUE
  Mnemonics = {m1, m2}
  BadMnemonics = {bad}
  UnlockPwds = {p1}
  ImportIndexes = {0}
  Domains = {}
  DbPwds = {}
  StartIndex = 1000
  MaxIndex = 1001
  MaxWallets = 2
  Calls = {c1}
  AppWaits = TRUE
  Bucket = 2
  NetFails = TRUE
INVARIANTS
  RefusedRestoreKeepsWallet
