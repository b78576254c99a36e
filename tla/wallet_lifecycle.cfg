SPECIFICATION FileSpec
CONSTANTS
  Nil = Nil
  AesKeyIsZero = FALSE
  KeychainFails = TRUE
  Mnemonics = {m1, m2}
  NoMnemonics = null
  BadMnemonics = {null}
  UnlockPwds = {p1, p2}
  RestorePwds = {r1, r2}
  ImportIndexes = {0}
  Domains = {}
  DbPwds = {}
  StartIndex = 1000
  MaxIndex = 1001
  MaxWallets = 2
SYMMETRY Symmetry
INVARIANTS
  WalletTypeOK
  CurrentWalletWhole
  SessionOpens
PROPERTIES
  ReplacedOnlyByWhole
  RefinesVault
  ImportRestores
