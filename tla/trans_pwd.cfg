SPECIFICATION TransSpec
CONSTANTS
  Nil = Nil
  EmptyPwd = EmptyPwd
  AesKeyIsZero = TRUE
  KeychainFails = TRUE
  KeyIds = {k1, k2}
  TransPwds = {Nil, EmptyPwd, p1, p2}
  Callbacks = {TRUE, FALSE}
  Crashes = TRUE
INVARIANTS
  OnlyChosenPwdOpens
  SavedPwdOpens
