SPECIFICATION TransSpec
CONSTANTS
  Nil = Nil
  EmptyPwd = EmptyPwd
  AesKeyIsZero = TRUE
  KeychainFails = FALSE
  KeyIds = {k1, k2}
  TransPwds = {Nil, p1}
  Callbacks = {TRUE}
  Crashes = FALSE
INVARIANT DeletedPwdOpens
