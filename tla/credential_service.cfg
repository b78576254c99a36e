SPECIFICATION CredentialSpec
CONSTANTS
  Nil = Nil
  EmptyPwd = EmptyPwd
  AesKeyIsZero = TRUE
  KeychainFails = TRUE
  KeyIds = {k1}
  TransPwds = {Nil, p1}
  Callbacks = {TRUE, FALSE}
  Crashes = TRUE
  Uuids = {u1, u2}
  Claims = {a, b}
  OtherIssuers = {o}
  Contexts = {ctx}
SYMMETRY Symmetry
INVARIANT IssuedStaysIntact
