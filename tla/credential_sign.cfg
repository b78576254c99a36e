SPECIFICATION CredentialSpec
CONSTANTS
  Nil = Nil
  EmptyPwd = EmptyPwd
  AesKeyIsZero = TRUE
  KeychainFails = TRUE
  KeyIds = {k1}
  TransPwds = {Nil, EmptyPwd, p1, p2}
  Callbacks = {TRUE, FALSE}
  Crashes = TRUE
  Uuids = {u1, u2}
  Claims = {a}
  OtherIssuers = {o}
  Contexts = {ctx}
INVARIANT
  CreatedVerifies
