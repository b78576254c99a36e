---------------------- MODULE WIRestorationFile_proofs ----------------------
(***************************************************************************)
(* Proofs about the restoration file, on top of those about the wallet: an *)
(* import from a file gives back the wallet exported last, and with the    *)
(* file the wallet still is the vault of WIVault.                          *)
(***************************************************************************)
EXTENDS WIRestorationFile, WIVault_proofs

\* A file's ciphertext decrypts to its content or not at all.
LEMMA DecryptsToContent ==
  ASSUME NEW c, NEW k, AesDecrypt(c, k) # Nil
  PROVE  AesDecrypt(c, k) = c.content
BY DEF AesDecrypt

\* A line contains the text that was exported.
LEMMA LineContent ==
  ASSUME NEW l \in Lines
  PROVE  l.content \in Texts
BY DEF Lines, AesEncrypt

\* __getMnemonics hands out mnemonics together with an index, or nothing.
LEMMA ExportTextType ==
  ASSUME WalletTypeOK
  PROVE  /\ GetMnemonics \in Mnemonics \cup {Nil}
         /\ ExportText \in Texts
         /\ ExportText.mnemonics = IF GetMnemonics = Nil THEN NoMnemonics ELSE GetMnemonics
<1>1. CASE GetMnemonics = Nil
  BY <1>1 DEF ExportText, Texts
<1>2. CASE GetMnemonics # Nil
  <2> DEFINE s == keychain[keyStore]
  <2>1. /\ s \in Stores
        /\ GetMnemonics = LoadMnemonics(s, unlockPwd)
    BY <1>2, NilIsNoName DEF GetMnemonics, WalletTypeOK
  <2>2. s.mnemonics \in MnemonicCiphers /\ s.index \in Nat
    BY <1>2, <2>1 DEF LoadMnemonics, Stores
  <2>3. LoadMnemonics(s, unlockPwd) = s.mnemonics.content
    BY <1>2, <2>1, DecryptsToContent DEF LoadMnemonics
  <2>4. s.mnemonics.content \in Mnemonics
    BY <2>2 DEF MnemonicCiphers, AesEncrypt
  <2> QED BY <1>2, <2>1, <2>2, <2>3, <2>4 DEF ExportText, Texts
<1> QED BY <1>1, <1>2

\* What readContentWithFileName and the restore password give is the latest
\* export, with an index to go on with.
LEMMA DecryptedIsLatest ==
  ASSUME FileInv, NEW r, Decrypted(r) # Nil
  PROVE  /\ Decrypted(r).index \in Nat
         /\ Decrypted(r).mnemonics = IF exported = Nil THEN NoMnemonics ELSE exported
<1>1. /\ ReadContent(file) # Nil
      /\ AesDecrypt(ReadContent(file), HashTwice(r)) # Nil
      /\ Decrypted(r) = AesDecrypt(ReadContent(file), HashTwice(r))
  BY DEF Decrypted
<1>2. file # Nil /\ file.lines = 1 /\ ReadContent(file) = file.line
  BY <1>1 DEF ReadContent
<1>3. Decrypted(r) = file.line.content
  BY <1>1, <1>2, DecryptsToContent
<1>4. file.line \in Lines
  BY <1>2 DEF FileInv, FileTypeOK
<1>5. file.line.content.index \in Nat
  BY <1>4, LineContent DEF Texts
<1> QED BY <1>2, <1>3, <1>5 DEF FileInv, OnlyLineIsLatest

-----------------------------------------------------------------------------
\* initHDWalletWithFile: with a wallet in the file, the import of that wallet;
\* with nothing in it, no change.
LEMMA FileImport ==
  ASSUME FileInv, NEW r, NEW unlock \in UnlockPwds, NEW refused,
         InitHDWalletWithFile(r, unlock, refused)
  PROVE  /\ exported = Nil => UNCHANGED walletVars /\ answers' = <<FALSE, FALSE>>
         /\ exported # Nil =>
              /\ exported \in Mnemonics
              /\ \E i \in Nat : ImportHDWallet(exported, i, unlock, TRUE, refused)
              /\ answers' = <<BatchAddDone(LifecycleItems, refused), FALSE>>
<1> DEFINE text == Decrypted(r)
<1>1. /\ text # Nil
      /\ \/ ImportHDWallet(text.mnemonics, text.index, unlock, TRUE, refused)
         \/ ImportBadMnemonics(text.mnemonics)
      /\ answers' = <<MasterKey(text.mnemonics) # Nil
                        /\ BatchAddDone(LifecycleItems, refused), FALSE>>
  BY DEF InitHDWalletWithFile
<1>2. /\ text.index \in Nat
      /\ text.mnemonics = IF exported = Nil THEN NoMnemonics ELSE exported
  BY <1>1, DecryptedIsLatest
<1> HIDE DEF text
<1>3. CASE exported = Nil
  <2>1. text.mnemonics = NoMnemonics /\ MasterKey(NoMnemonics) = Nil
    BY <1>2, <1>3, FileAssumption, WalletAssumption DEF MasterKey
  <2>2. UNCHANGED walletVars
    BY <1>1, <2>1 DEF ImportHDWallet, ImportBadMnemonics
  <2>3. (MasterKey(text.mnemonics) # Nil /\ BatchAddDone(LifecycleItems, refused)) = FALSE
    BY <2>1
  <2> QED BY <1>1, <1>3, <2>2, <2>3
<1>4. CASE exported # Nil
  <2>1. text.mnemonics = exported /\ exported \in Mnemonics
    BY <1>2, <1>4 DEF FileInv, OnlyLineIsLatest
  <2>2. MasterKey(exported) # Nil
    <3>1. MasterKey(exported) = [masterOf |-> exported]
      BY <2>1 DEF MasterKey
    <3> QED BY <2>1, <3>1, NilAssumption
  <2>3. ImportHDWallet(exported, text.index, unlock, TRUE, refused)
    BY <1>1, <2>1, <2>2 DEF ImportBadMnemonics
  <2>4. (MasterKey(text.mnemonics) # Nil /\ BatchAddDone(LifecycleItems, refused))
          = BatchAddDone(LifecycleItems, refused)
    BY <2>1, <2>2 DEF BatchAddDone
  <2> QED BY <1>1, <1>2, <1>4, <2>1, <2>3, <2>4
<1> QED BY <1>3, <1>4

\* With the file around, the wallet does its own steps or imports at an index of
\* the file.
LEMMA FileStepKinds ==
  ASSUME FileInv, [FileNext]_<<walletVars, fileVars>>
  PROVE  \/ [WalletNext]_walletVars
         \/ \E m \in Mnemonics, i \in Nat, p \in UnlockPwds,
               refused \in SUBSET LifecycleItems : ImportHDWallet(m, i, p, TRUE, refused)
<1>1. ASSUME NEW r \in RestorePwds, NEW unlock \in UnlockPwds,
             NEW refused \in Refusals(LifecycleItems),
             InitHDWalletWithFile(r, unlock, refused)
      PROVE  \/ UNCHANGED walletVars
             \/ \E m \in Mnemonics, i \in Nat, p \in UnlockPwds,
                   ref \in SUBSET LifecycleItems : ImportHDWallet(m, i, p, TRUE, ref)
  BY <1>1, FileImport, RefusalsType
<1>2. CASE \E r \in RestorePwds :
             \/ \E written \in BOOLEAN : ExportRestorationFile(r, written)
             \/ InitHDWalletWithBadFile(r)
  BY <1>2 DEF ExportRestorationFile, InitHDWalletWithBadFile
<1>3. CASE OtherStep \/ AppRemovedWithFile
  BY <1>3 DEF OtherStep, AppRemovedWithFile, WalletNext
<1> QED BY <1>1, <1>2, <1>3 DEF FileNext

\* The wallet's invariant does not depend on where an index comes from.
LEMMA FileWalletStep ==
  ASSUME FileInv, [FileNext]_<<walletVars, fileVars>>
  PROVE  WalletInv'
BY FileStepKinds, WalletStep, ImportStep DEF FileInv

\* exportRestorationFile appends a line, and the first line is the export itself.
LEMMA ExportStep ==
  ASSUME FileInv, NEW r \in RestorePwds, NEW written \in BOOLEAN,
         ExportRestorationFile(r, written)
  PROVE  FileTypeOK' /\ OnlyLineIsLatest'
<1> DEFINE line == AesEncrypt(ExportText, HashTwice(r))
<1>1. /\ GetMnemonics \in Mnemonics \cup {Nil}
      /\ ExportText \in Texts
      /\ ExportText.mnemonics = IF GetMnemonics = Nil THEN NoMnemonics ELSE GetMnemonics
  BY ExportTextType DEF FileInv, WalletInv
<1>2. line \in Lines /\ line.content = ExportText
  BY <1>1 DEF Lines, AesEncrypt
<1>3. /\ file' = IF written THEN Appended(line) ELSE file
      /\ exported' = IF written THEN GetMnemonics ELSE exported
  BY DEF ExportRestorationFile
<1> HIDE DEF line
<1>4. CASE ~written
  BY <1>3, <1>4 DEF FileInv, FileTypeOK, OnlyLineIsLatest
<1>5. CASE written /\ file = Nil
  <2>1. file' = [line |-> line, lines |-> 1] /\ exported' = GetMnemonics
    BY <1>3, <1>5 DEF Appended
  <2> QED BY <1>1, <1>2, <2>1 DEF FileTypeOK, OnlyLineIsLatest
<1>6. CASE written /\ file # Nil
  <2>1. file' = [file EXCEPT !.lines = ManyLines] /\ exported' = GetMnemonics
    BY <1>3, <1>6 DEF Appended
  <2>2. file \in [line : Lines, lines : {1, ManyLines}]
    BY <1>6 DEF FileInv, FileTypeOK
  <2>3. file' \in [line : Lines, lines : {1, ManyLines}] /\ file'.lines = 2
    BY <2>1, <2>2 DEF ManyLines
  <2> QED BY <1>1, <2>1, <2>3 DEF FileTypeOK, OnlyLineIsLatest
<1> QED BY <1>4, <1>5, <1>6

\* The invariant holds on a new device, without a file.
LEMMA FileInitInv ==
  ASSUME FileInit PROVE FileInv
BY WalletInitInv DEF FileInit, FileInv, FileTypeOK, OnlyLineIsLatest

\* Every step of the wallet and its file keeps the invariant.
LEMMA FileStep ==
  ASSUME FileInv, [FileNext]_<<walletVars, fileVars>>
  PROVE  FileInv'
<1>1. FileTypeOK' /\ OnlyLineIsLatest'
  <2>1. CASE UNCHANGED <<file, exported>>
    BY <2>1 DEF FileInv, FileTypeOK, OnlyLineIsLatest
  <2>2. CASE file' = Nil /\ exported' = Nil
    BY <2>2 DEF FileTypeOK, OnlyLineIsLatest
  <2> QED BY <2>1, <2>2, ExportStep
          DEF FileNext, InitHDWalletWithFile, InitHDWalletWithBadFile, OtherStep,
              AppRemovedWithFile, fileVars
<1> QED BY <1>1, FileWalletStep DEF FileInv

\* The invariant of the wallet together with that of its file.
THEOREM FileInvariance == FileSpec => []FileInv
BY FileInitInv, FileStep, PTL DEF FileSpec

-----------------------------------------------------------------------------
\* After an import that answers YES the open wallet is the exported one.
LEMMA ImportAnswer ==
  ASSUME FileInv, NEW r \in RestorePwds, NEW unlock \in UnlockPwds,
         NEW refused \in Refusals(LifecycleItems),
         InitHDWalletWithFile(r, unlock, refused)
  PROVE  IF answers'[1]
         THEN /\ inited'
              /\ \E pwd \in UnlockPwds : IsWallet(keychain'[current'], exported, pwd)
         ELSE current' = current /\ inited' = inited
<1>1. CASE exported = Nil
  <2>1. answers' = <<FALSE, FALSE>> /\ UNCHANGED walletVars
    BY <1>1, FileImport
  <2>2. answers'[1] = FALSE
    BY <2>1
  <2> QED BY <2>1, <2>2 DEF walletVars, defaults, memory
<1>2. CASE exported # Nil
  <2>1. /\ exported \in Mnemonics
        /\ answers' = <<BatchAddDone(LifecycleItems, refused), FALSE>>
    BY <1>2, FileImport
  <2>2. PICK i \in Nat : ImportHDWallet(exported, i, unlock, TRUE, refused)
    BY <1>2, FileImport
  <2>3. refused \in SUBSET LifecycleItems /\ WalletInv
    BY RefusalsType DEF FileInv
  <2>4. CASE refused = {}
    <3>1. answers'[1]
      BY <2>1, <2>4 DEF BatchAddDone, LifecycleItems
    <3>2. NewWallet(exported, AtLeastStartIndex(i), unlock)
      BY <2>1, <2>2, <2>3, <2>4, ImportOutcome
    <3> QED BY <3>1, <3>2 DEF NewWallet, SetCurrentWallet, InitHDWalletSuccess
  <2>5. CASE refused # {}
    <3>1. ~answers'[1]
      BY <2>1, <2>5 DEF BatchAddDone
    <3>2. SameWallet
      BY <2>1, <2>2, <2>3, <2>5, ImportOutcome
    <3> QED BY <3>1, <3>2 DEF SameWallet, memory
  <2> QED BY <2>4, <2>5
<1> QED BY <1>1, <1>2

\* exportRestorationFile and initHDWalletWithFile: a first answer YES means that
\* the open wallet is the one exported last, NO that nothing changed.
THEOREM ImportRestoresCorrect == FileSpec => ImportRestores
<1>1. FileInv /\ [FileNext]_<<walletVars, fileVars>> =>
        [answers' # <<>> =>
           IF answers'[1]
           THEN /\ inited'
                /\ \E pwd \in UnlockPwds : IsWallet(keychain'[current'], exported, pwd)
           ELSE current' = current /\ inited' = inited]_<<walletVars, fileVars>>
  <2> SUFFICES ASSUME FileInv, FileNext, answers' # <<>>
               PROVE  IF answers'[1]
                      THEN /\ inited'
                           /\ \E pwd \in UnlockPwds :
                                IsWallet(keychain'[current'], exported, pwd)
                      ELSE current' = current /\ inited' = inited
    OBVIOUS
  <2>1. ASSUME NEW r \in RestorePwds, InitHDWalletWithBadFile(r)
        PROVE  answers'[1] = FALSE /\ current' = current /\ inited' = inited
    BY <2>1 DEF InitHDWalletWithBadFile, walletVars, defaults, memory
  <2> QED BY <2>1, ImportAnswer
          DEF FileNext, ExportRestorationFile, OtherStep, AppRemovedWithFile
<1> QED BY <1>1, FileInvariance, PTL DEF FileSpec, ImportRestores

\* With exports and imports around it, the wallet still implements the vault.
THEOREM FileRefinesVault == FileSpec => RefinesVault
<1>1. FileInit => Vault!VaultInit
  BY WalletInitMaps DEF FileInit
<1>2. FileInv /\ [FileNext]_<<walletVars, fileVars>> => [Vault!VaultNext]_(Vault!vaultVars)
  BY FileStepKinds, WalletMaps, ImportMaps DEF FileInv
<1> QED BY <1>1, <1>2, FileInvariance, PTL DEF FileSpec, RefinesVault, Vault!VaultSpec

\* An import from a file harms the current wallet no more than any other step.
THEOREM FileReplacement == FileSpec => ReplacedOnlyByWhole
<1>1. FileInv /\ [FileNext]_<<walletVars, fileVars>> =>
        [current # Nil =>
           \/ keychain'[current] = keychain[current]
           \/ Gone(keychain'[current]) /\ Whole(keychain'[walletIndex'])]_walletVars
  BY FileStepKinds, ReplacementStep, ImportReplaces DEF FileInv
<1> QED BY <1>1, FileInvariance, PTL DEF FileSpec, ReplacedOnlyByWhole
=============================================================================
