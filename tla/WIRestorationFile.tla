------------------------- MODULE WIRestorationFile -------------------------
(***************************************************************************)
(* The restoration file of a wallet: exportRestorationFile and             *)
(* initHDWalletWithFile of WIHDWallet.m with WISaveDataWithFile.m.         *)
(*                                                                         *)
(* An export appends one line to the file, the mnemonics and the index     *)
(* encrypted with the restore password, whether or not there is a wallet   *)
(* to export, and always answers YES.  An import reads a file of exactly   *)
(* one line; after the answer of the import itself it always calls back    *)
(* once more, with NO.                                                     *)
(***************************************************************************)
EXTENDS WIHDWallet

CONSTANTS
  RestorePwds,
  NoMnemonics    \* "(null)": nil, formatted

ASSUME FileAssumption == NoMnemonics \in BadMnemonics

VARIABLES
  file,       \* the first line of the file and how many there are; Nil: no file
  exported,   \* the mnemonics of the wallet that was open at the latest export
  answers     \* what the callback of the last import was called with, in order

fileVars == <<file, exported, answers>>

-----------------------------------------------------------------------------
ManyLines == 2   \* two lines or more

\* __getMnemonics: the open wallet's; Nil without a wallet or a session.
GetMnemonics ==
  IF IsHDWalletCreated /\ keyStore # Nil
  THEN LoadMnemonics(keychain[keyStore], unlockPwd)
  ELSE Nil

ExportText ==
  IF GetMnemonics = Nil
  THEN [mnemonics |-> NoMnemonics, index |-> 0]
  ELSE [mnemonics |-> GetMnemonics, index |-> keychain[keyStore].index]

\* writeContentWithFileName: goes to the end of the file.
Appended(line) ==
  IF file = Nil THEN [line |-> line, lines |-> 1] ELSE [file EXCEPT !.lines = ManyLines]

\* readContentWithFileName and what the import makes of it.
ReadContent_FirstLine(f) == IF f = Nil THEN Nil ELSE f.line
ReadContent(f) == IF f # Nil /\ f.lines = 1 THEN f.line ELSE Nil

Decrypted(restorePwd) ==
  IF ReadContent(file) = Nil
  THEN Nil
  ELSE AesDecrypt(ReadContent(file), HashTwice(restorePwd))

-----------------------------------------------------------------------------
\* exportRestorationFile; a file that cannot be created is not noticed.
ExportRestorationFile(restorePwd, written) ==
  /\ file' = IF written THEN Appended(AesEncrypt(ExportText, HashTwice(restorePwd)))
             ELSE file
  /\ exported' = IF written THEN GetMnemonics ELSE exported
  /\ answers' = <<>>
  /\ UNCHANGED walletVars

\* initHDWalletWithFile, on a file that can be read and decrypted: the import of
\* its mnemonics, which replaces the current wallet.
InitHDWalletWithFile(restorePwd, unlock, refused) ==
  /\ Decrypted(restorePwd) # Nil
  /\ LET text == Decrypted(restorePwd)
     IN /\ \/ ImportHDWallet(text.mnemonics, text.index, unlock, TRUE, refused)
           \/ ImportBadMnemonics(text.mnemonics)
        /\ answers' = <<MasterKey(text.mnemonics) # Nil
                          /\ BatchAddDone(LifecycleItems, refused), FALSE>>
  /\ UNCHANGED <<file, exported>>

InitHDWalletWithBadFile(restorePwd) ==
  /\ Decrypted(restorePwd) = Nil
  /\ answers' = <<FALSE>>
  /\ UNCHANGED <<walletVars, file, exported>>

-----------------------------------------------------------------------------
FileInit ==
  /\ WalletInit
  /\ file = Nil
  /\ exported = Nil
  /\ answers = <<>>

\* Any other step of the wallet.  A user may have copied the file out of the app.
OtherStep ==
  /\ WalletNext
  /\ answers' = <<>>
  /\ UNCHANGED <<file, exported>>

AppRemovedWithFile ==
  /\ Reinstall
  /\ file' = Nil
  /\ exported' = Nil
  /\ answers' = <<>>

FileNext ==
  \/ \E restorePwd \in RestorePwds :
       \/ \E written \in BOOLEAN : ExportRestorationFile(restorePwd, written)
       \/ \E unlock \in UnlockPwds, refused \in Refusals(LifecycleItems) :
            InitHDWalletWithFile(restorePwd, unlock, refused)
       \/ InitHDWalletWithBadFile(restorePwd)
  \/ OtherStep
  \/ AppRemovedWithFile

FileSpec == FileInit /\ [][FileNext]_<<walletVars, fileVars>>

-----------------------------------------------------------------------------
(***************************************************************************)
(* Properties.                                                             *)
(***************************************************************************)

\* The first answer of initHDWalletWithFile tells what happened, though a NO
\* always follows it: after a YES the open wallet is the one that was exported
\* last, never an older line of the file, under the new unlock password; after a
\* NO the wallet is the one before.
ImportRestores ==
  [][answers' # <<>> =>
       IF answers'[1]
       THEN /\ inited'
            /\ \E pwd \in UnlockPwds : IsWallet(keychain'[current'], exported, pwd)
       ELSE current' = current /\ inited' = inited]_<<walletVars, fileVars>>

-----------------------------------------------------------------------------
(***************************************************************************)
(* The inductive invariant behind ImportRestores.                          *)
(***************************************************************************)
Texts == [mnemonics : Mnemonics \cup {NoMnemonics}, index : Nat]
Lines == {AesEncrypt(t, HashTwice(r)) : t \in Texts, r \in RestorePwds}

\* A file is what exports made it, and its only line is the latest export.
FileTypeOK == file \in [line : Lines, lines : {1, ManyLines}] \cup {Nil}

OnlyLineIsLatest ==
  /\ exported \in Mnemonics \cup {Nil}
  /\ file # Nil /\ file.lines = 1 =>
       file.line.content.mnemonics = IF exported = Nil THEN NoMnemonics ELSE exported

FileInv == WalletInv /\ FileTypeOK /\ OnlyLineIsLatest
=============================================================================
