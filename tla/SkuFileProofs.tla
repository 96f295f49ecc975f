----------------------------- MODULE SkuFileProofs -----------------------------
(***************************************************************************)
(* What SkuFile promises, for every number of loaders, texts, calls, edits,   *)
(* crashes and failures.                                                    *)
(***************************************************************************)
EXTENDS SkuFile, TLAPS

(* The four kinds of file are told apart by their format.                  *)
LEMMA Formats ==
    /\ Absent.format = "absent" /\ Damaged.format = "damaged"
    /\ \A t : Encrypted(t).format = "encrypted" /\ Encrypted(t).text = t
    /\ \A t : Plain(t).format = "plaintext" /\ Plain(t).text = t
BY DEF Absent, Damaged, Encrypted, Plain

LEMMA Kinds ==
    ASSUME NEW f \in Files
    PROVE  /\ f.format = "encrypted" => f \in {Encrypted(t) : t \in Texts}
           /\ f.format = "plaintext" => f \in {Plain(t) : t \in Texts}
           /\ f.format \notin {"encrypted", "plaintext", "absent"} => f = Damaged
           /\ f.format = "absent" <=> f = Absent
BY Formats DEF Files, Documents

(* A file that somebody reads is there.  The backup while it is being made: *)
(* its maker is alone, and nobody has gone past the backup yet.            *)
OneCopier ==
    \A l \in Loaders :
        /\ l \in Readers => path # Absent
        /\ pc[l] = "copying" =>
              /\ backup = Damaged
              /\ \A k \in Loaders : pc[k] \in {"copying"} \cup CopiedLabels => k = l
        /\ pc[l] \in CopiedLabels => backup # Absent

(* The temporary file holds the text of the document that its owner read.  *)
Written ==
    \A l \in Loaders :
        pc[l] \in {"check", "replace"} => temporary = Plain(bytes[l].text)

(* The bound on failures is spent one by one.                              *)
LEMMA FaultsAreSpent ==
    ASSUME faults \in 0 .. MaxFaults, NEW kind, Fails(kind)
    PROVE  faults' \in 0 .. MaxFaults
BY SkuFileAssumption DEF Fails

--------------------------------------------------------------------------------
(* Every variable keeps its type; in particular a loader that goes on has  *)
(* read an encrypted document.                                             *)
THEOREM TypeCorrect == Spec => []TypeOK
<1>1. Init => TypeOK
  <2> SUFFICES ASSUME Init PROVE TypeOK
      OBVIOUS
  <2>1. /\ path \in Files /\ backup \in Files /\ temporary \in Files
        /\ bytes \in [Loaders -> Files]
      BY DEF Init, Files, Documents
  <2>2. refused \in BOOLEAN
      BY DEF Init
  <2>3. /\ calls \in [Loaders -> 0 .. MaxCalls] /\ edits \in 0 .. MaxEdits
        /\ crashes \in 0 .. MaxCrashes /\ faults \in 0 .. MaxFaults
      BY SkuFileAssumption DEF Init
  <2>4. /\ pc \in [Loaders -> Labels] /\ stale \subseteq Loaders
        /\ \A l \in Loaders : pc[l] \notin ReadLabels
        /\ result \in [Loaders -> {"none", "skipped", "plaintext", "converted", "failed",
                                   "crashed"}]
      BY DEF Init, Labels, ReadLabels, CopiedLabels, OwnerLabels
  <2> QED
      BY <2>1, <2>2, <2>3, <2>4, Zenon DEF TypeOK
<1>2. TypeOK /\ [Next]_vars => TypeOK'
  <2> SUFFICES ASSUME TypeOK, [Next]_vars PROVE TypeOK'
      OBVIOUS
  <2> USE SkuFileAssumption DEF TypeOK, Labels, ReadLabels, CopiedLabels, OwnerLabels, files,
          bounds, reading, Go, Return, Throw
  <2>1. ASSUME NEW l \in Loaders, Begin(l) PROVE TypeOK'
      BY <2>1 DEF Begin
  <2>1a. ASSUME NEW l \in Loaders, Open(l) PROVE TypeOK'
      BY <2>1a DEF Open
  <2>2. ASSUME NEW l \in Loaders, Read(l) PROVE TypeOK'
    <3>1. CASE path.format = "encrypted"
        BY <2>2, <3>1, Kinds DEF Read
    <3>2. CASE path.format # "encrypted"
        BY <2>2, <3>2 DEF Read
    <3> QED
        BY <3>1, <3>2
  <2>3. ASSUME NEW l \in Loaders, Copy(l) PROVE TypeOK'
    <3>1. faults' \in 0 .. MaxFaults
        BY <2>3, FaultsAreSpent DEF Copy
    <3> QED
        BY <2>3, <3>1 DEF Copy
  <2>3a. ASSUME NEW l \in Loaders, CreateBackup(l) PROVE TypeOK'
    <3>1. faults' \in 0 .. MaxFaults
        BY <2>3a, FaultsAreSpent DEF CreateBackup
    <3> QED
        BY <2>3a, <3>1 DEF CreateBackup, Files, Documents
  <2>4. ASSUME NEW l \in Loaders, Copying(l) PROVE TypeOK'
    <3>1. faults' \in 0 .. MaxFaults
        BY <2>4, FaultsAreSpent DEF Copying
    <3> QED
        BY <2>4, <3>1 DEF Copying, Files
  <2>5. ASSUME NEW l \in Loaders, Compare(l) PROVE TypeOK'
      BY <2>5 DEF Compare
  <2>6. ASSUME NEW l \in Loaders, Create(l) PROVE TypeOK'
    <3>1. faults' \in 0 .. MaxFaults
        BY <2>6, FaultsAreSpent DEF Create
    <3> QED
        BY <2>6, <3>1 DEF Create, Files, Documents
  <2>7. ASSUME NEW l \in Loaders, Write(l) PROVE TypeOK'
    <3>1. Plain(bytes[l].text) \in Files
        BY <2>7, Formats DEF Write, Files, Documents
    <3>2. faults' \in 0 .. MaxFaults
        BY <2>7, FaultsAreSpent DEF Write
    <3> QED
        BY <2>7, <3>1, <3>2 DEF Write
  <2>8. ASSUME NEW l \in Loaders, Check(l) PROVE TypeOK'
      BY <2>8 DEF Check
  <2>9. ASSUME NEW l \in Loaders, Replace(l) PROVE TypeOK'
    <3>1. faults' \in 0 .. MaxFaults
        BY <2>9, FaultsAreSpent DEF Replace
    <3> QED
        BY <2>9, <3>1 DEF Replace, Files
  <2>10. ASSUME NEW l \in Loaders, Discard(l) PROVE TypeOK'
      BY <2>10 DEF Discard, Files
  <2>11. ASSUME NEW l \in Loaders, Crash(l) PROVE TypeOK'
      BY <2>11 DEF Crash
  <2>12. CASE Edit
      BY <2>12 DEF Edit, Files
  <2>13. CASE UNCHANGED vars
      BY <2>13 DEF vars
  <2> QED
      BY <2>1, <2>1a, <2>2, <2>3, <2>3a, <2>4, <2>5, <2>6, <2>7, <2>8, <2>9, <2>10, <2>11,
         <2>12, <2>13
         DEF Next, DecryptFile
<1> QED
    BY <1>1, <1>2, PTL DEF Spec

(* The temporary file never has two owners, and an owner's file is there.  *)
THEOREM TemporaryHasOneOwner == Spec => []OneOwner
<1>1. Init => OneOwner
    BY DEF Init, OneOwner, OwnerLabels
<1>2. TypeOK /\ OneOwner /\ [Next]_vars => OneOwner'
  <2> SUFFICES ASSUME TypeOK, OneOwner, [Next]_vars PROVE OneOwner'
      OBVIOUS
  <2> USE DEF OneOwner, OwnerLabels, files, bounds, reading, Go, Return, Throw
  <2>0. pc \in [Loaders -> Labels]
      BY DEF TypeOK
  <2>1. ASSUME NEW l \in Loaders, Begin(l) \/ Open(l) \/ Read(l) \/ Copy(l)
                                  \/ CreateBackup(l) \/ Copying(l) \/ Compare(l) \/ Crash(l)
        PROVE  OneOwner'
      BY <2>0, <2>1 DEF Begin, Open, Read, Copy, CreateBackup, Copying, Compare, Crash
  <2>2. ASSUME NEW l \in Loaders, Create(l) PROVE OneOwner'
      BY <2>0, <2>2, Formats DEF Create
  <2>3. ASSUME NEW l \in Loaders, Write(l) \/ Check(l) PROVE OneOwner'
      BY <2>0, <2>3, Formats DEF Write, Check
  <2>4. ASSUME NEW l \in Loaders, Replace(l) \/ Discard(l) PROVE OneOwner'
      BY <2>0, <2>4 DEF Replace, Discard
  <2>5. CASE Edit
      BY <2>5 DEF Edit
  <2>6. CASE UNCHANGED vars
      BY <2>6 DEF vars
  <2> QED
      BY <2>1, <2>2, <2>3, <2>4, <2>5, <2>6 DEF Next, DecryptFile
<1> QED
    BY <1>1, <1>2, TypeCorrect, PTL DEF Spec

LEMMA OneCopierHolds == Spec => []OneCopier
<1>1. Init => OneCopier
    BY DEF Init, OneCopier, Readers, CopiedLabels, OwnerLabels
<1>2. TypeOK /\ OneCopier /\ [Next]_vars => OneCopier'
  <2> SUFFICES ASSUME TypeOK, OneCopier, [Next]_vars PROVE OneCopier'
      OBVIOUS
  <2> USE DEF OneCopier, Readers, CopiedLabels, OwnerLabels, files, bounds, reading, Go,
          Return, Throw
  <2>0. pc \in [Loaders -> Labels]
      BY DEF TypeOK
  <2>1. ASSUME NEW l \in Loaders, Begin(l) \/ Open(l) \/ Read(l) \/ Copy(l) \/ Crash(l)
        PROVE  OneCopier'
      BY <2>0, <2>1 DEF Begin, Open, Read, Copy, Crash
  <2>2. ASSUME NEW l \in Loaders, CreateBackup(l) PROVE OneCopier'
      BY <2>0, <2>2, Formats DEF CreateBackup
  <2>3. ASSUME NEW l \in Loaders, Copying(l) PROVE OneCopier'
      BY <2>0, <2>3 DEF Copying
  <2>4. ASSUME NEW l \in Loaders, Compare(l) PROVE OneCopier'
    <3>1. bytes[l] # Damaged /\ bytes[l] # Absent
        BY <2>4, Formats DEF Compare, TypeOK, ReadLabels
    <3> QED
        BY <2>0, <2>4, <3>1 DEF Compare
  <2>5. ASSUME NEW l \in Loaders, Create(l) \/ Write(l) \/ Check(l) PROVE OneCopier'
      BY <2>0, <2>5 DEF Create, Write, Check
  <2>6. ASSUME NEW l \in Loaders, Replace(l) \/ Discard(l) PROVE OneCopier'
      BY <2>0, <2>6 DEF Replace, Discard
  <2>7. CASE Edit
      BY <2>7, Formats DEF Edit, Documents
  <2>8. CASE UNCHANGED vars
      BY <2>8 DEF vars
  <2> QED
      BY <2>1, <2>2, <2>3, <2>4, <2>5, <2>6, <2>7, <2>8 DEF Next, DecryptFile
<1> QED
    BY <1>1, <1>2, TypeCorrect, PTL DEF Spec

(* No step changes a complete backup.                                      *)
THEOREM BackupsStay == Spec => BackupsAreNeverOverwritten
<1>1. TypeOK /\ OneCopier /\ [Next]_vars =>
        [backup \notin {Absent, Damaged} => backup' = backup]_vars
  <2> SUFFICES ASSUME OneCopier, Next, backup \notin {Absent, Damaged}
               PROVE  backup' = backup
      BY DEF vars
  <2>1. ASSUME NEW l \in Loaders, Copying(l) PROVE FALSE
      BY <2>1 DEF Copying, OneCopier
  <2> QED
      BY <2>1 DEF Next, DecryptFile, Begin, Open, Read, Copy, CreateBackup, Compare, Create,
                  Write, Check, Replace, Discard, Crash, Edit, files
<1> QED
    BY <1>1, TypeCorrect, OneCopierHolds, PTL DEF Spec, BackupsAreNeverOverwritten

LEMMA WrittenHolds == Spec => []Written
<1>1. Init => Written
    BY DEF Init, Written
<1>2. TypeOK /\ OneOwner /\ Written /\ [Next]_vars => Written'
  <2> SUFFICES ASSUME TypeOK, OneOwner, Written, [Next]_vars PROVE Written'
      OBVIOUS
  <2> USE DEF Written, OneOwner, OwnerLabels, files, bounds, reading, Go, Return, Throw
  <2>0. pc \in [Loaders -> Labels] /\ bytes \in [Loaders -> Files]
      BY DEF TypeOK
  <2>1. ASSUME NEW l \in Loaders, Begin(l) \/ Open(l) \/ Read(l) \/ Copy(l)
                                  \/ CreateBackup(l) \/ Copying(l) \/ Compare(l) \/ Crash(l)
        PROVE  Written'
      BY <2>0, <2>1 DEF Begin, Open, Read, Copy, CreateBackup, Copying, Compare, Crash
  <2>2. ASSUME NEW l \in Loaders, Create(l) PROVE Written'
      BY <2>0, <2>2 DEF Create
  <2>3. ASSUME NEW l \in Loaders, Write(l) \/ Check(l) PROVE Written'
      BY <2>0, <2>3 DEF Write, Check
  <2>4. ASSUME NEW l \in Loaders, Replace(l) \/ Discard(l) PROVE Written'
      BY <2>0, <2>4 DEF Replace, Discard
  <2>5. CASE Edit
      BY <2>5 DEF Edit
  <2>6. CASE UNCHANGED vars
      BY <2>6 DEF vars
  <2> QED
      BY <2>1, <2>2, <2>3, <2>4, <2>5, <2>6 DEF Next, DecryptFile
<1> QED
    BY <1>1, <1>2, TypeCorrect, TemporaryHasOneOwner, PTL DEF Spec

--------------------------------------------------------------------------------
(* Between the second read and the replacement the document stays what it  *)
(* was, if editors keep out of that moment.                                *)
Unedited == \A l \in Loaders : pc[l] = "replace" => path = bytes[l]

LEMMA UneditedHolds ==
    ASSUME WatchfulEditor
    PROVE  Spec => []Unedited
<1>1. Init => Unedited
    BY DEF Init, Unedited
<1>2. TypeOK /\ OneOwner /\ Unedited /\ [Next]_vars => Unedited'
  <2> SUFFICES ASSUME TypeOK, OneOwner, Unedited, [Next]_vars PROVE Unedited'
      OBVIOUS
  <2> USE DEF Unedited, OneOwner, OwnerLabels, files, bounds, reading, Go, Return, Throw
  <2>0. pc \in [Loaders -> Labels] /\ bytes \in [Loaders -> Files]
      BY DEF TypeOK
  <2>1. ASSUME NEW l \in Loaders, Begin(l) \/ Open(l) \/ Read(l) \/ Copy(l)
                                  \/ CreateBackup(l) \/ Copying(l) \/ Compare(l) \/ Crash(l)
        PROVE  Unedited'
      BY <2>0, <2>1 DEF Begin, Open, Read, Copy, CreateBackup, Copying, Compare, Crash
  <2>2. ASSUME NEW l \in Loaders, Create(l) \/ Write(l) \/ Check(l) PROVE Unedited'
      BY <2>0, <2>2 DEF Create, Write, Check
  <2>3. ASSUME NEW l \in Loaders, Replace(l) \/ Discard(l) PROVE Unedited'
      BY <2>0, <2>3 DEF Replace, Discard
  <2>4. CASE Edit
      BY <2>4 DEF Edit
  <2>5. CASE UNCHANGED vars
      BY <2>5 DEF vars
  <2> QED
      BY <2>1, <2>2, <2>3, <2>4, <2>5 DEF Next, DecryptFile
<1> QED
    BY <1>1, <1>2, TypeCorrect, TemporaryHasOneOwner, PTL DEF Spec

(* A conversion is a step of Replace that succeeds.                        *)
LEMMA Conversion ==
    ASSUME NEW l \in Loaders, TypeOK, Next, Converts(l)
    PROVE  path' = temporary /\ Replace(l)
<1> USE DEF Converts, Go, Return, Throw
<1>0. pc \in [Loaders -> Labels] /\ result \in [Loaders -> {"none", "skipped", "plaintext",
                                             "converted", "failed", "crashed"}]
    BY DEF TypeOK
<1>1. ASSUME NEW k \in Loaders, Begin(k) \/ Open(k) \/ Read(k) \/ Copy(k)
                                \/ CreateBackup(k) \/ Copying(k) \/ Compare(k) \/ Crash(k)
      PROVE  FALSE
    BY <1>0, <1>1 DEF Begin, Open, Read, Copy, CreateBackup, Copying, Compare, Crash
<1>2. ASSUME NEW k \in Loaders, Create(k) \/ Write(k) \/ Check(k) \/ Discard(k)
      PROVE  FALSE
    BY <1>0, <1>2 DEF Create, Write, Check, Discard
<1>3. ASSUME Edit PROVE FALSE
    BY <1>3 DEF Edit
<1>4. ASSUME NEW k \in Loaders, Replace(k) PROVE path' = temporary /\ k = l
    BY <1>0, <1>4 DEF Replace
<1> QED
    BY <1>1, <1>2, <1>3, <1>4 DEF Next, DecryptFile

(* decrypt_file replaces only the document that it converted, and with its *)
(* text, unless somebody edits between the check and the replacement.      *)
THEOREM ReplacesTheOriginal ==
    ASSUME WatchfulEditor
    PROVE  Spec => OnlyTheOriginalIsReplaced
<1>1. TypeOK /\ Written /\ Unedited /\ [Next]_vars =>
        [\A l \in Loaders : Converts(l) => path = bytes[l] /\ path' = Plain(path.text)]_vars
  <2> SUFFICES ASSUME TypeOK, Written, Unedited, Next, NEW l \in Loaders, Converts(l)
               PROVE  path = bytes[l] /\ path' = Plain(path.text)
      OBVIOUS
  <2> QED
      BY Conversion DEF Written, Unedited, Converts
<1> QED
    BY <1>1, TypeCorrect, WrittenHolds, UneditedHolds, PTL DEF Spec, OnlyTheOriginalIsReplaced

--------------------------------------------------------------------------------
(* A loader since whose read nobody has edited finds the document that it   *)
(* read, unless another one has converted it: then there is a complete      *)
(* backup, and nobody is copying.  Past the backup, the backup is the      *)
(* document.                                                               *)
BackedUp ==
    \A l \in Loaders \ stale :
        /\ pc[l] \in {"copy", "backup", "copying"} =>
              \/ path = bytes[l]
              \/ backup # Absent /\ \A k \in Loaders : pc[k] # "copying"
        /\ pc[l] \in CopiedLabels => backup = bytes[l]

LEMMA BackedUpHolds == Spec => []BackedUp
<1>1. Init => BackedUp
    BY DEF Init, BackedUp, CopiedLabels, OwnerLabels
<1>2. TypeOK /\ OneCopier /\ BackedUp /\ [Next]_vars => BackedUp'
  <2> SUFFICES ASSUME TypeOK, OneCopier, BackedUp, [Next]_vars PROVE BackedUp'
      OBVIOUS
  <2> USE DEF BackedUp, OneCopier, CopiedLabels, OwnerLabels, files, bounds, reading,
          Go, Return, Throw
  <2>0. pc \in [Loaders -> Labels] /\ bytes \in [Loaders -> Files] /\ stale \subseteq Loaders
      BY DEF TypeOK
  <2>1. ASSUME NEW l \in Loaders, Begin(l) \/ Open(l) \/ Copy(l) \/ Crash(l) PROVE BackedUp'
      BY <2>0, <2>1 DEF Begin, Open, Copy, Crash
  <2>2. ASSUME NEW l \in Loaders, Read(l) PROVE BackedUp'
      BY <2>0, <2>2 DEF Read
  <2>3. ASSUME NEW l \in Loaders, CreateBackup(l) PROVE BackedUp'
      BY <2>0, <2>3, Formats DEF CreateBackup
  <2>4. ASSUME NEW l \in Loaders, Copying(l) PROVE BackedUp'
      BY <2>0, <2>4 DEF Copying
  <2>5. ASSUME NEW l \in Loaders, Compare(l) PROVE BackedUp'
      BY <2>0, <2>5 DEF Compare
  <2>6. ASSUME NEW l \in Loaders, Create(l) \/ Write(l) \/ Check(l) PROVE BackedUp'
      BY <2>0, <2>6 DEF Create, Write, Check
  <2>7. ASSUME NEW l \in Loaders, Replace(l) \/ Discard(l) PROVE BackedUp'
      BY <2>0, <2>7 DEF Replace, Discard
  <2>8. CASE Edit
      BY <2>8 DEF Edit
  <2>9. CASE UNCHANGED vars
      BY <2>9 DEF vars
  <2> QED
      BY <2>1, <2>2, <2>3, <2>4, <2>5, <2>6, <2>7, <2>8, <2>9 DEF Next, DecryptFile
<1> QED
    BY <1>1, <1>2, TypeCorrect, OneCopierHolds, PTL DEF Spec

(* "original saved as sku_config.txt.encrypted.bak": when the document has  *)
(* been converted, the backup holds it, if nobody edited since it was read. *)
THEOREM ConvertedIsBackedUp == Spec => OriginalIsBackedUp
<1>1. TypeOK /\ BackedUp /\ [Next]_vars =>
        [\A l \in Loaders \ stale : Converts(l) => backup = bytes[l]]_vars
    BY DEF BackedUp, Converts, CopiedLabels, OwnerLabels
<1> QED
    BY <1>1, TypeCorrect, BackedUpHolds, PTL DEF Spec, OriginalIsBackedUp

--------------------------------------------------------------------------------
(* What the files hold of the text t while nobody edits.                   *)
Kept(t) ==
    /\ path \in {Encrypted(t), Plain(t), Absent}
    /\ path # Encrypted(t) => backup = Encrypted(t)
    /\ \A l \in Loaders : pc[l] \in ReadLabels => bytes[l] = Encrypted(t)
    /\ \A l \in Loaders : pc[l] \in CopiedLabels => backup = Encrypted(t)

KeptSoFar == edits = MaxEdits => \E t \in Texts : Kept(t)

(* The options that the file holds at first can be read from the file or   *)
(* the backup, whatever loaders do and whichever of their steps fails.     *)
THEOREM OptionsAreKept == Spec => []OptionsSurvive
<1>1. Init => KeptSoFar
    BY DEF Init, KeptSoFar, Kept, ReadLabels, CopiedLabels, OwnerLabels
<1>2. TypeOK /\ OneCopier /\ Written /\ KeptSoFar /\ [Next]_vars => KeptSoFar'
  <2> SUFFICES ASSUME TypeOK, OneCopier, Written, KeptSoFar, [Next]_vars, edits' = MaxEdits
               PROVE  \E t \in Texts : Kept(t)'
      BY DEF KeptSoFar
  <2>a. edits = MaxEdits /\ ~Edit
      BY SkuFileAssumption
         DEF TypeOK, Next, DecryptFile, Begin, Open, Read, Copy, CreateBackup, Copying,
             Compare, Create, Write, Check, Replace, Discard, Crash, Edit, bounds, vars
  <2>b. PICK t \in Texts : Kept(t)
      BY <2>a DEF KeptSoFar
  <2> SUFFICES Kept(t)'
      OBVIOUS
  <2> USE <2>b DEF Kept, ReadLabels, CopiedLabels, OwnerLabels, files, reading, Go, Return, Throw
  <2>0. pc \in [Loaders -> Labels] /\ bytes \in [Loaders -> Files]
      BY DEF TypeOK
  <2>1. ASSUME NEW l \in Loaders, Begin(l) \/ Open(l) \/ Copy(l) \/ Crash(l) PROVE Kept(t)'
      BY <2>0, <2>1 DEF Begin, Open, Copy, Crash
  <2>2. ASSUME NEW l \in Loaders, Read(l) PROVE Kept(t)'
      BY <2>0, <2>2, Formats DEF Read
  <2>3. ASSUME NEW l \in Loaders, CreateBackup(l) PROVE Kept(t)'
      BY <2>0, <2>3, Formats DEF CreateBackup
  <2>4. ASSUME NEW l \in Loaders, Copying(l) PROVE Kept(t)'
    <3>1. path = Encrypted(t) /\ \A k \in Loaders : pc[k] \in CopiedLabels => k = l
        BY <2>4, Formats DEF Copying, OneCopier
    <3> QED
        BY <2>0, <2>4, <3>1, Formats DEF Copying
  <2>5. ASSUME NEW l \in Loaders, Compare(l) PROVE Kept(t)'
      BY <2>0, <2>5 DEF Compare
  <2>6. ASSUME NEW l \in Loaders, Create(l) \/ Write(l) \/ Check(l) PROVE Kept(t)'
      BY <2>0, <2>6 DEF Create, Write, Check
  <2>7. ASSUME NEW l \in Loaders, Replace(l) PROVE Kept(t)'
    <3>1. temporary = Plain(t)
        BY <2>7, Formats DEF Replace, Written
    <3> QED
        BY <2>0, <2>7, <3>1 DEF Replace
  <2>8. ASSUME NEW l \in Loaders, Discard(l) PROVE Kept(t)'
      BY <2>0, <2>8 DEF Discard
  <2>9. CASE UNCHANGED vars
      BY <2>9 DEF vars
  <2> QED
      BY <2>a, <2>1, <2>2, <2>3, <2>4, <2>5, <2>6, <2>7, <2>8, <2>9 DEF Next, DecryptFile
<1>3. KeptSoFar => OptionsSurvive
    BY DEF KeptSoFar, Kept, OptionsSurvive
<1> QED
    BY <1>1, <1>2, <1>3, TypeCorrect, OneCopierHolds, WrittenHolds, PTL DEF Spec
================================================================================
