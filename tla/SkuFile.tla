-------------------------------- MODULE SkuFile --------------------------------
(***************************************************************************)
(* sku/file.cpp: decrypt_file, which runtime.cpp's prepare_sku calls on the *)
(* sku_config.txt beside the game.  The state is three files in one         *)
(* directory (the configuration, its backup and a temporary file), shared   *)
(* by every running loader and by whoever edits the configuration.  Each    *)
(* call of the operating system is one step; a loader may die between any   *)
(* two.  Whoever reads the configuration has it open and denies the others  *)
(* its replacement; so that they can step in, opening it is a step of its   *)
(* own.  What the codec does to a document is reduced to its format: both   *)
(* encrypted formats are treated alike.                                     *)
(***************************************************************************)
EXTENDS Naturals

CONSTANTS
    Loaders,        \* processes that run the loader
    Texts,          \* the texts a configuration may have
    Faults,         \* which of "backup", "write", "replace" may fail, and
                    \* whether a failed replacement may lose the file ("lose")
    WatchfulEditor, \* whether editors keep out of the moment before a replacement
    MaxCalls,       \* bound: calls of each loader
    MaxEdits,       \* bound: edits
    MaxCrashes,     \* bound: crashes
    MaxFaults       \* bound: calls of the operating system that fail

Absent == [format |-> "absent"]
Damaged == [format |-> "damaged"]   \* cut short: it neither decodes nor validates
Encrypted(text) == [format |-> "encrypted", text |-> text]
Plain(text) == [format |-> "plaintext", text |-> text]

Documents == {Damaged} \cup {Encrypted(t) : t \in Texts} \cup {Plain(t) : t \in Texts}
Files == Documents \cup {Absent}

ASSUME SkuFileAssumption ==
    /\ Faults \subseteq {"backup", "write", "replace", "lose"}
    /\ WatchfulEditor \in BOOLEAN
    /\ MaxCalls \in Nat /\ MaxEdits \in Nat /\ MaxCrashes \in Nat /\ MaxFaults \in Nat

VARIABLES
    path,           \* sku_config.txt
    backup,         \* sku_config.txt.encrypted.bak
    temporary,      \* sku_config.txt.decrypting
    pc,             \* where each loader is in decrypt_file
    bytes,          \* what it read at first
    stale,          \* history: the loaders since whose read somebody has edited
    result,         \* how its last call ended
    refused,        \* history: whether a reader has made a replacement fail
    calls, edits, crashes, faults   \* what is left of the bounds

files == <<path, backup, temporary>>
bounds == <<calls, edits, crashes, faults>>
reading == <<bytes, stale>>
vars == <<files, pc, reading, result, refused, bounds>>

Go(l, label) == pc' = [pc EXCEPT ![l] = label]

Return(l, outcome) ==
    /\ Go(l, "idle")
    /\ result' = [result EXCEPT ![l] = outcome]

Throw(l) == Return(l, "failed")

(* A call of the operating system fails.                                   *)
Fails(kind) ==
    /\ kind \in Faults
    /\ faults > 0
    /\ faults' = faults - 1

(* The loaders that have path open: in the ifstream of read, or as the      *)
(* source of CopyFileW.  Neither lets others delete or rename the file.    *)
Readers == {l \in Loaders : pc[l] \in {"read", "backup", "copying"}}

(* Inside ReplaceFileW path cannot be opened, and may be gone for a moment. *)
ReplacedByOther(l) == \E k \in Loaders \ {l} : pc[k] = "replace"

Init ==
    /\ path \in {Encrypted(t) : t \in Texts}
    /\ backup = Absent
    /\ temporary = Absent
    /\ pc = [l \in Loaders |-> "idle"]
    /\ bytes = [l \in Loaders |-> Absent]
    /\ stale = {}
    /\ result = [l \in Loaders |-> "none"]
    /\ refused = FALSE
    /\ calls = [l \in Loaders |-> MaxCalls]
    /\ edits = MaxEdits
    /\ crashes = MaxCrashes
    /\ faults = MaxFaults

--------------------------------------------------------------------------------
(* prepare_sku finds the file, or skips the conversion.                    *)
Begin(l) ==
    /\ pc[l] = "idle"
    /\ calls[l] > 0
    /\ calls' = [calls EXCEPT ![l] = @ - 1]
    /\ \/ /\ path # Absent
          /\ Go(l, "open")
          /\ result' = [result EXCEPT ![l] = "none"]
       \/ /\ path = Absent \/ ReplacedByOther(l)
          /\ Return(l, "skipped")
    /\ UNCHANGED <<files, reading, refused, edits, crashes, faults>>

(* read opens path.                                                        *)
Open(l) ==
    /\ pc[l] = "open"
    /\ \/ /\ path # Absent
          /\ Go(l, "read")
          /\ UNCHANGED result
       \/ /\ path = Absent \/ ReplacedByOther(l)
          /\ Throw(l)
    /\ UNCHANGED <<files, reading, refused, bounds>>

(* read, decode and validate.                                              *)
Read(l) ==
    /\ pc[l] = "read"
    /\ bytes' = [bytes EXCEPT ![l] = path]
    /\ stale' = stale \ {l}
    /\ CASE path.format = "plaintext" -> Return(l, "plaintext")
         [] path.format = "encrypted" -> Go(l, "copy") /\ UNCHANGED result
         [] OTHER -> Throw(l)
    /\ UNCHANGED <<files, refused, bounds>>

(* CopyFileW opens path.                                                   *)
Copy(l) ==
    /\ pc[l] = "copy"
    /\ \/ /\ path # Absent
          /\ Go(l, "backup")
          /\ UNCHANGED <<result, faults>>
       \/ /\ \/ Fails("backup")
             \/ (path = Absent \/ ReplacedByOther(l)) /\ UNCHANGED faults
          /\ Throw(l)
    /\ UNCHANGED <<files, reading, refused, calls, edits, crashes>>

(* CopyFileW creates the backup, told not to overwrite one.                *)
CreateBackup(l) ==
    /\ pc[l] = "backup"
    /\ \/ /\ backup # Absent
          /\ Go(l, "compare")
          /\ UNCHANGED <<backup, result, faults>>
       \/ /\ backup = Absent
          /\ backup' = Damaged
          /\ Go(l, "copying")
          /\ UNCHANGED <<result, faults>>
       \/ /\ Fails("backup")
          /\ Throw(l)
          /\ UNCHANGED backup
    /\ UNCHANGED <<path, temporary, reading, refused, calls, edits, crashes>>

(* While CopyFileW runs the backup is there and incomplete; when it fails   *)
(* it leaves none.                                                         *)
Copying(l) ==
    /\ pc[l] = "copying"
    /\ \/ /\ backup' = path
          /\ Go(l, "create")
          /\ UNCHANGED <<result, faults>>
       \/ /\ Fails("backup")
          /\ backup' = Absent
          /\ Throw(l)
    /\ UNCHANGED <<path, temporary, reading, refused, calls, edits, crashes>>

(* An existing backup must hold what was read.                             *)
CompareNothing(l) ==    \* fault: an existing backup is taken as it is
    /\ pc[l] = "compare"
    /\ Go(l, "create")
    /\ UNCHANGED <<files, reading, result, refused, bounds>>

Compare(l) ==
    /\ pc[l] = "compare"
    /\ IF backup = bytes[l] THEN Go(l, "create") /\ UNCHANGED result ELSE Throw(l)
    /\ UNCHANGED <<files, reading, refused, bounds>>

(* CreateFileW with CREATE_NEW: somebody's temporary file, or one that a   *)
(* crash left behind, ends the call and stays.                             *)
CreateAlways(l) ==      \* fault: CREATE_ALWAYS
    /\ pc[l] = "create"
    /\ temporary' = Damaged
    /\ Go(l, "write")
    /\ UNCHANGED <<path, backup, reading, result, refused, bounds>>

CreateOrDiscard(l) ==   \* fault: the file is deleted on every failure
    /\ pc[l] = "create"
    /\ IF temporary = Absent THEN temporary' = Damaged /\ Go(l, "write")
       ELSE UNCHANGED temporary /\ Go(l, "discard")
    /\ UNCHANGED <<path, backup, reading, result, refused, bounds>>

Create(l) ==
    /\ pc[l] = "create"
    /\ \/ /\ temporary = Absent
          /\ temporary' = Damaged
          /\ Go(l, "write")
          /\ UNCHANGED <<result, faults>>
       \/ /\ Fails("write") \/ (temporary # Absent /\ UNCHANGED faults)
          /\ Throw(l)
          /\ UNCHANGED temporary
    /\ UNCHANGED <<path, backup, reading, refused, calls, edits, crashes>>

(* WriteFile and FlushFileBuffers.                                         *)
Write(l) ==
    /\ pc[l] = "write"
    /\ \/ temporary' = Plain(bytes[l].text) /\ Go(l, "check") /\ UNCHANGED faults
       \/ Fails("write") /\ Go(l, "discard") /\ UNCHANGED temporary
    /\ UNCHANGED <<path, backup, reading, result, refused, calls, edits, crashes>>

(* "Check that the original has not been edited".                          *)
CheckNothing(l) ==      \* fault: the second read forgotten
    /\ pc[l] = "check"
    /\ Go(l, "replace")
    /\ UNCHANGED <<files, reading, result, refused, bounds>>

Check(l) ==
    /\ pc[l] = "check"
    /\ Go(l, IF path = bytes[l] THEN "replace" ELSE "discard")
    /\ UNCHANGED <<files, reading, result, refused, bounds>>

(* ReplaceFileW, given no name for the replaced file: it renames the       *)
(* temporary file to path.  It may fail and leave both, or fail after the  *)
(* replaced file is gone (ERROR_UNABLE_TO_MOVE_REPLACEMENT).  While another *)
(* loader reads path it always fails, and leaves both.                     *)
Replace(l) ==
    /\ pc[l] = "replace"
    /\ \/ /\ Readers = {} /\ Absent \notin {path, temporary}
          /\ path' = temporary /\ temporary' = Absent
          /\ Return(l, "converted")
          /\ UNCHANGED <<refused, faults>>
       \/ /\ Readers # {}
          /\ refused' = TRUE
          /\ Go(l, "discard")
          /\ UNCHANGED <<path, temporary, result, faults>>
       \/ /\ Fails("replace") \/ (Absent \in {path, temporary} /\ UNCHANGED faults)
          /\ Go(l, "discard")
          /\ UNCHANGED <<path, temporary, result, refused>>
       \/ /\ Readers = {} /\ Fails("lose")
          /\ path' = Absent
          /\ Go(l, "discard")
          /\ UNCHANGED <<temporary, result, refused>>
    /\ UNCHANGED <<backup, reading, calls, edits, crashes>>

(* DeleteFileW(temporary) on the way out.                                  *)
Discard(l) ==
    /\ pc[l] = "discard"
    /\ temporary' = Absent
    /\ Throw(l)
    /\ UNCHANGED <<path, backup, reading, refused, bounds>>

DecryptFile(l) ==
    \/ Open(l)
    \/ Read(l)
    \/ Copy(l)
    \/ CreateBackup(l)
    \/ Copying(l)
    \/ Compare(l)
    \/ Create(l)
    \/ Write(l)
    \/ Check(l)
    \/ Replace(l)
    \/ Discard(l)

--------------------------------------------------------------------------------
(* The world around the loaders.                                           *)

Crash(l) ==
    /\ pc[l] # "idle"
    /\ crashes > 0
    /\ crashes' = crashes - 1
    /\ Return(l, "crashed")
    /\ UNCHANGED <<files, reading, refused, calls, edits, faults>>

Edit ==
    /\ edits > 0
    /\ edits' = edits - 1
    /\ WatchfulEditor => \A l \in Loaders : pc[l] # "replace"
    /\ path' \in Documents \ {path}
    /\ stale' = Loaders
    /\ UNCHANGED <<backup, temporary, pc, bytes, result, refused, calls, crashes, faults>>

Next ==
    \/ \E l \in Loaders : Begin(l) \/ DecryptFile(l) \/ Crash(l)
    \/ Edit

Spec == Init /\ [][Next]_vars

(* Each loader is a process that the scheduler lets run, and starts a call *)
(* as often as the bound says.                                             *)
Fairness == \A l \in Loaders : WF_vars(Begin(l) \/ DecryptFile(l))

FairSpec == Spec /\ Fairness

--------------------------------------------------------------------------------
(* Properties.                                                             *)

OwnerLabels == {"write", "check", "replace", "discard"}
CopiedLabels == {"create"} \cup OwnerLabels
ReadLabels == {"copy", "backup", "copying", "compare"} \cup CopiedLabels
Labels == {"idle", "open", "read"} \cup ReadLabels

TypeOK ==
    /\ path \in Files /\ backup \in Files /\ temporary \in Files
    /\ pc \in [Loaders -> Labels]
    /\ bytes \in [Loaders -> Files] /\ stale \subseteq Loaders
    /\ \A l \in Loaders :
        pc[l] \in ReadLabels => bytes[l] \in {Encrypted(t) : t \in Texts}
    /\ result \in [Loaders -> {"none", "skipped", "plaintext", "converted", "failed",
                               "crashed"}]
    /\ refused \in BOOLEAN
    /\ calls \in [Loaders -> 0 .. MaxCalls]
    /\ edits \in 0 .. MaxEdits
    /\ crashes \in 0 .. MaxCrashes
    /\ faults \in 0 .. MaxFaults

(* The temporary file belongs to one call: two loaders never write, check, *)
(* move or delete it at the same time, and what a crash left behind is     *)
(* nobody's and is not touched (CREATE_NEW in decrypt_file).               *)
OneOwner ==
    \A l \in Loaders : pc[l] \in OwnerLabels =>
        /\ temporary # Absent
        /\ \A k \in Loaders : pc[k] \in OwnerLabels => k = l

(* decrypt_file replaces nothing but the document it has converted: "Check *)
(* that the original has not been edited while preparing its replacement." *)
Converts(l) == pc[l] = "replace" /\ pc'[l] = "idle" /\ result'[l] = "converted"

OnlyTheOriginalIsReplaced ==
    [][\A l \in Loaders : Converts(l) =>
            path = bytes[l] /\ path' = Plain(path.text)]_vars

(* "original saved as sku_config.txt.encrypted.bak" (runtime.cpp:61): when  *)
(* decrypt_file has converted a document, the backup holds it, whatever     *)
(* other loaders did and left behind.  CopyFileW reads the file again, so   *)
(* the message is wrong when somebody edits after the first read and takes  *)
(* the edit back before the second one.                                    *)
OriginalIsBackedUp ==
    [][\A l \in Loaders \ stale : Converts(l) => backup = bytes[l]]_vars

(* "existing backups are never overwritten".                               *)
BackupsAreNeverOverwritten ==
    [][backup \notin {Absent, Damaged} => backup' = backup]_vars

(* As long as nobody edits, the options survive crashes, competing loaders *)
(* and failures of every step: they can be read from the file or from the  *)
(* backup.                                                                 *)
OptionsSurvive ==
    edits = MaxEdits =>
        \E t \in Texts : path \in {Encrypted(t), Plain(t)} \/ backup = Encrypted(t)

(* Loaders that start at the same time may hinder each other: one denies    *)
(* the other its replacement by reading the file, and throws at that one's  *)
(* temporary file.  But that is all that keeps the file from being          *)
(* converted when nothing fails and nobody edits, and it leaves nothing     *)
(* behind: a call that no other loader interferes with any more converts.  *)
Undisturbed == edits = MaxEdits /\ crashes = MaxCrashes /\ faults = MaxFaults

Unrivalled ==
    \E l \in Loaders :
        pc[l] = "open" /\ \A k \in Loaders \ {l} : pc[k] = "idle" /\ calls[k] = 0

OneLoaderConverts ==
    []Undisturbed /\ ([]~refused \/ <>Unrivalled) => <>[](path.format = "plaintext")
================================================================================
