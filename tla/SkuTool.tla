-------------------------------- MODULE SkuTool --------------------------------
(***************************************************************************)
(* sku/main.cpp: sku_config.exe, one command per process, with files that   *)
(* somebody edits in the meantime.  Each file that is read, created or      *)
(* written is a step; a call of the operating system may fail and the       *)
(* process may die.  A command line that wmain does not accept touches no   *)
(* file and is left out.                                                   *)
(***************************************************************************)
EXTENDS Codec

CONSTANTS
    Paths,
    NoFile,         \* what is at a path without a file
    NoPath,         \* no --template
    RetailFiles,    \* the files that the game's vendor has signed
    Disks,          \* what the files are at first
    Commands,       \* records [verb, in, out, template, force]
    Edits,          \* pairs of a path and a text that somebody may save there
    MaxRuns,        \* bound: commands
    MaxEdits,       \* bound: edits
    MaxFaults       \* bound: failures and deaths of the process

IsFile(content) == content \in Seq(Range(content))

(* At first only the vendor's files are signed, and editors write texts.    *)
ASSUME SkuToolAssumption ==
    /\ \A retail \in RetailFiles : IsFile(retail)
    /\ \A d \in Disks :
           /\ d = [p \in Paths |-> d[p]]
           /\ \A p \in Paths :
                  d[p] # NoFile =>
                      IsFile(d[p]) /\ (IsSigned(d[p]) => d[p] \in RetailFiles)
    /\ \A c \in Commands :
           /\ c.verb \in {"view", "check", "decode", "encode"}
           /\ c.in \in Paths /\ c.out \in Paths /\ c.template \in Paths \cup {NoPath}
           /\ c.force \in BOOLEAN
    /\ \A e \in Edits : e[1] \in Paths /\ IsFile(e[2]) /\ ~IsSigned(e[2])
    /\ MaxRuns \in Nat /\ MaxEdits \in Nat /\ MaxFaults \in Nat

VARIABLES
    disk,       \* what is at each path
    pc,         \* "idle", "read", a verb, "template", "create" or "write"
    command,
    document,   \* the decoded input
    output,     \* the bytes to save
    result,     \* "none", "running", "done", "refused" or "broken off"
    before,     \* history: the disk as the command found it, with later edits
    runs, edits, faults     \* what is left of the bounds

work == <<command, document, output>>
vars == <<disk, pc, work, result, before, runs, edits, faults>>

Init ==
    /\ disk \in Disks
    /\ pc = "idle"
    /\ command = [verb |-> "none"]
    /\ document = Rejected
    /\ output = << >>
    /\ result = "none"
    /\ before = disk
    /\ runs = MaxRuns
    /\ edits = MaxEdits
    /\ faults = MaxFaults

Fails == faults > 0 /\ faults' = faults - 1

Return(outcome) == pc' = "idle" /\ result' = outcome
Throw == Return("refused") /\ UNCHANGED disk
Proceed(label) == pc' = label /\ UNCHANGED <<disk, result>>

--------------------------------------------------------------------------------
Begin(c) ==
    /\ pc = "idle"
    /\ runs > 0
    /\ runs' = runs - 1
    /\ command' = c
    /\ pc' = "read"
    /\ result' = "running"
    /\ before' = disk
    /\ UNCHANGED <<disk, document, output, edits, faults>>

(* The input is read and decoded.                                          *)
Read ==
    /\ pc = "read"
    /\ LET input == disk[command.in]
           decoded == IF input = NoFile THEN Rejected ELSE Decode(input)
       IN  /\ document' = decoded
           /\ \/ decoded # Rejected /\ Proceed(command.verb) /\ UNCHANGED faults
              \/ decoded = Rejected /\ Throw /\ UNCHANGED faults
              \/ Fails /\ Throw
    /\ UNCHANGED <<command, output, before, runs, edits>>

View ==
    /\ pc = "view"
    /\ Return("done")
    /\ UNCHANGED <<disk, work, before, runs, edits, faults>>

Check ==
    /\ pc = "check"
    /\ Return(IF Validates(document.text) THEN "done" ELSE "refused")
    /\ UNCHANGED <<disk, work, before, runs, edits, faults>>

DecodeText ==
    /\ pc = "decode"
    /\ output' = document.text
    /\ Proceed("create")
    /\ UNCHANGED <<command, document, before, runs, edits, faults>>

EncodeText ==
    /\ pc = "encode"
    /\ \/ /\ document.format # "plaintext" \/ ~Validates(document.text)
          /\ Throw
          /\ UNCHANGED output
       \/ /\ document.format = "plaintext"
          /\ Validates(document.text)
          /\ output' = Encrypt(Padded(document.text))
          /\ Proceed(IF command.template = NoPath THEN "create" ELSE "template")
    /\ UNCHANGED <<command, document, before, runs, edits, faults>>

SameSize(retail, bytes) ==      \* fault: the payloads are not compared
    Len(retail) = Len(bytes) + HeaderSize

SamePayload(retail, bytes) ==
    /\ Len(retail) = Len(bytes) + HeaderSize
    /\ SubSeq(retail, HeaderSize + 1, Len(retail)) = bytes

TemplateTooLate ==      \* fault: the output is created before the template is checked
    /\ pc = "template"
    /\ LET retail == disk[command.template]
           usable == /\ retail # NoFile
                     /\ Decode(retail).format = "signed"
                     /\ SamePayload(retail, output)
       IN  \/ /\ usable
              /\ output' = SubSeq(retail, 1, HeaderSize) \o output
              /\ Proceed("create")
           \/ /\ ~usable
              /\ disk' = [disk EXCEPT ![command.out] =
                             IF @ = NoFile \/ command.force THEN << >> ELSE @]
              /\ Return("refused")
              /\ UNCHANGED output
    /\ UNCHANGED <<command, document, before, runs, edits, faults>>

(* --template: the header of a signed file is taken over when the payload   *)
(* is the very same.                                                       *)
Template ==
    /\ pc = "template"
    /\ LET retail == disk[command.template]
           usable == /\ retail # NoFile
                     /\ Decode(retail).format = "signed"
                     /\ SamePayload(retail, output)
       IN  \/ /\ usable
              /\ output' = SubSeq(retail, 1, HeaderSize) \o output
              /\ Proceed("create")
              /\ UNCHANGED faults
           \/ /\ (~usable /\ UNCHANGED faults) \/ Fails
              /\ Throw
              /\ UNCHANGED output
    /\ UNCHANGED <<command, document, before, runs, edits>>

(* save: CREATE_NEW, or CREATE_ALWAYS with --force.                         *)
Create ==
    /\ pc = "create"
    /\ LET allowed == command.force \/ disk[command.out] = NoFile
       IN  \/ /\ allowed
              /\ disk' = [disk EXCEPT ![command.out] = << >>]
              /\ pc' = "write"
              /\ UNCHANGED <<result, faults>>
           \/ /\ (~allowed /\ UNCHANGED faults) \/ Fails
              /\ Throw
    /\ UNCHANGED <<work, before, runs, edits>>

(* WriteFile and FlushFileBuffers; a failure leaves any part of the output. *)
Write ==
    /\ pc = "write"
    /\ \/ /\ disk' = [disk EXCEPT ![command.out] = output]
          /\ Return("done")
          /\ UNCHANGED faults
       \/ /\ Fails
          /\ \E prefix \in Prefixes(output) :
                 disk' = [disk EXCEPT ![command.out] = prefix]
          /\ Return("broken off")
    /\ UNCHANGED <<work, before, runs, edits>>

--------------------------------------------------------------------------------
(* The process dies.  In Write it leaves what a failure leaves.            *)
Die ==
    /\ pc \notin {"idle", "write"}
    /\ Fails
    /\ Throw
    /\ UNCHANGED <<work, before, runs, edits>>

(* Somebody saves a text.  The output is open for nobody else.             *)
Edit(p, text) ==
    /\ edits > 0
    /\ edits' = edits - 1
    /\ ~(pc = "write" /\ p = command.out)
    /\ disk' = [disk EXCEPT ![p] = text]
    /\ before' = [before EXCEPT ![p] = text]
    /\ result' = IF pc = "idle" THEN "none" ELSE result
    /\ UNCHANGED <<pc, work, runs, faults>>

Next ==
    \/ \E c \in Commands : Begin(c)
    \/ Read \/ View \/ Check \/ DecodeText \/ EncodeText
    \/ Template \/ Create \/ Write
    \/ Die
    \/ \E e \in Edits : Edit(e[1], e[2])

Spec == Init /\ [][Next]_vars

--------------------------------------------------------------------------------
(* A file with a signature header is one that the vendor has signed, or the *)
(* beginning of one: the tool never lets a header stand before an edited    *)
(* payload (the message of main.cpp:114), whatever was broken off before.   *)
SignedIsRetail ==
    \A p \in Paths :
        disk[p] # NoFile /\ IsSigned(disk[p]) =>
            \E retail \in RetailFiles : disk[p] \in Prefixes(retail)

(* A command changes no file but its output, that one only if it did not    *)
(* exist or with --force, and nothing at all when it refuses: every check   *)
(* comes before the output is created (save and its callers).              *)
OthersAreLeftAlone ==
    pc = "idle" =>
        /\ \A p \in Paths :
               disk[p] # before[p] =>
                   p = command.out /\ (command.force \/ before[p] = NoFile)
        /\ result = "refused" => disk = before

(* What a command saved can be read again and holds the text of its input,  *)
(* up to the limit of the size and at every length modulo the block size.   *)
OutputsAreFaithful ==
    result = "done" /\ command.verb \in {"decode", "encode"} =>
        Decode(disk[command.out]).text = document.text

(* A text that check or encode accepts gives each option at most once,      *)
(* however its key is spelled (signon_url twice), the required ones all,    *)
(* and a default language that both masks include.                         *)
AcceptedFitsTheClient ==
    result = "done" /\ command.verb \in {"check", "encode"} =>
        LET text == document.text
        IN  /\ \A key \in Known :
                   Cardinality(Lines(text, key)) <= (IF key = "signon_url" THEN 2 ELSE 1)
            /\ Required \subseteq {text[i][1] : i \in DOMAIN text}
            /\ \E language \in 0 .. 12 :
                   /\ Option(text, "default_language") = language
                   /\ Includes(Option(text, "ui_language"), language)
                   /\ Includes(Option(text, "audio_language"), language)
================================================================================
