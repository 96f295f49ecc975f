------------------------------- MODULE SkuStart -------------------------------
(***************************************************************************)
(* The part of runtime::initialize that decides about the SKU               *)
(* configuration: modloader.ini is created from the embedded defaults when  *)
(* it is missing, sku/policy.cpp reads in it whether to open the gate, and  *)
(* prepare_sku reads in it, later and again, whether to convert             *)
(* sku_config.txt.  Both files are shared with other loaders, of which the  *)
(* gates are not looked at, and with the user.  The conversion is one step  *)
(* here and the subject of SkuFile.                                        *)
(***************************************************************************)
EXTENDS SkuPolicy

CONSTANTS
    Us,             \* the loader whose gate SkuPolicy is about
    Others,         \* loaders of other games beside the same files
    Nobody,         \* no loader
    NoFile,         \* what is at the path of a missing modloader.ini
    MayFail,        \* whether file operations may fail
    MaxStarts,      \* bound: starts of a loader
    MaxDeaths,      \* bound: processes that end anywhere
    MaxEdits        \* bound: files that the user saves

Loaders == Others \cup {Us}

ASSUME SkuStartAssumption ==
    /\ Us \notin Others /\ Nobody \notin Loaders
    /\ MayFail \in BOOLEAN
    /\ MaxStarts \in Nat /\ MaxDeaths \in Nat /\ MaxEdits \in Nat

VARIABLES
    config,         \* modloader.ini: NoFile, or the values that are read in it
    holder,         \* the loader that has it open, for nobody else
    document,       \* sku_config.txt: "encrypted" or "plaintext"
    place,          \* where each loader is
    changed,        \* history: whether what is read has changed since Look
    starts, deaths, edits   \* what is left of the bounds

files == <<config, holder, document>>
bounds == <<starts, deaths, edits>>
policyVars == vars
startVars == <<policyVars, files, place, changed, bounds>>

(* An empty or missing file has the defaults of the calls that read it,     *)
(* which are not those of modloader.ini.example.                           *)
CodeDefaults == [unsigned |-> 0, decrypt |-> 1]
FileDefaults == [unsigned |-> 1, decrypt |-> 1]
Settings == [unsigned : {0, 1}, decrypt : {0, 1}]

(* GetPrivateProfileIntW gives its default when the file cannot be opened. *)
Setting(key) == IF config = NoFile \/ holder # Nobody THEN CodeDefaults[key] ELSE config[key]

StartInit ==
    /\ Init
    /\ config = NoFile
    /\ holder = Nobody
    /\ document = "encrypted"
    /\ place = [l \in Loaders |-> "down"]
    /\ changed = FALSE
    /\ starts = MaxStarts /\ deaths = MaxDeaths /\ edits = MaxEdits

At(l, label) == place[l] = label
To(l, label) == place' = [place EXCEPT ![l] = label]

--------------------------------------------------------------------------------
(* create_default_configuration, of any loader.                            *)

Ready(l) == IF l = Us THEN "policy" ELSE "up"

Begin(l) ==
    /\ At(l, "down")
    /\ starts > 0
    /\ starts' = starts - 1
    /\ To(l, "create")
    /\ UNCHANGED <<policyVars, files, changed, deaths, edits>>

(* CREATE_NEW: an existing file is as good as one's own, even while another *)
(* loader has it open.                                                     *)
Create(l) ==
    /\ At(l, "create")
    /\ \/ /\ config = NoFile
          /\ config' = CodeDefaults
          /\ holder' = l
          /\ To(l, "write")
          /\ UNCHANGED changed
       \/ /\ config # NoFile
          /\ To(l, Ready(l))
          /\ UNCHANGED <<config, holder, changed>>
       \/ /\ MayFail
          /\ To(l, "down")
          /\ UNCHANGED <<config, holder, changed>>
    /\ UNCHANGED <<policyVars, document, bounds>>

(* WriteFile, FlushFileBuffers and CloseHandle.  A failure leaves any part. *)
WriteDefaults(l) ==
    /\ At(l, "write")
    /\ holder' = Nobody
    /\ \/ /\ config' = FileDefaults
          /\ To(l, Ready(l))
       \/ /\ MayFail
          /\ config' \in {CodeDefaults, FileDefaults}
          /\ To(l, "delete")
    /\ changed' = TRUE
    /\ UNCHANGED <<policyVars, document, bounds>>

DeletePartial(l) ==
    /\ At(l, "delete")
    /\ \/ config' = NoFile /\ changed' = TRUE
       \/ MayFail /\ UNCHANGED <<config, changed>>
    /\ To(l, "down")
    /\ UNCHANGED <<policyVars, holder, document, bounds>>

--------------------------------------------------------------------------------
(* sku::policy::install and the test of its result.                        *)
InstallPolicy ==
    /\ At(Us, "policy")
    /\ Install
    /\ To(Us, "opening")
    /\ UNCHANGED <<files, changed, bounds>>

(* Look, now with the configuration that it reads.                         *)
LookAsConfigured ==
    /\ At(Us, "opening")
    /\ Look
    /\ IF Setting("unsigned") = 0 THEN pc' = "idle" /\ answer'
       ELSE pc' = "idle" => ~answer'
    /\ changed' = FALSE
    /\ UNCHANGED <<files, place, bounds>>

SetGateStep ==
    /\ Protect \/ Exchange \/ Restore
    /\ UNCHANGED <<files, place, changed, bounds>>

PolicyIgnored ==    \* fault: the result of install is not tested
    /\ At(Us, "opening")
    /\ pc = "idle"
    /\ To(Us, "auto")
    /\ UNCHANGED <<policyVars, files, changed, bounds>>

PolicyReturned ==
    /\ At(Us, "opening")
    /\ pc = "idle"
    /\ To(Us, IF answer THEN "auto" ELSE "down")
    /\ UNCHANGED <<policyVars, files, changed, bounds>>

(* The other patches come next, and may fail: initialize unwinds.          *)
OtherPartFails ==
    /\ At(Us, "auto")
    /\ To(Us, "close")
    /\ UNCHANGED <<policyVars, files, changed, bounds>>

--------------------------------------------------------------------------------
(* prepare_sku: two reads, and the conversion.                             *)
ReadAutoDecrypt ==
    /\ At(Us, "auto")
    /\ To(Us, IF Setting("decrypt") = 0 THEN "up" ELSE "unsigned")
    /\ UNCHANGED <<policyVars, files, changed, bounds>>

ReadAllowUnsigned ==
    /\ At(Us, "unsigned")
    /\ To(Us, IF Setting("unsigned") = 0 THEN "up" ELSE "convert")
    /\ UNCHANGED <<policyVars, files, changed, bounds>>

Convert ==
    /\ At(Us, "convert")
    /\ \/ document' = "plaintext" /\ To(Us, "up")
       \/ MayFail /\ To(Us, "close") /\ UNCHANGED document
    /\ UNCHANGED <<policyVars, config, holder, changed, bounds>>

(* runtime::shutdown, and sku::policy::uninstall, whose result is ignored.  *)
Shutdown ==
    /\ At(Us, "up")
    /\ To(Us, "close")
    /\ UNCHANGED <<policyVars, files, changed, bounds>>

UninstallPolicy ==
    /\ At(Us, "close")
    /\ Uninstall
    /\ To(Us, "closing")
    /\ UNCHANGED <<files, changed, bounds>>

Closed ==
    /\ At(Us, "closing")
    /\ pc = "idle"
    /\ To(Us, "down")
    /\ UNCHANGED <<policyVars, files, changed, bounds>>

--------------------------------------------------------------------------------
(* The process ends, wherever it is; the next one has a fresh image.       *)
FreshProcess ==
    /\ \E value \in {0, 1} : gate' = value /\ engine' = value
    /\ protection' = "stock"
    /\ known' = FALSE /\ active' = FALSE /\ original' = 0
    /\ pending' = FALSE /\ restore' = "stock"
    /\ pc' = "idle" /\ purpose' = "install" /\ answer' = TRUE
    /\ disturbed' = FALSE
    /\ UNCHANGED <<calls, writes>>

Die(l) ==
    /\ deaths > 0
    /\ deaths' = deaths - 1
    /\ To(l, "down")
    /\ holder' = IF holder = l THEN Nobody ELSE holder
    /\ changed' = (changed \/ holder = l)
    /\ IF l = Us THEN FreshProcess ELSE UNCHANGED policyVars
    /\ UNCHANGED <<config, document, starts, edits>>

(* What another loader does once it has a configuration.                   *)
OtherConverts ==
    /\ \E l \in Others : At(l, "up")
    /\ document' = "plaintext"
    /\ UNCHANGED <<policyVars, config, holder, place, changed, bounds>>

OtherEnds(l) ==
    /\ At(l, "up")
    /\ To(l, "down")
    /\ UNCHANGED <<policyVars, files, changed, bounds>>

(* The user saves either file.                                             *)
Edit ==
    /\ edits > 0
    /\ edits' = edits - 1
    /\ \/ /\ holder = Nobody
          /\ config' \in Settings
          /\ changed' = TRUE
          /\ UNCHANGED document
       \/ /\ document' = "encrypted"
          /\ UNCHANGED <<config, changed>>
    /\ UNCHANGED <<policyVars, holder, place, starts, deaths>>

EngineWrites == EngineWrite /\ UNCHANGED <<files, place, changed, bounds>>

StartNext ==
    \/ \E l \in Loaders : Begin(l) \/ Create(l) \/ WriteDefaults(l) \/ DeletePartial(l) \/ Die(l)
    \/ InstallPolicy \/ LookAsConfigured \/ SetGateStep \/ PolicyReturned
    \/ OtherPartFails
    \/ ReadAutoDecrypt \/ ReadAllowUnsigned \/ Convert
    \/ Shutdown \/ UninstallPolicy \/ Closed
    \/ OtherConverts
    \/ \E l \in Others : OtherEnds(l)
    \/ Edit
    \/ EngineWrites

StartSpec == StartInit /\ [][StartNext]_startVars

--------------------------------------------------------------------------------
(* sku_config.txt is only converted in a process whose game accepts the     *)
(* result - the policy is "required for auto_decrypt", modloader.ini:11 -   *)
(* as long as modloader.ini reads the same from the test in policy.cpp:87   *)
(* on; and the gate is then open, unless the engine has written to it.      *)
ConvertsAsConfigured ==
    At(Us, "convert") /\ ~changed => active /\ (gate = 0 \/ disturbed)
================================================================================
