------------------------------ MODULE PackageTrust ------------------------------
(***************************************************************************)
(* mods/package_trust.cpp: three code patches that open the package         *)
(* integrity gates, put in one after the other and taken out in the         *)
(* opposite order.  runtime.cpp calls install and uninstall under its lock. *)
(***************************************************************************)
EXTENDS CodePatch

TrustSites == {"header", "extended", "cached"}

(* The early return, and the scan.  The patterns cover the bytes that are  *)
(* patched, so the scan finds a gate only while its code is the game's; in *)
(* another build it finds nothing.                                         *)
TrustInstall ==
    /\ pc = "trust::install"
    /\ \/ /\ TrustSites \subseteq known
          /\ Return(TRUE)
          /\ UNCHANGED <<known, saved, todo>>
       \/ /\ ~(TrustSites \subseteq known)
          /\ Return(FALSE)
          /\ UNCHANGED <<known, saved, todo>>
       \/ /\ ~(TrustSites \subseteq known)
          /\ \A s \in TrustSites : site[s] = "stock"
          /\ known' = known \cup TrustSites
          /\ saved' = [s \in DOMAIN saved |-> IF s \in TrustSites THEN site[s] ELSE saved[s]]
          /\ Go("trust patch", <<"header", "extended", "cached">>)
          /\ UNCHANGED ok
    /\ UNCHANGED <<site, owing, refusals>>

(* The patches that are in when the write of s fails, the last one first.  *)
TrustPatched(s) ==
    CASE s = "header"   -> <<>>
      [] s = "extended" -> <<"header">>
      [] s = "cached"   -> <<"extended", "header">>

TrustPatch == PutIn("trust patch", "trust undo", TrustPatched(Head(todo)))

TrustUninstallPartly ==     \* fault: the first gate is not put back
    /\ pc = "trust::uninstall"
    /\ Go("trust restore", When("cached") \o When("extended"))
    /\ ok' = TRUE
    /\ UNCHANGED <<site, known, saved, owing, refusals>>

TrustUninstall ==
    /\ pc = "trust::uninstall"
    /\ Go("trust restore", When("cached") \o When("extended") \o When("header"))
    /\ ok' = TRUE
    /\ UNCHANGED <<site, known, saved, owing, refusals>>

Trust ==
    \/ TrustInstall
    \/ TrustPatch
    \/ AllIn("trust patch")
    \/ RollBack("trust undo")
    \/ RolledBack("trust undo", TrustSites)
    \/ TrustUninstall
    \/ TakeOut("trust restore")
    \/ AllOut("trust restore", TrustSites)
================================================================================
