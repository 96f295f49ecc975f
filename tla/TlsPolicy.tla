------------------------------- MODULE TlsPolicy -------------------------------
(***************************************************************************)
(* network/tls_policy.cpp: up to three code patches, which ones is up to    *)
(* modloader.ini at the time of the install.  runtime.cpp calls install and *)
(* uninstall under its lock.                                                *)
(***************************************************************************)
EXTENDS CodePatch

(* The custom CA bundle, and the checks of the host name and of the peer.  *)
TlsSites == {"getter", "host", "peer"}

(* remove_pinning asks for the first, allow_self_signed for the others.    *)
Requests == {{}, {"getter"}, {"host", "peer"}, TlsSites}

VARIABLE requested      \* what the configuration asked the last install for

(* The early return, the configuration and the scan.  The pattern of the   *)
(* getter covers the bytes that are patched; that of the options does not. *)
TlsInstall ==
    /\ pc = "tls::install"
    /\ \/ /\ known \cap TlsSites # {}
          /\ Return(TRUE)
          /\ UNCHANGED requested
       \/ /\ known \cap TlsSites = {}
          /\ requested' \in Requests
          /\ \/ requested' = {} /\ Return(TRUE)
             \/ requested' # {} /\ Return(FALSE)
             \/ /\ requested' # {}
                /\ "getter" \in requested' => site["getter"] = "stock"
                /\ pc' = "tls getter" /\ UNCHANGED ok
    /\ UNCHANGED <<site, known, saved, todo, owing, refusals>>

PatchGetter ==
    /\ pc = "tls getter"
    /\ IF "getter" \in requested
         THEN \E done \in BOOLEAN :
                /\ Write("getter", "patched", done)
                /\ saved' = [saved EXCEPT !["getter"] = site["getter"]]
                /\ IF done THEN /\ known' = known \cup {"getter"}
                                /\ pc' = "tls verify" /\ UNCHANGED ok
                           ELSE Return(FALSE) /\ UNCHANGED known
         ELSE pc' = "tls verify" /\ UNCHANGED <<site, known, saved, ok, owing, refusals>>
    /\ UNCHANGED <<todo, requested>>

(* The stock bytes of both checks are compared before either is patched.   *)
VerifyUnchecked ==  \* fault: the bytes that are found are taken for stock
    /\ pc = "tls verify"
    /\ IF "host" \notin requested
         THEN Return(TRUE) /\ UNCHANGED <<known, saved, todo>>
         ELSE /\ known' = known \cup {"host", "peer"}
              /\ saved' = [saved EXCEPT !["host"] = site["host"], !["peer"] = site["peer"]]
              /\ Go("tls patch", <<"host", "peer">>)
              /\ UNCHANGED ok
    /\ UNCHANGED <<site, owing, refusals, requested>>

Verify ==
    /\ pc = "tls verify"
    /\ IF "host" \notin requested
         THEN Return(TRUE) /\ UNCHANGED <<known, saved, todo>>
         ELSE /\ known' = known \cup {"host", "peer"}
              /\ IF site["host"] = "stock" /\ site["peer"] = "stock"
                   THEN /\ saved' = [saved EXCEPT !["host"] = site["host"],
                                                  !["peer"] = site["peer"]]
                        /\ Go("tls patch", <<"host", "peer">>)
                   ELSE Go("tls undo", When("getter")) /\ UNCHANGED saved
              /\ UNCHANGED ok
    /\ UNCHANGED <<site, owing, refusals, requested>>

(* When either write fails both are taken back, then the getter.           *)
TlsPatchedOnly == <<"host", "peer">>    \* fault: the getter is forgotten

TlsPatched == <<"host", "peer">> \o When("getter")

TlsPatch == PutIn("tls patch", "tls undo", TlsPatched) /\ UNCHANGED requested

TlsUninstall ==
    /\ pc = "tls::uninstall"
    /\ Go("tls restore", When("peer") \o When("host") \o When("getter"))
    /\ ok' = TRUE
    /\ UNCHANGED <<site, known, saved, owing, refusals, requested>>

Tls ==
    \/ TlsInstall
    \/ PatchGetter
    \/ Verify
    \/ TlsPatch
    \/ TlsUninstall
    \/ /\ \/ AllIn("tls patch")
          \/ RollBack("tls undo")
          \/ RolledBack("tls undo", TlsSites)
          \/ TakeOut("tls restore")
          \/ AllOut("tls restore", TlsSites)
       /\ UNCHANGED requested
================================================================================
