-------------------------------- MODULE Patches --------------------------------
(***************************************************************************)
(* How core/runtime.cpp uses the two sets of code patches: initialize       *)
(* installs the package gates and then the TLS policy, and unwinds what is  *)
(* in when a later step fails; shutdown takes both out.  All of it runs     *)
(* under the runtime lock, one call after the other.  Whatever uninstall    *)
(* returns, the runtime goes on.                                            *)
(***************************************************************************)
EXTENDS PackageTrust, TlsPolicy

CONSTANT MaxSessions    \* bound: calls of initialize that find the loader down

ASSUME PatchesAssumption == MaxSessions \in Nat

Sites == TrustSites \cup TlsSites

VARIABLES
    at,             \* where the runtime is
    before,         \* history: the addresses that were set when the session began
    sessions        \* what is left of the bound

runtimeVars == <<at, before, sessions>>
patchVars == <<site, known, saved, pc, todo, ok, owing, refusals, requested>>
vars == <<patchVars, runtimeVars>>

Init ==
    /\ site = [s \in Sites |-> "stock"]
    /\ known = {}
    /\ saved = [s \in Sites |-> "unset"]
    /\ pc = "none" /\ todo = <<>> /\ ok = TRUE
    /\ owing = {}
    /\ refusals = MaxRefusals
    /\ requested = {}
    /\ at = "down"
    /\ before = {}
    /\ sessions = MaxSessions

--------------------------------------------------------------------------------
(* The runtime goes to place and calls what label names.                   *)
Proceed(place, label) ==
    /\ at' = place
    /\ pc' = label
    /\ UNCHANGED <<site, known, saved, todo, ok, owing, refusals, requested>>

Initialize ==
    /\ at = "down" /\ sessions > 0
    /\ sessions' = sessions - 1
    /\ before' = known
    /\ Proceed("trust", "trust::install")

TrustReturned ==
    /\ at = "trust" /\ pc = "returned"
    /\ IF ok THEN Proceed("tls", "tls::install") ELSE Proceed("down", "none")
    /\ UNCHANGED <<before, sessions>>

TlsReturnedNoUnwind ==      \* fault: the package gates stay in
    /\ at = "tls" /\ pc = "returned"
    /\ IF ok THEN Proceed("sku", "none") ELSE Proceed("down", "none")
    /\ UNCHANGED <<before, sessions>>

TlsReturned ==
    /\ at = "tls" /\ pc = "returned"
    /\ IF ok THEN Proceed("sku", "none") ELSE Proceed("close trust", "trust::uninstall")
    /\ UNCHANGED <<before, sessions>>

(* prepare_sku may fail; SkuFile says why.                                 *)
PrepareSku ==
    /\ at = "sku"
    /\ Proceed("up", "none") \/ Proceed("close tls", "tls::uninstall")
    /\ UNCHANGED <<before, sessions>>

Shutdown ==
    /\ at = "up"
    /\ Proceed("close tls", "tls::uninstall")
    /\ UNCHANGED <<before, sessions>>

TlsClosed ==
    /\ at = "close tls" /\ pc = "returned"
    /\ Proceed("close trust", "trust::uninstall")
    /\ UNCHANGED <<before, sessions>>

TrustClosed ==
    /\ at = "close trust" /\ pc = "returned"
    /\ Proceed("down", "none")
    /\ UNCHANGED <<before, sessions>>

Runtime ==
    \/ Initialize
    \/ TrustReturned
    \/ TlsReturned
    \/ PrepareSku
    \/ Shutdown
    \/ TlsClosed
    \/ TrustClosed

Next ==
    \/ Runtime
    \/ Trust /\ UNCHANGED <<requested, runtimeVars>>
    \/ Tls /\ UNCHANGED runtimeVars

Spec == Init /\ [][Next]_vars

--------------------------------------------------------------------------------
(* Properties.                                                             *)

TrustLabels == {"trust::install", "trust patch", "trust undo"}
TlsLabels == {"tls::install", "tls getter", "tls verify", "tls patch", "tls undo"}

(* Where the call in progress may be while the runtime is at a place.      *)
Labels(place) ==
    CASE place = "trust"       -> TrustLabels \cup {"returned"}
      [] place = "tls"         -> TlsLabels \cup {"returned"}
      [] place = "close tls"   -> {"tls::uninstall", "tls restore", "returned"}
      [] place = "close trust" -> {"trust::uninstall", "trust restore", "returned"}
      [] OTHER                 -> {"none"}

(* A list is worked through by the call that made it, and holds no site    *)
(* whose address is not set.                                               *)
TypeOK ==
    /\ site \in [Sites -> Bytes] /\ saved \in [Sites -> SavedBytes]
    /\ known \subseteq Sites /\ owing \subseteq Sites /\ before \subseteq Sites
    /\ requested \in Requests
    /\ at \in {"down", "trust", "tls", "sku", "up", "close tls", "close trust"}
    /\ pc \in Labels(at)
    /\ todo \in Seq(Sites) /\ \A i \in DOMAIN todo : todo[i] \in known
    /\ ok \in BOOLEAN
    /\ refusals \in Nat /\ sessions \in Nat

(* What uninstall writes at a site it knows is the game's own code, even   *)
(* when an earlier, refused write has left a patch behind.                 *)
SavedIsStock == pc # "tls undo" => \A s \in known : saved[s] = "stock"

(* A site that the loader has forgotten is the game's own again, except    *)
(* where Windows refused an install the write or the roll-back.            *)
ForgottenIsClean == \A s \in Sites \ (known \cup owing) : site[s] = "stock"

(* When Windows refuses nothing, every way down, the failed steps of       *)
(* initialize included, leaves the game's code as it was.                  *)
DownIsStock ==
    at = "down" /\ refusals = MaxRefusals =>
        known = {} /\ \A s \in Sites : site[s] = "stock"

(* A session that began without leftovers of an earlier one runs with the  *)
(* package gates open and with exactly those TLS checks patched that the   *)
(* configuration asked for.                                                *)
UpAsRequested ==
    at = "up" =>
        /\ before \cap TrustSites = {} => \A s \in TrustSites : site[s] = "patched"
        /\ before \cap TlsSites = {} =>
              /\ \A s \in requested : site[s] = "patched"
              /\ \A s \in TlsSites \ (requested \cup owing) : site[s] = "stock"

(* "package trust gates unavailable" ends an initialization: one that      *)
(* succeeds has opened them.                                               *)
UpMeansOpen == at = "up" => \A s \in TrustSites : site[s] = "patched"
================================================================================
