------------------------------- MODULE PatchGates -------------------------------
(***************************************************************************)
(* Patches, watched as Runtime sees it: package gates and TLS policy as two  *)
(* gates that each call of install or uninstall changes in one step.        *)
(***************************************************************************)
EXTENDS Patches, GateCalls

Gates == {"pkg", "tls"}

SitesOf(gate) == IF gate = "pkg" THEN TrustSites ELSE TlsSites

(* The gate whose component works while the runtime is at a place.         *)
GateAt(place) == IF place \in {"trust", "close trust"} THEN "pkg" ELSE "tls"

gateVars == <<vars, gates, faulty>>

GatesInit == Init /\ gates = {} /\ faulty = {}

Returns == pc # "returned" /\ pc' = "returned"

(* Installs, and whether the configuration asked for anything.             *)
Installing == at \in {"trust", "tls"}

Asked == at = "trust" \/ requested' # {}

(* What a call has left is seen when it returns.                           *)
GatesNext ==
    /\ Next
    /\ IF Returns
         THEN LET gate == GateAt(at)
                  left == \E s \in SitesOf(gate) : site'[s] = "patched" \/ s \in known'
              IN  /\ gates' = IF left THEN gates \cup {gate} ELSE gates \ {gate}
                  /\ faulty' = IF left /\ (~Installing \/ (~ok' /\ gate \notin gates))
                                 THEN faulty \cup {gate} ELSE faulty
         ELSE UNCHANGED <<gates, faulty>>

GatesSpec == GatesInit /\ [][GatesNext]_gateVars

--------------------------------------------------------------------------------
(* Every call of the two components is a step that Runtime reckons with     *)
(* (runtime.cpp:128-156, 171-182), and without a refused write it leaves    *)
(* nothing behind that it should have cleaned up.                          *)
CallsAreGateSteps ==
    [][Returns =>
        IF Installing
          THEN /\ InstallGate(GateAt(at), Asked, TRUE, ok')
               /\ refusals' = MaxRefusals => UNCHANGED faulty
          ELSE UninstallGate(GateAt(at), refusals' < MaxRefusals)]_gateVars
================================================================================
