------------------------------- MODULE GateCalls -------------------------------
(***************************************************************************)
(* What core/runtime.cpp has to reckon with when it calls install or        *)
(* uninstall of a component that patches the game's code, as one step per   *)
(* call.  Runtime is built from these steps; PatchGates shows that the      *)
(* calls of package_trust.cpp and tls_policy.cpp are such steps.            *)
(***************************************************************************)
VARIABLES
    gates,          \* the components with a patch in the code, or with an address
                    \* that they take for one
    faulty          \* history: those left so by a call that should have cleaned up

(* ok is the answer.  A failed install has normally been taken back; when   *)
(* the memory cannot be written any more the patch stays.  A component that *)
(* an earlier uninstall could not clean may be found as it was left.        *)
InstallGate(gate, requested, mayFail, ok) ==
    \/ /\ ok /\ gate \notin gates
       /\ gates' = IF requested THEN gates \cup {gate} ELSE gates
       /\ UNCHANGED faulty
    \/ /\ gate \in gates
       /\ ok \/ mayFail
       /\ UNCHANGED <<gates, faulty>>
    \/ /\ ~ok /\ gate \notin gates
       /\ requested /\ mayFail
       /\ \/ UNCHANGED <<gates, faulty>>
          \/ gates' = gates \cup {gate} /\ faulty' = faulty \cup {gate}

UninstallGate(gate, mayFail) ==
    \/ gates' = gates \ {gate} /\ UNCHANGED faulty
    \/ /\ gate \in gates /\ mayFail
       /\ faulty' = faulty \cup {gate}
       /\ UNCHANGED gates
================================================================================
