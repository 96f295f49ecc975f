------------------------------- MODULE SkuPolicy -------------------------------
(***************************************************************************)
(* sku/policy.cpp: the byte in the game that asks for a signature on the    *)
(* SKU configuration, and the protection of the page it lies in.  install   *)
(* and uninstall run under the runtime lock, one call at a time; the engine *)
(* owns the byte and may write it between any two steps, and Windows may    *)
(* refuse any change of protection.                                         *)
(***************************************************************************)
EXTENDS Naturals

CONSTANTS
    EngineValues,   \* what the engine may write into the byte
    MayRefuse,      \* whether VirtualProtect may fail
    MaxCalls,       \* bound: calls of install and uninstall
    MaxWrites       \* bound: writes of the engine

ASSUME SkuPolicyAssumption ==
    /\ EngineValues \subseteq {0, 1}
    /\ MayRefuse \in BOOLEAN
    /\ MaxCalls \in Nat /\ MaxWrites \in Nat

VARIABLES
    gate,           \* the byte
    protection,     \* of its page: "stock" or "writable"
    known,          \* whether g_gate is set
    original,       \* g_original
    active,         \* g_active
    pending,        \* g_protectionPending
    restore,        \* g_restoreProtection
    pc,             \* where the call in progress is; set_gate is "protect",
                    \* "exchange" and "restore"
    purpose,        \* what set_gate was called for: "install" to open the gate;
                    \* "retry", "undo" or "uninstall" to give it back
    answer,         \* what the last call returned
    engine,         \* history: the engine's own value of the byte
    disturbed,      \* history: the engine wrote since install read the byte
    calls, writes   \* what is left of the bounds

memory == <<gate, protection>>
globals == <<known, original, active, pending, restore>>
history == <<engine, disturbed>>
vars == <<memory, globals, pc, purpose, answer, history, calls, writes>>

Init ==
    /\ gate \in {0, 1} /\ engine = gate
    /\ protection = "stock"
    /\ known = FALSE /\ active = FALSE /\ original = 0
    /\ pending = FALSE /\ restore = "stock"
    /\ pc = "idle" /\ purpose = "install" /\ answer = TRUE
    /\ disturbed = FALSE
    /\ calls = MaxCalls /\ writes = MaxWrites

Return(value) == pc' = "idle" /\ answer' = value

SetGate(why) == pc' = "protect" /\ purpose' = why

--------------------------------------------------------------------------------
(* install and uninstall.                                                  *)

InstallWithoutRetry ==  \* fault: a byte still held from before is not given back
    /\ pc = "idle"
    /\ calls > 0
    /\ calls' = calls - 1
    /\ IF active THEN Return(TRUE) ELSE pc' = "look" /\ UNCHANGED answer
    /\ UNCHANGED <<purpose, memory, globals, history, writes>>

Install ==
    /\ pc = "idle"
    /\ calls > 0
    /\ calls' = calls - 1
    /\ \/ active /\ Return(TRUE) /\ UNCHANGED purpose
       \/ ~active /\ known /\ SetGate("retry") /\ UNCHANGED answer
       \/ ~active /\ ~known /\ pc' = "look" /\ UNCHANGED <<purpose, answer>>
    /\ UNCHANGED <<memory, globals, history, writes>>

(* The configuration, the scan, the checks of the address and the value,   *)
(* and the value kept for later.                                           *)
Look ==
    /\ pc = "look"
    /\ \/ /\ \E value \in BOOLEAN : Return(value)   \* not requested, or not found
          /\ UNCHANGED <<purpose, known, original, disturbed>>
       \/ /\ original' = gate
          /\ known' = TRUE
          /\ disturbed' = FALSE
          /\ SetGate("install")
          /\ UNCHANGED answer
    /\ UNCHANGED <<memory, active, pending, restore, engine, calls, writes>>

Uninstall ==
    /\ pc = "idle"
    /\ calls > 0
    /\ calls' = calls - 1
    /\ IF known
         THEN active' = FALSE /\ SetGate("uninstall") /\ UNCHANGED answer
         ELSE Return(TRUE) /\ UNCHANGED <<active, purpose>>
    /\ UNCHANGED <<memory, known, original, pending, restore, history, writes>>

--------------------------------------------------------------------------------
(* set_gate.                                                               *)

(* What install and uninstall do with its result.  After a failed install  *)
(* the byte is given back at once, and the result of that is ignored.      *)
Succeed ==
    CASE purpose = "install"   -> active' = TRUE /\ UNCHANGED <<known, purpose>> /\ Return(TRUE)
      [] purpose = "retry"     -> known' = FALSE /\ pc' = "look" /\ UNCHANGED <<active, purpose, answer>>
      [] purpose = "undo"      -> known' = FALSE /\ UNCHANGED <<active, purpose>> /\ Return(FALSE)
      [] purpose = "uninstall" -> known' = FALSE /\ UNCHANGED <<active, purpose>> /\ Return(TRUE)

Fail ==
    /\ IF purpose = "install"
         THEN active' = FALSE /\ SetGate("undo") /\ UNCHANGED answer
         ELSE UNCHANGED <<active, purpose>> /\ Return(FALSE)
    /\ UNCHANGED known

(* The first VirtualProtect tells the protection it replaces; that is what *)
(* must come back, unless an earlier call already owes one.                *)
ProtectAnew ==      \* fault: g_protectionPending not tested
    /\ pc = "protect"
    /\ \/ /\ protection' = "writable"
          /\ restore' = protection
          /\ pending' = TRUE
          /\ pc' = "exchange"
          /\ UNCHANGED <<known, active, purpose, answer>>
       \/ /\ MayRefuse
          /\ Fail
          /\ UNCHANGED <<protection, restore, pending>>
    /\ UNCHANGED <<gate, original, history, calls, writes>>

Protect ==
    /\ pc = "protect"
    /\ \/ /\ protection' = "writable"
          /\ restore' = IF pending THEN restore ELSE protection
          /\ pending' = TRUE
          /\ pc' = "exchange"
          /\ UNCHANGED <<known, active, purpose, answer>>
       \/ /\ MayRefuse
          /\ Fail
          /\ UNCHANGED <<protection, restore, pending>>
    /\ UNCHANGED <<gate, original, history, calls, writes>>

(* _InterlockedCompareExchange8: a byte that somebody else has changed is  *)
(* left alone.                                                             *)
ExchangeBackwards ==    \* fault: expected and value swapped
    /\ pc = "exchange"
    /\ LET expected == IF purpose = "install" THEN 0 ELSE original
           value == IF purpose = "install" THEN original ELSE 0
       IN  gate' = IF gate = expected THEN value ELSE gate
    /\ pc' = "restore"
    /\ UNCHANGED <<protection, globals, purpose, answer, history, calls, writes>>

Exchange ==
    /\ pc = "exchange"
    /\ LET expected == IF purpose = "install" THEN original ELSE 0
           value == IF purpose = "install" THEN 0 ELSE original
       IN  gate' = IF gate = expected THEN value ELSE gate
    /\ pc' = "restore"
    /\ UNCHANGED <<protection, globals, purpose, answer, history, calls, writes>>

Restore ==
    /\ pc = "restore"
    /\ \/ /\ protection' = restore
          /\ pending' = FALSE
          /\ Succeed
       \/ /\ MayRefuse
          /\ Fail
          /\ UNCHANGED <<protection, pending>>
    /\ UNCHANGED <<gate, original, restore, history, calls, writes>>

--------------------------------------------------------------------------------
EngineWrite ==
    /\ writes > 0
    /\ writes' = writes - 1
    /\ \E value \in EngineValues : gate' = value /\ engine' = value
    /\ disturbed' = TRUE
    /\ UNCHANGED <<protection, globals, pc, purpose, answer, calls>>

Next ==
    \/ Install
    \/ Look
    \/ Uninstall
    \/ Protect
    \/ Exchange
    \/ Restore
    \/ EngineWrite

Spec == Init /\ [][Next]_vars

--------------------------------------------------------------------------------
(* Properties.                                                             *)

TypeOK ==
    /\ gate \in {0, 1} /\ original \in {0, 1} /\ engine \in {0, 1}
    /\ protection \in {"stock", "writable"} /\ restore \in {"stock", "writable"}
    /\ known \in BOOLEAN /\ active \in BOOLEAN /\ pending \in BOOLEAN
    /\ answer \in BOOLEAN /\ disturbed \in BOOLEAN
    /\ pc \in {"idle", "look", "protect", "exchange", "restore"}
    /\ purpose \in {"install", "retry", "undo", "uninstall"}
    /\ calls \in Nat /\ writes \in Nat
    /\ pc \in {"protect", "exchange", "restore"} => known
    /\ active => known /\ pc = "idle"

(* Between two calls the page has the game's protection, or the loader     *)
(* knows that it owes it and which one it was, however many attempts to    *)
(* put it back have failed.                                                *)
ProtectionIsOwed ==
    pc = "idle" => \/ ~pending /\ protection = "stock"
                   \/ pending /\ known /\ restore = "stock"

(* When the loader has let go of the byte, the byte is the engine's: every *)
(* uninstall that said it succeeded has taken the loader's value out and   *)
(* has not put a stale one over the engine's.                              *)
GateIsGivenBack == ~known => gate = engine

(* While the policy is active and the engine has not interfered since      *)
(* install read the byte, no signature is asked for.                       *)
ActiveMeansOpen == active /\ ~disturbed /\ pc = "idle" => gate = 0
================================================================================
