------------------------------- MODULE HookTable -------------------------------
(***************************************************************************)
(* The table of hooks that the hook library keeps (hook.c).  Every call     *)
(* runs under the library's spin lock, so a call is an operator that maps   *)
(* the table to the set of its possible outcomes: records of the new table  *)
(* and of whether the status is MH_OK.  What the library does to threads    *)
(* and to the bytes of the target is abstracted to the three states of an   *)
(* entry.                                                                   *)
(***************************************************************************)
EXTENDS Integers

CONSTANTS
    Targets,        \* the functions this program hooks
    LibraryFaults   \* whether the operating system may refuse the library
                    \* memory or a change of protection

ASSUME HookTableAssumption == LibraryFaults \in BOOLEAN

(* refused is history: whether the operating system ever refused a call.   *)
Table == [ready : BOOLEAN, refused : BOOLEAN, hook : [Targets -> {"absent", "created", "enabled"}]]

EmptyTable == [ready |-> FALSE, refused |-> FALSE, hook |-> [x \in Targets |-> "absent"]]

Done(table) == {[ok |-> TRUE, table |-> table]}
Refused(table) == {[ok |-> FALSE, table |-> table]}
Fault(table) == IF LibraryFaults THEN Refused([table EXCEPT !.refused = TRUE]) ELSE {}

WithHook(table, target, state) == [table EXCEPT !.hook[target] = state]

(* MH_ERROR_ALREADY_INITIALIZED counts as success at both call sites.      *)
MH_Initialize(table) ==
    IF table.ready THEN Done(table)
    ELSE Done([table EXCEPT !.ready = TRUE]) \cup Fault(table)

MH_CreateHook(table, target) ==
    IF table.ready /\ table.hook[target] = "absent"
    THEN Done(WithHook(table, target, "created")) \cup Fault(table)
    ELSE Refused(table)

MH_EnableHook(table, target) ==
    IF table.ready /\ table.hook[target] = "created"
    THEN Done(WithHook(table, target, "enabled")) \cup Fault(table)
    ELSE Refused(table)

(* MH_ERROR_DISABLED counts as success at every call site.                 *)
MH_DisableHook(table, target) ==
    IF ~table.ready \/ table.hook[target] = "absent" THEN Refused(table)
    ELSE IF table.hook[target] = "created" THEN Done(table)
    ELSE Done(WithHook(table, target, "created")) \cup Fault(table)

(* MH_DisableHook(NULL): NULL is MH_ALL_HOOKS.  The loop over the entries  *)
(* stops at the first one that fails, whichever that is.                   *)
MH_DisableAllHooks(table) ==
    LET enabled == {x \in Targets : table.hook[x] = "enabled"}
        Without(X) == [table EXCEPT !.hook =
                          [x \in Targets |-> IF x \in X THEN "created" ELSE @[x]]]
    IN  IF ~table.ready THEN Refused(table)
        ELSE Done(Without(enabled))
             \cup (IF LibraryFaults
                   THEN UNION {Refused([Without(X) EXCEPT !.refused = TRUE]) : X \in (SUBSET enabled) \ {enabled}}
                   ELSE {})

MH_RemoveHook(table, target) ==
    IF ~table.ready \/ table.hook[target] = "absent" THEN Refused(table)
    ELSE Done(WithHook(table, target, "absent"))
         \cup (IF table.hook[target] = "enabled" THEN Fault(table) ELSE {})
================================================================================
