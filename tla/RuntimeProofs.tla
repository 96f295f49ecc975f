----------------------------- MODULE RuntimeProofs -----------------------------
(***************************************************************************)
(* What Runtime promises, for every set of threads, every configuration,    *)
(* every number of calls and whichever calls fail.                          *)
(*                                                                          *)
(* The safety properties rest on one chain of invariants, each inductive    *)
(* relative to the ones before it:                                          *)
(*   TypeOK, ListsFit   the types, and which lists of parts a thread can    *)
(*                      have left at each place;                            *)
(*   LockFits           who is between the acquisition and the release of   *)
(*                      the runtime lock holds it;                          *)
(*   OnceFits           who has passed the exchange of the first pump;      *)
(*   ArmedFits          what is in force while initialize and shutdown are  *)
(*                      on their way;                                       *)
(*   CallsFit           which call a thread is in at each place;            *)
(*   CalmFits           what the game's order of calls excludes;            *)
(*   CertFits, ObserverFits, TidyFits                                       *)
(*                      where the hooks of each component are.              *)
(* The last four hold when the game calls Steam in the order Steam asks     *)
(* for (Disciplined), the hooks when one thread pumps (OnePumper).          *)
(***************************************************************************)
EXTENDS Runtime, SequenceTheorems, TLAPS

--------------------------------------------------------------------------------
(* The hook library.                                                       *)

(* What a call answers.                                                    *)
Outcome == [ok : BOOLEAN, table : Table]

(* What every call leaves alone: the other entries, and it forgets nothing. *)
Only(x, old, new) ==
    /\ \A y \in Targets \ {x} : new.hook[y] = old.hook[y]
    /\ old.ready => new.ready
    /\ old.refused => new.refused

LEMMA OutcomeFields ==
    ASSUME NEW ok \in BOOLEAN, NEW new \in Table
    PROVE  LET r == [ok |-> ok, table |-> new]
           IN  r \in Outcome /\ r.ok = ok /\ r.table = new
  BY DEF Outcome

LEMMA TableFields ==
    ASSUME NEW old \in Table
    PROVE  /\ old.ready \in BOOLEAN /\ old.refused \in BOOLEAN
           /\ old.hook \in [Targets -> {"absent", "created", "enabled"}]
  BY DEF Table

(* The three ways in which a call changes the table.                       *)
LEMMA RefusedField ==
    ASSUME NEW old \in Table
    PROVE  LET new == [old EXCEPT !.refused = TRUE]
           IN  /\ new \in Table /\ new.refused
               /\ new.ready = old.ready /\ new.hook = old.hook
  BY DEF Table

LEMMA ReadyField ==
    ASSUME NEW old \in Table
    PROVE  LET new == [old EXCEPT !.ready = TRUE]
           IN  /\ new \in Table /\ new.ready
               /\ new.refused = old.refused /\ new.hook = old.hook
  BY DEF Table

(* The ways in which a call ends.                                          *)
LEMMA FaultOutcome ==
    ASSUME NEW old \in Table, NEW r \in Fault(old)
    PROVE  /\ r \in Outcome
           /\ ~r.ok /\ r.table.refused
           /\ r.table.ready = old.ready /\ r.table.hook = old.hook
  <1> DEFINE new == [old EXCEPT !.refused = TRUE]
  <1>1. r = [ok |-> FALSE, table |-> new]
      BY DEF Fault, Refused
  <1>2. new \in Table /\ new.refused /\ new.ready = old.ready /\ new.hook = old.hook
      BY RefusedField
  <1> HIDE DEF new
  <1> QED BY <1>1, <1>2, OutcomeFields

LEMMA RefusedOutcome ==
    ASSUME NEW old \in Table, NEW r \in Refused(old)
    PROVE  r \in Outcome /\ ~r.ok /\ r.table = old
  <1>1. r = [ok |-> FALSE, table |-> old]
      BY DEF Refused
  <1> QED BY <1>1, OutcomeFields

LEMMA DoneOutcome ==
    ASSUME NEW new \in Table, NEW r \in Done(new)
    PROVE  r \in Outcome /\ r.ok /\ r.table = new
  <1>1. r = [ok |-> TRUE, table |-> new]
      BY DEF Done
  <1> QED BY <1>1, OutcomeFields

LEMMA HookOutcome ==
    ASSUME NEW old \in Table, NEW x \in Targets,
           NEW state \in {"absent", "created", "enabled"},
           NEW r \in Done(WithHook(old, x, state))
    PROVE  /\ r \in Outcome
           /\ r.ok
           /\ r.table.ready = old.ready /\ r.table.refused = old.refused
           /\ r.table.hook[x] = state
           /\ \A y \in Targets \ {x} : r.table.hook[y] = old.hook[y]
  <1> DEFINE new == WithHook(old, x, state)
  <1>1. /\ new \in Table
        /\ new.ready = old.ready /\ new.refused = old.refused
        /\ new.hook[x] = state
        /\ \A y \in Targets \ {x} : new.hook[y] = old.hook[y]
      BY DEF Table, WithHook
  <1>2. r \in Done(new)
      OBVIOUS
  <1> HIDE DEF new
  <1> QED BY <1>1, <1>2, DoneOutcome

(* What each call does to the table, and that it fails only when the       *)
(* operating system refused something or the entry was not in its state.   *)
LEMMA InitializeOutcome ==
    ASSUME NEW old \in Table, NEW r \in MH_Initialize(old)
    PROVE  /\ r \in Outcome
           /\ r.table.hook = old.hook
           /\ old.ready => r.table.ready
           /\ old.refused => r.table.refused
           /\ r.ok => r.table.ready
           /\ ~r.table.refused => r.ok
  <1> DEFINE new == [old EXCEPT !.ready = TRUE]
  <1>1. new \in Table /\ new.ready /\ new.refused = old.refused /\ new.hook = old.hook
      BY ReadyField
  <1>2. CASE old.ready
      BY <1>2, DoneOutcome DEF MH_Initialize
  <1>3. CASE ~old.ready
    <2>1. r \in Done(new) \/ r \in Fault(old)
        BY <1>3 DEF MH_Initialize
    <2> HIDE DEF new
    <2> QED BY <1>1, <1>3, <2>1, DoneOutcome, FaultOutcome
  <1> QED BY <1>2, <1>3

LEMMA CreateOutcome ==
    ASSUME NEW old \in Table, NEW x \in Targets, NEW r \in MH_CreateHook(old, x)
    PROVE  /\ r \in Outcome
           /\ Only(x, old, r.table)
           /\ IF r.ok THEN old.ready /\ old.hook[x] = "absent" /\ r.table.hook[x] = "created"
              ELSE r.table.hook = old.hook
           /\ ~r.table.refused /\ old.ready /\ old.hook[x] = "absent" => r.ok
  BY FaultOutcome, RefusedOutcome, HookOutcome DEF MH_CreateHook, Only

LEMMA EnableOutcome ==
    ASSUME NEW old \in Table, NEW x \in Targets, NEW r \in MH_EnableHook(old, x)
    PROVE  /\ r \in Outcome
           /\ Only(x, old, r.table)
           /\ IF r.ok THEN old.ready /\ r.table.hook[x] = "enabled"
              ELSE r.table.hook = old.hook
           /\ ~r.table.refused /\ old.ready /\ old.hook[x] = "created" => r.ok
  BY FaultOutcome, RefusedOutcome, HookOutcome DEF MH_EnableHook, Only

LEMMA DisableOutcome ==
    ASSUME NEW old \in Table, NEW x \in Targets, NEW r \in MH_DisableHook(old, x)
    PROVE  /\ r \in Outcome
           /\ Only(x, old, r.table)
           /\ IF r.ok THEN old.ready /\ r.table.hook[x] = "created"
              ELSE r.table.hook = old.hook
           /\ ~r.table.refused /\ old.ready /\ old.hook[x] # "absent" => r.ok
  <1>1. CASE ~old.ready \/ old.hook[x] = "absent"
    <2>1. MH_DisableHook(old, x) = Refused(old)
        BY <1>1 DEF MH_DisableHook
    <2> QED BY <1>1, <2>1, RefusedOutcome DEF Only
  <1>2. CASE old.ready /\ old.hook[x] = "created"
    <2>1. MH_DisableHook(old, x) = Done(old)
        BY <1>2 DEF MH_DisableHook
    <2> QED BY <1>2, <2>1, DoneOutcome DEF Only
  <1>3. CASE old.ready /\ old.hook[x] = "enabled"
    <2>1. r \in Done(WithHook(old, x, "created")) \cup Fault(old)
        BY <1>3 DEF MH_DisableHook
    <2> QED BY <1>3, <2>1, FaultOutcome, HookOutcome DEF Only
  <1> QED BY <1>1, <1>2, <1>3 DEF Table

LEMMA RemoveOutcome ==
    ASSUME NEW old \in Table, NEW x \in Targets, NEW r \in MH_RemoveHook(old, x)
    PROVE  /\ r \in Outcome
           /\ Only(x, old, r.table)
           /\ IF r.ok THEN old.ready /\ r.table.hook[x] = "absent"
              ELSE r.table.hook = old.hook
           /\ ~r.table.refused /\ old.ready /\ old.hook[x] # "absent" => r.ok
  BY FaultOutcome, RefusedOutcome, HookOutcome DEF MH_RemoveHook, Only

LEMMA DisableAllOutcome ==
    ASSUME NEW old \in Table, NEW r \in MH_DisableAllHooks(old)
    PROVE  /\ r \in Outcome
           /\ old.ready = r.table.ready
           /\ old.refused => r.table.refused
  <1> DEFINE enabled == {x \in Targets : old.hook[x] = "enabled"}
             Without(X) == [old EXCEPT !.hook =
                              [x \in Targets |-> IF x \in X THEN "created" ELSE @[x]]]
  <1>1. ASSUME NEW X
        PROVE  /\ Without(X) \in Table
               /\ Without(X).ready = old.ready /\ Without(X).refused = old.refused
      BY TableFields DEF Table
  <1>2. \/ r \in Refused(old)
        \/ r \in Done(Without(enabled))
        \/ \E X \in SUBSET enabled : r \in Refused([Without(X) EXCEPT !.refused = TRUE])
      BY DEF MH_DisableAllHooks
  <1> HIDE DEF enabled, Without
  <1>3. CASE r \in Refused(old)
      BY <1>3, RefusedOutcome
  <1>4. CASE r \in Done(Without(enabled))
      BY <1>1, <1>4, DoneOutcome
  <1>5. CASE \E X \in SUBSET enabled : r \in Refused([Without(X) EXCEPT !.refused = TRUE])
    <2>1. PICK X \in SUBSET enabled : r \in Refused([Without(X) EXCEPT !.refused = TRUE])
        BY <1>5
    <2>2. Without(X) \in Table
        BY <1>1
    <2> DEFINE new == [Without(X) EXCEPT !.refused = TRUE]
    <2>3. new \in Table /\ new.refused /\ new.ready = Without(X).ready
        BY <2>2, RefusedField
    <2>4. r \in Refused(new)
        BY <2>1
    <2> HIDE DEF new
    <2>5. r.table = new /\ r \in Outcome
        BY <2>3, <2>4, RefusedOutcome
    <2> QED BY <1>1, <2>3, <2>5
  <1> QED BY <1>2, <1>3, <1>4, <1>5

--------------------------------------------------------------------------------
(* Places, and the steps of the pump and of the two uninstalls.            *)

USE DEF runtimeVars, partVars, certVars, keyVars, workVars, gameVars, Go

(* Where a thread is inside an uninstall, under the lock, or in a pump.    *)
KeyLeaving == {"keyRemove", "keyRemoveBad"}
CertLeaving == {"certDisableAuth", "certDisableCert", "certRemoveAuth", "certRemoveCert", "certForget"}
Tearing == {"tearDown"} \cup KeyLeaving \cup CertLeaving
Inside == {"setUp", "leave"} \cup Tearing
CertMaking == CertLabels \ CertLeaving
KeyMaking == {"keyCheck", "keyCreate", "keyEnable", "keyUndo", "keyActivate"}
BeforeActivation == KeyMaking \cup {"activate"}
Pumping == {"certCheck", "first", "activate", "activated"} \cup CertMaking \cup KeyMaking

(* The steps of the two uninstalls that call the library.                  *)
Unhook(t) == KeyUninstall(t) \/ KeyRemove(t) \/ CertUninstall(t) \/ CertUninstallStep(t) \/ CertForget(t)

(* A pump leaves everything under the lock alone.                          *)
LEMMA PumpLeaves ==
    ASSUME NEW t \in Threads, Pump(t)
    PROVE  UNCHANGED <<ini, lock, initialized, partVars, backend, workVars, game, calls>>
  <1>1. CASE CertUpdate(t)
      BY <1>1 DEF CertUpdate, CertCheck, CertLibrary, CertNoLibrary, CertPublish, CertActivate,
                  CertRemovePartial, LibraryStep, CertGiveUp
  <1>2. CASE ~CertUpdate(t)
      BY <1>2 DEF Pump, FirstPump, KeyCheck, KeyCreate, KeyEnable, KeyUndo, KeyActivate,
                  Activate, Activated
  <1> QED BY <1>1, <1>2

(* A pump runs through the pump's places and ends at the original DLL.     *)
LEMMA PumpMoves ==
    ASSUME NEW t \in Threads, Pump(t)
    PROVE  pc[t] \in Pumping /\ \E to \in Pumping \cup {"backend"} : Go(t, to)
  <1> USE DEF Pumping, CertMaking, CertLabels, CertLeaving, KeyMaking
  <1>1. ASSUME NEW from, NEW outcomes, NEW good \in Pumping, NEW bad \in Pumping,
               CertLibrary(t, from, outcomes, good, bad)
        PROVE  pc[t] = from /\ \E to \in Pumping : Go(t, to)
      BY <1>1 DEF CertLibrary
  <1>2. ASSUME NEW from, NEW outcomes, NEW to \in Pumping, LibraryStep(t, from, outcomes, to)
        PROVE  pc[t] = from /\ Go(t, to)
      BY <1>2 DEF LibraryStep
  <1>3. CASE CertCheck(t)
      BY <1>3 DEF CertCheck, CertDone
  <1>4. CASE CertNoLibrary(t) \/ CertActivate(t) \/ CertGiveUp(t) \/ CertPublish(t)
      BY <1>4 DEF CertNoLibrary, CertActivate, CertGiveUp, CertPublish, PumpStep
  <1>5. CASE CertRemovePartial(t)
      BY <1>2, <1>5 DEF CertRemovePartial
  <1>6. CASE CertUpdate(t)
      BY <1>1, <1>3, <1>4, <1>5, <1>6 DEF CertUpdate
  <1>7. CASE FirstPump(t) \/ KeyCheck(t) \/ KeyActivate(t) \/ Activate(t) \/ Activated(t)
      BY <1>7 DEF FirstPump, KeyCheck, KeyActivate, Activate, Activated, PumpStep
  <1>8. CASE KeyCreate(t) \/ KeyEnable(t) \/ KeyUndo(t)
      BY <1>8 DEF KeyCreate, KeyEnable, KeyUndo
  <1> QED BY <1>6, <1>7, <1>8 DEF Pump

LEMMA UnhookLeaves ==
    ASSUME NEW t \in Threads, Unhook(t)
    PROVE  UNCHANGED <<ini, runtimeVars, partVars, backend, call, todo, answer, gameVars>>
  BY DEF Unhook, KeyUninstall, KeyRemove, CertUninstall, CertUninstallStep, LibraryStep,
     CertForget

(* What every call of the library keeps, every step of the program keeps.  *)
Closed(S) ==
    \A old \in S :
        /\ \A r \in MH_Initialize(old) : r.table \in S
        /\ \A r \in MH_DisableAllHooks(old) : r.table \in S
        /\ \A x \in Targets :
             /\ \A r \in MH_CreateHook(old, x) : r.table \in S
             /\ \A r \in MH_EnableHook(old, x) : r.table \in S
             /\ \A r \in MH_DisableHook(old, x) : r.table \in S
             /\ \A r \in MH_RemoveHook(old, x) : r.table \in S

LEMMA TableKept ==
    ASSUME NEW S \in SUBSET Table, Closed(S), table \in S, NEW t \in Threads, Call(t) \/ Run(t)
    PROVE  table' \in S
  <1> USE RuntimeAssumption
  <1>0. \A old \in S : \A r \in Refused(old) : r.table \in S
      BY RefusedOutcome
  <1>1. ASSUME SetUpCapture PROVE table' \in S
    <2>1. CASE UNCHANGED table
        BY <2>1
    <2>2. CASE \E i \in MH_Initialize(table) :
                 IF ~i.ok THEN table' = i.table
                 ELSE \E c \in MH_CreateHook(i.table, "observer") :
                   IF ~c.ok THEN table' = c.table
                   ELSE \E e \in MH_EnableHook(c.table, "observer") :
                     IF e.ok THEN table' = e.table
                     ELSE \E r \in MH_RemoveHook(e.table, "observer") : table' = r.table
      <3>1. \A i \in MH_Initialize(table) : i.table \in S
          BY DEF Closed
      <3>2. \A x \in S : \A c \in MH_CreateHook(x, "observer") : c.table \in S
          BY DEF Closed
      <3>3. \A x \in S : \A e \in MH_EnableHook(x, "observer") : e.table \in S
          BY DEF Closed
      <3>4. \A x \in S : \A e \in MH_RemoveHook(x, "observer") : e.table \in S
          BY DEF Closed
      <3> QED BY <2>2, <3>1, <3>2, <3>3, <3>4
    <2> QED BY <1>1, <2>1, <2>2 DEF SetUpCapture
  <1>2. CASE SetUp(t)
      BY <1>1, <1>2 DEF SetUp, SetUpPart, SetUpLog, SetUpGate, Prepare, Scan
  <1>3. CASE KeyUninstall(t) \/ KeyRemove(t)
      BY <1>3 DEF Closed, KeyUninstall, KeyRemove
  <1>4. ASSUME NEW x \in Targets
        PROVE  /\ \A r \in DisableAt(x) : r.table \in S
               /\ \A r \in RemoveAt(x) : r.table \in S
      BY <1>0 DEF Closed, DisableAt, RemoveAt
  <1>5. CASE CertUninstallStep(t)
      BY <1>4, <1>5 DEF CertUninstallStep, LibraryStep
  <1>6. CASE CertRemovePartial(t)
      BY <1>0, <1>4, <1>6 DEF CertRemovePartial, LibraryStep
  <1>7. CASE KeyCreate(t) \/ KeyEnable(t) \/ KeyUndo(t)
      BY <1>7 DEF Closed, KeyCreate, KeyEnable, KeyUndo
  <1>8. ASSUME NEW from, NEW good, NEW bad, NEW outcomes,
               \A r \in outcomes : r.table \in S, CertLibrary(t, from, outcomes, good, bad)
        PROVE  table' \in S
      BY <1>8 DEF CertLibrary
  <1>9. CASE CertUpdate(t)
    <2>1. /\ \A r \in MH_Initialize(table) : r.table \in S
          /\ \A r \in MH_CreateHook(table, "auth") : r.table \in S
          /\ \A r \in MH_CreateHook(table, "setCert") : r.table \in S
          /\ \A r \in MH_EnableHook(table, "auth") : r.table \in S
          /\ \A r \in MH_EnableHook(table, "setCert") : r.table \in S
        BY DEF Closed
    <2> QED BY <1>6, <1>8, <1>9, <2>1
            DEF CertUpdate, CertCheck, CertNoLibrary, CertPublish, CertActivate, CertGiveUp
  <1>10. CASE Pump(t)
      BY <1>7, <1>9, <1>10 DEF Pump, FirstPump, KeyCheck, KeyActivate, Activate, Activated
  <1>11. CASE Call(t)
      BY <1>11 DEF Call, CallInit, CallRestart, CallShutdown, CallForwarded,
         CallRunCallbacks, Start
  <1>12. CASE Run(t)
      BY <1>2, <1>3, <1>5, <1>10, <1>12
      DEF Run, Enter, Publish, RollBack, EnterShutdown, TearDown, TornDown, CertUninstall,
          CertForget, Leave, Forward
  <1> QED BY <1>11, <1>12

LEMMA TableTyped ==
    ASSUME TypeOK, NEW t \in Threads, Call(t) \/ Run(t)
    PROVE  table' \in Table
  <1>1. Closed(Table)
      BY InitializeOutcome, CreateOutcome, EnableOutcome, DisableOutcome, RemoveOutcome,
         DisableAllOutcome DEF Closed, Outcome
  <1> QED BY <1>1, TableKept DEF TypeOK

(* Only a library that is initialized holds hooks.                         *)
ReadyTables == {x \in Table : x.ready \/ \A y \in Targets : x.hook[y] = "absent"}

LEMMA ReadyClosed == Closed(ReadyTables)
  <1> SUFFICES ASSUME NEW old \in ReadyTables PROVE
        /\ \A r \in MH_Initialize(old) : r.table \in ReadyTables
        /\ \A r \in MH_DisableAllHooks(old) : r.table \in ReadyTables
        /\ \A x \in Targets :
             /\ \A r \in MH_CreateHook(old, x) : r.table \in ReadyTables
             /\ \A r \in MH_EnableHook(old, x) : r.table \in ReadyTables
             /\ \A r \in MH_DisableHook(old, x) : r.table \in ReadyTables
             /\ \A r \in MH_RemoveHook(old, x) : r.table \in ReadyTables
      BY DEF Closed
  <1>1. old \in Table /\ (old.ready \/ \A y \in Targets : old.hook[y] = "absent")
      BY DEF ReadyTables
  <1>2. \A r : r \in Outcome /\ (IF old.ready THEN r.table.ready ELSE r.table.hook = old.hook)
                 => r.table \in ReadyTables
      BY <1>1 DEF ReadyTables, Outcome
  <1>3. ASSUME NEW r \in MH_Initialize(old) PROVE r.table \in ReadyTables
      BY <1>1, <1>2, <1>3, InitializeOutcome
  <1>4. ASSUME NEW r \in MH_DisableAllHooks(old) PROVE r.table \in ReadyTables
    <2>1. CASE old.ready
        BY <1>1, <1>2, <1>4, <2>1, DisableAllOutcome
    <2>2. CASE ~old.ready
        BY <1>1, <1>4, <2>2, RefusedOutcome DEF MH_DisableAllHooks
    <2> QED BY <2>1, <2>2
  <1>5. ASSUME NEW x \in Targets, NEW r \in MH_CreateHook(old, x) PROVE r.table \in ReadyTables
      BY <1>1, <1>2, <1>5, CreateOutcome DEF Only
  <1>6. ASSUME NEW x \in Targets, NEW r \in MH_EnableHook(old, x) PROVE r.table \in ReadyTables
      BY <1>1, <1>2, <1>6, EnableOutcome DEF Only
  <1>7. ASSUME NEW x \in Targets, NEW r \in MH_DisableHook(old, x) PROVE r.table \in ReadyTables
      BY <1>1, <1>2, <1>7, DisableOutcome DEF Only
  <1>8. ASSUME NEW x \in Targets, NEW r \in MH_RemoveHook(old, x) PROVE r.table \in ReadyTables
      BY <1>1, <1>2, <1>8, RemoveOutcome DEF Only
  <1> QED BY <1>3, <1>4, <1>5, <1>6, <1>7, <1>8

(* The capture, whose start makes up to four calls in one step.            *)
LEMMA SetUpCaptureTable ==
    ASSUME table \in Table, "observer" \in Targets, SetUpCapture
    PROVE  /\ table' \in Table
           /\ Only("observer", table, table')
           /\ \/ UNCHANGED <<capture, hookInstalled>>
              \/ capture' /\ hookInstalled /\ UNCHANGED <<hookInstalled, table>>
              \/ capture' /\ hookInstalled' /\ table'.hook["observer"] = "enabled"
           /\ hookInstalled => UNCHANGED <<hookInstalled, table>>
  <1>1. UNCHANGED table => Only("observer", table, table')
      BY DEF Only
  <1> DEFINE Made ==
        \E i \in MH_Initialize(table) :
           IF ~i.ok THEN UNCHANGED <<capture, hookInstalled>> /\ table' = i.table
           ELSE \E c \in MH_CreateHook(i.table, "observer") :
             IF ~c.ok THEN UNCHANGED <<capture, hookInstalled>> /\ table' = c.table
             ELSE \E e \in MH_EnableHook(c.table, "observer") :
               IF e.ok
               THEN /\ capture' = TRUE /\ hookInstalled' = TRUE
                    /\ table' = e.table
               ELSE /\ UNCHANGED <<capture, hookInstalled>>
                    /\ \E r \in MH_RemoveHook(e.table, "observer") :
                          table' = r.table
  <1>2. CASE ~hookInstalled /\ Made
    <2>1. PICK i \in MH_Initialize(table) :
           IF ~i.ok THEN UNCHANGED <<capture, hookInstalled>> /\ table' = i.table
           ELSE \E c \in MH_CreateHook(i.table, "observer") :
             IF ~c.ok THEN UNCHANGED <<capture, hookInstalled>> /\ table' = c.table
             ELSE \E e \in MH_EnableHook(c.table, "observer") :
               IF e.ok
               THEN /\ capture' = TRUE /\ hookInstalled' = TRUE
                    /\ table' = e.table
               ELSE /\ UNCHANGED <<capture, hookInstalled>>
                    /\ \E r \in MH_RemoveHook(e.table, "observer") :
                          table' = r.table
        BY <1>2
    <2>2. i.table \in Table /\ Only("observer", table, i.table)
        BY <2>1, InitializeOutcome DEF Outcome, Only
    <2>3. ASSUME NEW a, Only("observer", table, a), NEW b, Only("observer", a, b)
          PROVE  Only("observer", table, b)
        BY <2>3 DEF Only
    <2>4. CASE ~i.ok
        BY <1>2, <2>1, <2>2, <2>4
    <2>5. CASE i.ok
      <3>1. PICK c \in MH_CreateHook(i.table, "observer") :
             IF ~c.ok THEN UNCHANGED <<capture, hookInstalled>> /\ table' = c.table
             ELSE \E e \in MH_EnableHook(c.table, "observer") :
               IF e.ok
               THEN /\ capture' = TRUE /\ hookInstalled' = TRUE
                    /\ table' = e.table
               ELSE /\ UNCHANGED <<capture, hookInstalled>>
                    /\ \E r \in MH_RemoveHook(e.table, "observer") :
                          table' = r.table
          BY <2>1, <2>5
      <3>2. c.table \in Table /\ Only("observer", table, c.table)
          BY <2>2, <2>3, <3>1, CreateOutcome DEF Outcome
      <3>3. CASE ~c.ok
          BY <1>2, <3>1, <3>2, <3>3
      <3>4. CASE c.ok
        <4>1. PICK e \in MH_EnableHook(c.table, "observer") :
                 IF e.ok
                 THEN /\ capture' = TRUE /\ hookInstalled' = TRUE
                      /\ table' = e.table
                 ELSE /\ UNCHANGED <<capture, hookInstalled>>
                      /\ \E r \in MH_RemoveHook(e.table, "observer") :
                            table' = r.table
            BY <3>1, <3>4
        <4>2. e.table \in Table /\ Only("observer", table, e.table)
            BY <2>3, <3>2, <4>1, EnableOutcome DEF Outcome
        <4>3. e.ok => e.table.hook["observer"] = "enabled"
            BY <3>2, <4>1, EnableOutcome
        <4>4. \A r \in MH_RemoveHook(e.table, "observer") :
                 r.table \in Table /\ Only("observer", table, r.table)
            BY <2>3, <4>2, RemoveOutcome DEF Outcome
        <4> QED BY <1>2, <4>1, <4>2, <4>3, <4>4
      <3> QED BY <3>3, <3>4
    <2> QED BY <2>4, <2>5
  <1>3. SetUpCapture => \/ hookInstalled /\ capture' = TRUE /\ UNCHANGED <<hookInstalled, table>>
                        \/ UNCHANGED <<capture, hookInstalled, table>>
                        \/ ~hookInstalled /\ Made
      BY DEF SetUpCapture
  <1> HIDE DEF Made
  <1> QED BY <1>1, <1>2, <1>3 DEF Only

LEMMA PcTyped ==
    ASSUME TypeOK, NEW t \in Threads, Call(t) \/ Run(t)
    PROVE  pc' \in [Threads -> Labels]
  <1>1. ASSUME NEW to \in Labels, Go(t, to) PROVE pc' \in [Threads -> Labels]
    <2>1. pc \in [Threads -> Labels]
        BY DEF TypeOK
    <2> QED BY <1>1, <2>1
  <1>2. CASE Call(t)
      BY <1>2, <1>1 DEF Labels, Call, CallInit, CallRestart, CallShutdown, CallForwarded,
         CallRunCallbacks, Start
  <1>3. CASE Pump(t)
      BY <1>3, <1>1, PumpMoves DEF Labels, Pumping, CertMaking, KeyMaking
  <1>4. CASE KeyUninstall(t) \/ KeyRemove(t) \/ CertForget(t)
      BY <1>4, <1>1 DEF Labels, CertLabels, KeyUninstall, KeyRemove, CertForget, TypeOK
  <1>5. CASE CertUninstall(t) \/ CertUninstallStep(t)
      BY <1>5, <1>1 DEF Labels, CertLabels, CertUninstall, CertUninstallStep, LibraryStep,
         TypeOK
  <1>6. CASE Enter(t) \/ SetUp(t) \/ Publish(t) \/ RollBack(t)
      BY <1>6, <1>1 DEF Labels, Enter, SetUp, Publish, RollBack, TypeOK
  <1>7. CASE EnterShutdown(t) \/ TearDown(t) \/ TornDown(t) \/ Leave(t)
      BY <1>7, <1>1 DEF Labels, EnterShutdown, TearDown, TornDown, Leave, Finish, TypeOK
  <1>8. CASE Forward(t)
    <2>1. Go(t, "idle") \/ Go(t, "shutdown")
        BY <1>8 DEF Forward, Finish, TypeOK
    <2> QED BY <1>1, <2>1 DEF Labels
  <1> QED BY <1>2, <1>3, <1>4, <1>5, <1>6, <1>7, <1>8 DEF Run

--------------------------------------------------------------------------------
(* The lists of parts still to set up or to tear down.                     *)

In(part, list) == \E i \in DOMAIN list : list[i] = part

(* What is left of SetUpOrder, and of the lists to tear down.               *)
TodoLists == {SetUpOrder,
              <<"capture", "sku", "pkg", "tls", "prepare", "scan">>,
              <<"sku", "pkg", "tls", "prepare", "scan">>,
              <<"pkg", "tls", "prepare", "scan">>,
              <<"tls", "prepare", "scan">>, <<"prepare", "scan">>, <<"scan">>, <<>>}

KeyOn == <<"manifest", "cert", "pkg", "capture", "sku", "log">>
CertOn == <<"cert", "pkg", "capture", "sku", "log">>

RollBacks == {<<"tls", "pkg", "capture", "sku", "log">>, <<"pkg", "capture", "sku", "log">>,
              <<"capture", "sku", "log">>, <<"capture", "log">>, <<"log">>}

UndoLists == {TearDownOrder, KeyOn, CertOn, <<"sku", "log">>, <<>>} \cup RollBacks

(* Taking a part off a list.                                               *)
LEMMA HeadLeaves ==
    ASSUME NEW list \in Seq(Parts), list # <<>>
    PROVE  /\ Head(list) \in Parts
           /\ Tail(list) \in Seq(Parts)
           /\ \A s : In(s, list) <=> s = Head(list) \/ In(s, Tail(list))
  <1>1. Len(list) \in Nat \ {0} /\ DOMAIN list = 1 .. Len(list)
      BY EmptySeq
  <1>2. /\ Tail(list) \in Seq(Parts) /\ Head(list) = list[1]
        /\ DOMAIN Tail(list) = 1 .. (Len(list) - 1)
        /\ \A i \in 1 .. (Len(list) - 1) : Tail(list)[i] = list[i + 1]
      BY <1>1
  <1>3. ASSUME NEW s, In(s, list), s # Head(list) PROVE In(s, Tail(list))
    <2>1. PICK i \in 1 .. Len(list) : list[i] = s
        BY <1>1, <1>3 DEF In
    <2>2. i - 1 \in 1 .. (Len(list) - 1) /\ list[(i - 1) + 1] = s
        BY <1>1, <1>2, <1>3, <2>1
    <2> QED BY <1>2, <2>2 DEF In
  <1>4. ASSUME NEW s, s = Head(list) \/ In(s, Tail(list)) PROVE In(s, list)
    <2>1. CASE s = Head(list)
        BY <1>1, <1>2, <2>1 DEF In
    <2>2. CASE In(s, Tail(list))
      <3>1. PICK i \in 1 .. (Len(list) - 1) : Tail(list)[i] = s
          BY <1>2, <2>2 DEF In
      <3>2. i + 1 \in 1 .. Len(list) /\ list[i + 1] = s
          BY <1>1, <1>2, <3>1
      <3> QED BY <1>1, <3>2 DEF In
    <2> QED BY <1>4, <2>1, <2>2
  <1>5. Head(list) \in Parts
      BY <1>1, <1>2
  <1> QED BY <1>2, <1>3, <1>4, <1>5

LEMMA ListTypes ==
    /\ TodoLists \subseteq Seq(Parts)
    /\ UndoLists \subseteq Seq(Parts)
    /\ <<>> \in TodoLists
    /\ SetUpOrder \in TodoLists /\ SetUpOrder # <<>>
    /\ TearDownOrder \in UndoLists
    /\ KeyOn \in UndoLists /\ CertOn \in UndoLists /\ <<"log">> \in RollBacks /\ <<>> \in UndoLists
    /\ KeyOn # <<>> /\ CertOn # <<>> /\ <<"log">> # <<>> /\ TearDownOrder # <<>>
    /\ RollBacks \subseteq UndoLists
    /\ <<>> \notin RollBacks
  BY DEF TodoLists, UndoLists, RollBacks, SetUpOrder, TearDownOrder, KeyOn, CertOn, Parts, Gates

LEMMA NothingIn == \A s : ~In(s, <<>>)
  BY DEF In

LEMMA TodoTails ==
    ASSUME NEW list \in TodoLists, list # <<>>
    PROVE  /\ Tail(list) \in TodoLists
           /\ Head(list) = "log" <=> list = SetUpOrder
  <1> USE DEF TodoLists, SetUpOrder
  <1>1. CASE list = SetUpOrder
      BY <1>1
  <1>2. CASE list = <<"capture", "sku", "pkg", "tls", "prepare", "scan">>
      BY <1>2
  <1>3. CASE list = <<"sku", "pkg", "tls", "prepare", "scan">>
      BY <1>3
  <1>4. CASE list = <<"pkg", "tls", "prepare", "scan">>
      BY <1>4
  <1>5. CASE list = <<"tls", "prepare", "scan">>
      BY <1>5
  <1>6. CASE list = <<"prepare", "scan">>
      BY <1>6
  <1>7. CASE list = <<"scan">>
      BY <1>7
  <1> QED BY <1>1, <1>2, <1>3, <1>4, <1>5, <1>6, <1>7

(* A list to tear down ends with the logger, and the two components of the *)
(* pump stand where shutdown has put them.                                 *)
LEMMA UndoTails ==
    ASSUME NEW list \in UndoLists, list # <<>>
    PROVE  /\ Tail(list) \in UndoLists
           /\ Head(list) = "log" <=> Tail(list) = <<>>
           /\ Head(list) = "manifest" <=> list = KeyOn
           /\ Head(list) = "cert" <=> list = CertOn
  <1> USE DEF UndoLists, RollBacks, TearDownOrder, KeyOn, CertOn
  <1>1. CASE list = TearDownOrder
      BY <1>1
  <1>2. CASE list = KeyOn
      BY <1>2
  <1>3. CASE list = CertOn
      BY <1>3
  <1>4. CASE list = <<"tls", "pkg", "capture", "sku", "log">>
      BY <1>4
  <1>5. CASE list = <<"pkg", "capture", "sku", "log">>
      BY <1>5
  <1>6. CASE list = <<"capture", "sku", "log">>
      BY <1>6
  <1>7. CASE list = <<"capture", "log">>
      BY <1>7
  <1>8. CASE list = <<"sku", "log">>
      BY <1>8
  <1>9. CASE list = <<"log">>
      BY <1>9
  <1> QED BY <1>1, <1>2, <1>3, <1>4, <1>5, <1>6, <1>7, <1>8, <1>9

LEMMA UndoAfterPart ==
    /\ UndoAfter("sku") = <<"capture", "log">>
    /\ UndoAfter("pkg") = <<"capture", "sku", "log">>
    /\ UndoAfter("tls") = <<"pkg", "capture", "sku", "log">>
    /\ UndoAfter("prepare") = <<"tls", "pkg", "capture", "sku", "log">>
  BY DEF UndoAfter

(* No part is set up twice, and the logger comes first.                     *)
LEMMA TodoOrder ==
    ASSUME NEW list \in TodoLists, list # <<>>
    PROVE  /\ ~In(Head(list), Tail(list)) /\ ~In("log", Tail(list))
           /\ Tail(list) = <<>> => Head(list) = "scan"
  <1>1. CASE list = SetUpOrder
    <2>1. Head(list) = "log" /\ Tail(list) = <<"capture", "sku", "pkg", "tls", "prepare", "scan">>
        BY <1>1 DEF SetUpOrder
    <2>2. ~In("log", <<"capture", "sku", "pkg", "tls", "prepare", "scan">>)
        BY DEF In
    <2>3. <<"capture", "sku", "pkg", "tls", "prepare", "scan">> # <<>>
        OBVIOUS
    <2> QED BY <2>1, <2>2, <2>3
  <1>2. CASE list = <<"capture", "sku", "pkg", "tls", "prepare", "scan">>
    <2>1. Head(list) = "capture" /\ Tail(list) = <<"sku", "pkg", "tls", "prepare", "scan">>
        BY <1>2
    <2>2. /\ ~In("capture", <<"sku", "pkg", "tls", "prepare", "scan">>)
          /\ ~In("log", <<"sku", "pkg", "tls", "prepare", "scan">>)
        BY DEF In
    <2>3. <<"sku", "pkg", "tls", "prepare", "scan">> # <<>>
        OBVIOUS
    <2> QED BY <2>1, <2>2, <2>3
  <1>3. CASE list = <<"sku", "pkg", "tls", "prepare", "scan">>
    <2>1. Head(list) = "sku" /\ Tail(list) = <<"pkg", "tls", "prepare", "scan">>
        BY <1>3
    <2>2. ~In("sku", <<"pkg", "tls", "prepare", "scan">>) /\ ~In("log", <<"pkg", "tls", "prepare", "scan">>)
        BY DEF In
    <2>3. <<"pkg", "tls", "prepare", "scan">> # <<>>
        OBVIOUS
    <2> QED BY <2>1, <2>2, <2>3
  <1>4. CASE list = <<"pkg", "tls", "prepare", "scan">>
    <2>1. Head(list) = "pkg" /\ Tail(list) = <<"tls", "prepare", "scan">>
        BY <1>4
    <2>2. ~In("pkg", <<"tls", "prepare", "scan">>) /\ ~In("log", <<"tls", "prepare", "scan">>)
        BY DEF In
    <2>3. <<"tls", "prepare", "scan">> # <<>>
        OBVIOUS
    <2> QED BY <2>1, <2>2, <2>3
  <1>5. CASE list = <<"tls", "prepare", "scan">>
    <2>1. Head(list) = "tls" /\ Tail(list) = <<"prepare", "scan">>
        BY <1>5
    <2>2. ~In("tls", <<"prepare", "scan">>) /\ ~In("log", <<"prepare", "scan">>)
        BY DEF In
    <2>3. <<"prepare", "scan">> # <<>>
        OBVIOUS
    <2> QED BY <2>1, <2>2, <2>3
  <1>6. CASE list = <<"prepare", "scan">>
    <2>1. Head(list) = "prepare" /\ Tail(list) = <<"scan">>
        BY <1>6
    <2>2. ~In("prepare", <<"scan">>) /\ ~In("log", <<"scan">>)
        BY DEF In
    <2>3. <<"scan">> # <<>>
        OBVIOUS
    <2> QED BY <2>1, <2>2, <2>3
  <1>7. CASE list = <<"scan">>
    <2>1. Head(list) = "scan" /\ Tail(list) = <<>>
        BY <1>7
    <2>2. ~In("scan", <<>>) /\ ~In("log", <<>>)
        BY DEF In
    <2> QED BY <2>1, <2>2
  <1> QED BY <1>1, <1>2, <1>3, <1>4, <1>5, <1>6, <1>7 DEF TodoLists

(* When a part fails, the roll-back holds everything that came before it.   *)
LEMMA RollBackCovers ==
    ASSUME NEW list \in TodoLists, list # <<>>,
           Head(list) \in {"sku", "pkg", "tls", "prepare"},
           NEW part \in {"capture"} \cup Gates, ~In(part, list)
    PROVE  In(part, UndoAfter(Head(list)))
  <1>1. In("capture", UndoAfter("sku"))
      BY UndoAfterPart DEF In
  <1>2. In("capture", UndoAfter("pkg")) /\ In("sku", UndoAfter("pkg"))
      BY UndoAfterPart DEF In
  <1>3. /\ In("capture", UndoAfter("tls")) /\ In("sku", UndoAfter("tls"))
        /\ In("pkg", UndoAfter("tls"))
      BY UndoAfterPart DEF In
  <1>4. /\ In("capture", UndoAfter("prepare")) /\ In("sku", UndoAfter("prepare"))
        /\ In("pkg", UndoAfter("prepare")) /\ In("tls", UndoAfter("prepare"))
      BY UndoAfterPart DEF In
  <1>5. CASE list \in {SetUpOrder, <<"capture", "sku", "pkg", "tls", "prepare", "scan">>, <<"scan">>}
    <2>1. Head(list) \in {"log", "capture", "scan"}
        BY <1>5 DEF SetUpOrder
    <2> QED BY <2>1
  <1>6. CASE list = <<"sku", "pkg", "tls", "prepare", "scan">>
    <2>1. Head(list) = "sku" /\ part = "capture"
        BY <1>6 DEF In, Gates
    <2> QED BY <1>1, <2>1
  <1>7. CASE list = <<"pkg", "tls", "prepare", "scan">>
    <2>1. Head(list) = "pkg" /\ part \in {"capture", "sku"}
        BY <1>7 DEF In, Gates
    <2> QED BY <1>2, <2>1
  <1>8. CASE list = <<"tls", "prepare", "scan">>
    <2>1. Head(list) = "tls" /\ part \in {"capture", "sku", "pkg"}
        BY <1>8 DEF In, Gates
    <2> QED BY <1>3, <2>1
  <1>9. CASE list = <<"prepare", "scan">>
    <2>1. Head(list) = "prepare"
        BY <1>9
    <2> QED BY <1>4, <2>1 DEF Gates
  <1> QED BY <1>5, <1>6, <1>7, <1>8, <1>9 DEF TodoLists

(* A shutdown takes everything down.                                       *)
LEMMA TearDownCovers ==
    /\ In("capture", TearDownOrder) /\ In("manifest", TearDownOrder) /\ In("cert", TearDownOrder)
    /\ \A gate \in Gates : In(gate, TearDownOrder)
  <1> USE DEF In, TearDownOrder
  <1>1. In("capture", TearDownOrder) /\ In("manifest", TearDownOrder) /\ In("cert", TearDownOrder)
      OBVIOUS
  <1>2. In("sku", TearDownOrder) /\ In("pkg", TearDownOrder) /\ In("tls", TearDownOrder)
      OBVIOUS
  <1> QED BY <1>1, <1>2 DEF Gates

(* The lists that a thread can have at each place.                         *)
ListFits(t) ==
    /\ pc[t] \notin {"setUp"} \cup Tearing => undo[t] = <<>>
    /\ pc[t] # "setUp" => todo[t] = <<>>
    /\ pc[t] = "setUp" =>
         \/ todo[t] \in TodoLists /\ undo[t] = <<>>
         \/ todo[t] \in {<<"log">>, <<>>} /\ undo[t] = <<"log">>
         \/ todo[t] = <<>> /\ undo[t] \in RollBacks
    /\ pc[t] = "tearDown" => undo[t] \in UndoLists
    /\ pc[t] \in KeyLeaving => undo[t] = KeyOn
    /\ pc[t] \in CertLeaving => undo[t] = CertOn

ListsFit == \A t \in Threads : ListFits(t)

(* A part is set up, or its failure replaces the lists by the roll-back.   *)
LEMMA SetUpCases ==
    ASSUME NEW t \in Threads, SetUp(t)
    PROVE  \/ /\ SetUpPart(Head(todo[t]), TRUE)
              /\ todo' = [todo EXCEPT ![t] = Tail(@)]
              /\ UNCHANGED <<undo, answer>>
           \/ /\ Head(todo[t]) \in {"sku", "pkg", "tls", "prepare"}
              /\ SetUpPart(Head(todo[t]), FALSE)
              /\ todo' = [todo EXCEPT ![t] = <<>>]
              /\ undo' = [undo EXCEPT ![t] = UndoAfter(Head(todo[t]))]
              /\ answer' = [answer EXCEPT ![t] = FALSE]
  <1>1. SetUpPart(Head(todo[t]), FALSE) => Head(todo[t]) \in {"sku", "pkg", "tls", "prepare"}
      BY DEF SetUpPart, Gates
  <1> QED BY <1>1 DEF SetUp

(* A step changes the place and the lists of the thread that takes it.      *)
LEMMA OthersStay ==
    ASSUME TypeOK, NEW t \in Threads, Call(t) \/ Run(t)
    PROVE  \A u \in Threads \ {t} :
              /\ pc'[u] = pc[u] /\ call'[u] = call[u] /\ answer'[u] = answer[u]
              /\ todo'[u] = todo[u] /\ undo'[u] = undo[u]
  <1>0. /\ pc \in [Threads -> Labels]
        /\ \E S : call \in [Threads -> S]
        /\ todo \in [Threads -> Seq(Parts)] /\ undo \in [Threads -> Seq(Parts)]
        /\ answer \in [Threads -> BOOLEAN]
      BY DEF TypeOK
  <1> USE <1>0
  <1>1. CASE Call(t)
      BY <1>1 DEF Call, CallInit, CallRestart, CallShutdown, CallForwarded,
         CallRunCallbacks, Start
  <1>2. CASE Pump(t)
      BY <1>2, PumpLeaves, PumpMoves
  <1>3. CASE Unhook(t)
      BY <1>3 DEF Unhook, KeyUninstall, KeyRemove, CertUninstall, CertUninstallStep,
         LibraryStep, CertForget, Done1
  <1>4. CASE Enter(t) \/ Publish(t) \/ RollBack(t)
      BY <1>4 DEF Enter, Publish, RollBack
  <1>5. CASE SetUp(t)
      BY <1>5 DEF SetUp
  <1>6. CASE EnterShutdown(t) \/ TearDown(t) \/ TornDown(t) \/ Leave(t)
      BY <1>6 DEF EnterShutdown, TearDown, TornDown, Leave, Finish, Done1
  <1>7. CASE Forward(t)
      BY <1>7 DEF Forward, Finish
  <1> QED BY <1>1, <1>2, <1>3, <1>4, <1>5, <1>6, <1>7 DEF Run, Unhook

LEMMA ListsStep ==
    ASSUME TypeOK, ListsFit, NEW t \in Threads, Call(t) \/ Run(t)
    PROVE  ListsFit'
  <1>1. /\ pc \in [Threads -> Labels]
        /\ todo \in [Threads -> Seq(Parts)] /\ undo \in [Threads -> Seq(Parts)]
        /\ ListFits(t)
      BY DEF TypeOK, ListsFit
  <1>2. \A u \in Threads \ {t} : ListFits(u) => ListFits(u)'
      BY OthersStay DEF ListFits
  <1> SUFFICES ListFits(t)'
      BY <1>2 DEF ListsFit
  <1> USE <1>1 DEF ListFits, Tearing, KeyLeaving, CertLeaving
  <1>3. CASE Call(t)
      BY <1>3 DEF Call, CallInit, CallRestart, CallShutdown, CallForwarded,
         CallRunCallbacks, Start
  <1>4. CASE Pump(t)
      BY <1>4, PumpLeaves, PumpMoves DEF Pumping, CertMaking, KeyMaking, CertLabels
  <1>5. CASE Enter(t)
      BY <1>5, ListTypes DEF Enter
  <1>6. CASE SetUp(t)
    <2>1. ASSUME NEW part \in {"sku", "pkg", "tls", "prepare"} PROVE UndoAfter(part) \in RollBacks
        BY UndoAfterPart DEF RollBacks
    <2>2. Tail(<<"log">>) = <<>> /\ Head(<<"log">>) = "log"
        OBVIOUS
    <2>3. pc[t] = "setUp" /\ todo[t] # <<>> /\ UNCHANGED pc
        BY <1>6 DEF SetUp
    <2>4. CASE /\ todo' = [todo EXCEPT ![t] = Tail(@)]
               /\ UNCHANGED <<undo, answer>>
      <3>1. todo'[t] = Tail(todo[t]) /\ undo'[t] = undo[t] /\ pc'[t] = "setUp"
          BY <2>3, <2>4
      <3>2. CASE todo[t] \in TodoLists /\ undo[t] = <<>>
        <4>1. todo'[t] \in TodoLists /\ undo'[t] = <<>>
            BY <2>3, <3>1, <3>2, TodoTails
        <4> QED BY <3>1, <4>1
      <3>3. CASE todo[t] = <<"log">> /\ undo[t] = <<"log">>
        <4>1. todo'[t] = <<>> /\ undo'[t] = <<"log">>
            BY <2>2, <3>1, <3>3
        <4> QED BY <3>1, <4>1
      <3> QED BY <2>3, <3>2, <3>3
    <2>5. CASE /\ Head(todo[t]) \in {"sku", "pkg", "tls", "prepare"}
               /\ todo' = [todo EXCEPT ![t] = <<>>]
               /\ undo' = [undo EXCEPT ![t] = UndoAfter(Head(todo[t]))]
      <3>1. undo'[t] \in RollBacks /\ todo'[t] = <<>> /\ pc'[t] = "setUp"
          BY <2>1, <2>3, <2>5
      <3> QED BY <3>1
    <2> QED BY <1>6, <2>4, <2>5, SetUpCases
  <1>7. CASE Publish(t) \/ TornDown(t) \/ Leave(t)
      BY <1>7 DEF Publish, TornDown, Leave, Finish
  <1>8. CASE RollBack(t)
      BY <1>8, ListTypes DEF RollBack
  <1>9. CASE EnterShutdown(t)
      BY <1>9, ListTypes DEF EnterShutdown
  <1>10. CASE TearDown(t)
      BY <1>10, UndoTails DEF TearDown, Done1
  <1>11. CASE KeyUninstall(t)
      BY <1>11, UndoTails DEF KeyUninstall, Done1
  <1>12. CASE KeyRemove(t)
      BY <1>12, UndoTails, ListTypes DEF KeyRemove, Done1
  <1>13. CASE CertUninstall(t)
      BY <1>13, UndoTails DEF CertUninstall, Done1
  <1>14. CASE CertUninstallStep(t)
      BY <1>14 DEF CertUninstallStep, LibraryStep
  <1>15. CASE CertForget(t)
      BY <1>15, UndoTails, ListTypes DEF CertForget, Done1
  <1>16. CASE Forward(t)
      BY <1>16 DEF Forward, Finish
  <1> QED BY <1>3, <1>4, <1>5, <1>6, <1>7, <1>8, <1>9, <1>10, <1>11, <1>12, <1>13, <1>14,
     <1>15, <1>16 DEF Run

(* The types, variable by variable.                                        *)
LEMMA ListsTyped ==
    ASSUME TypeOK, ListsFit, NEW t \in Threads, Call(t) \/ Run(t)
    PROVE  todo' \in [Threads -> Seq(Parts)] /\ undo' \in [Threads -> Seq(Parts)]
  <1>1. /\ todo \in [Threads -> Seq(Parts)] /\ undo \in [Threads -> Seq(Parts)]
        /\ todo[t] \in Seq(Parts) /\ undo[t] \in Seq(Parts)
      BY DEF TypeOK
  <1>2. \A list \in Seq(Parts) : list # <<>> => Tail(list) \in Seq(Parts)
      OBVIOUS
  <1>3. CASE UNCHANGED <<todo, undo>>
      BY <1>1, <1>3
  <1>4. CASE SetUp(t)
    <2>1. todo[t] # <<>> /\ Tail(todo[t]) \in Seq(Parts)
        BY <1>1, <1>2, <1>4 DEF SetUp
    <2>2. ASSUME NEW part \in {"sku", "pkg", "tls", "prepare"} PROVE UndoAfter(part) \in Seq(Parts)
        BY UndoAfterPart, ListTypes DEF RollBacks
    <2>3. <<>> \in Seq(Parts)
        OBVIOUS
    <2>4. CASE todo' = [todo EXCEPT ![t] = Tail(@)] /\ UNCHANGED undo
        BY <1>1, <2>1, <2>4
    <2>5. CASE /\ Head(todo[t]) \in {"sku", "pkg", "tls", "prepare"}
               /\ todo' = [todo EXCEPT ![t] = <<>>]
               /\ undo' = [undo EXCEPT ![t] = UndoAfter(Head(todo[t]))]
        BY <1>1, <2>2, <2>3, <2>5
    <2> QED BY <1>4, <2>4, <2>5, SetUpCases
  <1>5. CASE TearDown(t) \/ KeyUninstall(t) \/ CertUninstall(t)
      BY <1>1, <1>2, <1>5 DEF TearDown, KeyUninstall, CertUninstall, Done1
  <1>6. CASE KeyRemove(t) \/ CertForget(t)
    <2>1. undo[t] # <<>>
        BY <1>6, ListTypes DEF ListsFit, ListFits, KeyRemove, CertForget, KeyLeaving,
           CertLeaving
    <2> QED BY <1>1, <1>2, <1>6, <2>1 DEF KeyRemove, CertForget, Done1
  <1>7. CASE Enter(t) \/ EnterShutdown(t)
      BY <1>1, <1>7, ListTypes DEF Enter, EnterShutdown
  <1>8. CASE Call(t)
      BY <1>3, <1>8 DEF Call, CallInit, CallRestart, CallShutdown, CallForwarded,
         CallRunCallbacks, Start
  <1>9. CASE Publish(t) \/ RollBack(t) \/ TornDown(t) \/ CertUninstallStep(t) \/ Leave(t) \/ Forward(t)
      BY <1>3, <1>9 DEF Publish, RollBack, TornDown, CertUninstallStep, LibraryStep, Leave,
         Forward
  <1>10. CASE Pump(t)
      BY <1>3, <1>10, PumpLeaves
  <1> QED BY <1>4, <1>5, <1>6, <1>7, <1>8, <1>9, <1>10 DEF Run

LEMMA CallTyped ==
    ASSUME TypeOK, NEW t \in Threads, Call(t) \/ Run(t)
    PROVE  /\ call' \in [Threads -> {"none", "init", "restart", "shutdown", "forwarded", "pump"}]
           /\ answer' \in [Threads -> BOOLEAN]
           /\ calls' \in 0 .. MaxCalls
           /\ game' \in {"down", "up", "pumped"}
  <1>1. /\ call \in [Threads -> {"none", "init", "restart", "shutdown", "forwarded", "pump"}]
        /\ answer \in [Threads -> BOOLEAN]
        /\ calls \in 0 .. MaxCalls
        /\ game \in {"down", "up", "pumped"}
      BY DEF TypeOK
  <1>2. CASE UNCHANGED <<call, answer, calls, game>>
      BY <1>1, <1>2
  <1>3. CASE Call(t)
    <2>1. \/ game' \in {"down", "up", "pumped"}
        BY <1>1, <1>3 DEF Call, CallInit, CallRestart, CallShutdown, CallForwarded,
           CallRunCallbacks
    <2>2. PICK name \in {"init", "restart", "shutdown", "forwarded", "pump"}, label \in Labels : Start(t, name, label)
        BY <1>3 DEF Call, CallInit, CallRestart, CallShutdown, CallForwarded,
           CallRunCallbacks, Labels
    <2>3. calls' \in 0 .. MaxCalls
        BY <1>1, <2>2, RuntimeAssumption DEF Start
    <2>4. call' \in [Threads -> {"none", "init", "restart", "shutdown", "forwarded", "pump"}]
        BY <1>1, <2>2 DEF Start
    <2> QED BY <1>1, <2>1, <2>2, <2>3, <2>4 DEF Start
  <1>4. CASE Pump(t)
      BY <1>2, <1>4, PumpLeaves
  <1>5. CASE Unhook(t)
      BY <1>2, <1>5, UnhookLeaves
  <1>6. CASE SetUp(t) \/ Enter(t)
      BY <1>1, <1>6 DEF SetUp, Enter
  <1>7. CASE Publish(t) \/ RollBack(t) \/ EnterShutdown(t) \/ TearDown(t) \/ TornDown(t)
      BY <1>2, <1>7 DEF Publish, RollBack, EnterShutdown, TearDown, TornDown
  <1>8. CASE Leave(t)
      BY <1>1, <1>8 DEF Leave, Finish
  <1>9. CASE Forward(t)
      BY <1>1, <1>9 DEF Forward, Finish
  <1> QED BY <1>3, <1>4, <1>5, <1>6, <1>7, <1>8, <1>9 DEF Run, Unhook

LEMMA PartsTyped ==
    ASSUME TypeOK, NEW t \in Threads, Call(t) \/ Run(t)
    PROVE  /\ log' \in {"off", "on", "mute"}
           /\ capture' \in BOOLEAN /\ hookInstalled' \in BOOLEAN
           /\ gates' \subseteq Gates /\ faulty' \subseteq Gates
           /\ catalog' \in {"empty", "scanning", "complete"}
           /\ backend' \in {"untried", "loaded", "failed"}
  <1>1. /\ log \in {"off", "on", "mute"}
        /\ capture \in BOOLEAN /\ hookInstalled \in BOOLEAN
        /\ gates \subseteq Gates /\ faulty \subseteq Gates
        /\ catalog \in {"empty", "scanning", "complete"}
        /\ backend \in {"untried", "loaded", "failed"}
      BY DEF TypeOK
  <1>2. CASE UNCHANGED <<partVars, backend>>
      BY <1>1, <1>2
  <1>3. CASE Call(t)
      BY <1>2, <1>3 DEF Call, CallInit, CallRestart, CallShutdown, CallForwarded,
         CallRunCallbacks, Start
  <1>4. CASE Pump(t)
      BY <1>2, <1>4, PumpLeaves
  <1>5. CASE Unhook(t)
      BY <1>2, <1>5, UnhookLeaves
  <1>6. CASE SetUp(t)
    <2>1. SetUpLog => log' \in {"off", "on", "mute"} /\ UNCHANGED <<capture, hookInstalled, gates, faulty, catalog>>
        BY DEF SetUpLog
    <2>2. SetUpCapture => /\ capture' \in BOOLEAN /\ hookInstalled' \in BOOLEAN
                          /\ UNCHANGED <<log, gates, faulty, catalog>>
        BY <1>1 DEF SetUpCapture
    <2>3. ASSUME NEW part \in Gates, NEW ok \in BOOLEAN, SetUpGate(part, ok)
          PROVE  /\ gates' \subseteq Gates /\ faulty' \subseteq Gates
                 /\ UNCHANGED <<log, capture, hookInstalled, catalog>>
        BY <1>1, <2>3 DEF SetUpGate, InstallGate
    <2>4. UNCHANGED backend /\ \E ok \in BOOLEAN : SetUpPart(Head(todo[t]), ok)
        BY <1>6 DEF SetUp
    <2> QED BY <1>1, <2>1, <2>2, <2>3, <2>4 DEF SetUpPart, Prepare, Scan
  <1>7. CASE TearDown(t)
    <2>1. UNCHANGED <<backend, hookInstalled, catalog>> /\ TearDownPart(Head(undo[t]))
        BY <1>7 DEF TearDown
    <2>2. ASSUME NEW part \in Gates, UninstallGate(part, "gate" \in Faults)
          PROVE  gates' \subseteq Gates /\ faulty' \subseteq Gates
        BY <1>1, <2>2 DEF UninstallGate
    <2> QED BY <1>1, <2>1, <2>2 DEF TearDownPart
  <1>8. CASE Enter(t) \/ RollBack(t) \/ EnterShutdown(t) \/ TornDown(t) \/ Leave(t)
      BY <1>2, <1>8 DEF Enter, RollBack, EnterShutdown, TornDown, Leave
  <1>9. CASE Publish(t)
      BY <1>1, <1>9 DEF Publish
  <1>10. CASE Forward(t)
      BY <1>1, <1>10 DEF Forward, LoadBackend
  <1> QED BY <1>3, <1>4, <1>5, <1>6, <1>7, <1>8, <1>9, <1>10 DEF Run, Unhook

LEMMA FlagsTyped ==
    ASSUME TypeOK, NEW t \in Threads, Call(t) \/ Run(t)
    PROVE  /\ ini' \in Settings
           /\ lock' \in Threads \cup {Nobody}
           /\ initialized' \in BOOLEAN /\ firstPump' \in BOOLEAN
           /\ certActive' \in BOOLEAN /\ certFailed' \in BOOLEAN /\ certAddr' \in BOOLEAN
           /\ keyActive' \in BOOLEAN /\ keyAddr' \in BOOLEAN
           /\ activations' \in Nat
  <1>1. /\ ini \in Settings
        /\ lock \in Threads \cup {Nobody}
        /\ initialized \in BOOLEAN /\ firstPump \in BOOLEAN
        /\ certActive \in BOOLEAN /\ certFailed \in BOOLEAN /\ certAddr \in BOOLEAN
        /\ keyActive \in BOOLEAN /\ keyAddr \in BOOLEAN
        /\ activations \in Nat /\ table \in Table
      BY DEF TypeOK
  <1>2. CASE UNCHANGED <<ini, runtimeVars, certVars, keyVars, activations>>
      BY <1>1, <1>2
  <1>3. CASE Call(t)
      BY <1>2, <1>3 DEF Call, CallInit, CallRestart, CallShutdown, CallForwarded,
         CallRunCallbacks, Start
  <1>4. CASE CertUpdate(t)
      BY <1>1, <1>4 DEF CertUpdate, CertCheck, CertLibrary, CertNoLibrary, CertPublish,
         CertActivate,
                        CertRemovePartial, LibraryStep, CertGiveUp
  <1>5. CASE KeyCheck(t) \/ KeyActivate(t) \/ KeyUndo(t) \/ KeyEnable(t) \/ Activated(t)
      BY <1>1, <1>5 DEF KeyCheck, KeyActivate, KeyUndo, KeyEnable, Activated
  <1>6. CASE FirstPump(t)
      BY <1>1, <1>6 DEF FirstPump
  <1>7. CASE KeyCreate(t)
    <2>1. PICK r \in MH_CreateHook(table, "getter") : keyAddr' = (keyAddr \/ r.ok)
        BY <1>7 DEF KeyCreate
    <2>2. r.ok \in BOOLEAN
        BY <1>1, <2>1, CreateOutcome, RuntimeAssumption DEF Outcome
    <2>3. keyAddr' \in BOOLEAN
        BY <1>1, <2>1, <2>2
    <2> QED BY <1>1, <1>7, <2>3 DEF KeyCreate
  <1>8. CASE Activate(t)
      BY <1>1, <1>8 DEF Activate
  <1>9. CASE SetUp(t) \/ RollBack(t) \/ TearDown(t) \/ TornDown(t) \/ Forward(t)
      BY <1>2, <1>9 DEF SetUp, RollBack, TearDown, TornDown, Forward
  <1>10. CASE Enter(t) \/ Publish(t) \/ EnterShutdown(t) \/ Leave(t)
      BY <1>1, <1>10 DEF Enter, Publish, EnterShutdown, Leave
  <1>11. CASE KeyUninstall(t) \/ KeyRemove(t)
      BY <1>1, <1>11 DEF KeyUninstall, KeyRemove
  <1>12. CASE CertUninstall(t) \/ CertUninstallStep(t) \/ CertForget(t)
      BY <1>1, <1>12 DEF CertUninstall, CertUninstallStep, LibraryStep, CertForget
  <1> QED BY <1>3, <1>4, <1>5, <1>6, <1>7, <1>8, <1>9, <1>10, <1>11, <1>12 DEF Run, Pump

LEMMA TypeInit == Init => TypeOK /\ ListsFit
  <1> SUFFICES ASSUME Init PROVE TypeOK /\ ListsFit
      OBVIOUS
  <1>1. table \in Table
      BY DEF Init, Table, EmptyTable
  <1>2. pc \in [Threads -> Labels] /\ \A t \in Threads : pc[t] = "idle"
      BY DEF Init, Labels
  <1>3. call \in [Threads -> {"none", "init", "restart", "shutdown", "forwarded", "pump"}]
      BY DEF Init
  <1>4. todo \in [Threads -> Seq(Parts)] /\ undo \in [Threads -> Seq(Parts)]
      BY ListTypes DEF Init
  <1>5. answer \in [Threads -> BOOLEAN]
      BY DEF Init
  <1>6. activations \in Nat /\ calls \in 0 .. MaxCalls /\ game \in {"down", "up", "pumped"}
      BY RuntimeAssumption DEF Init
  <1>7. /\ ini \in Settings
        /\ lock \in Threads \cup {Nobody}
        /\ initialized \in BOOLEAN /\ firstPump \in BOOLEAN
        /\ certActive \in BOOLEAN /\ certFailed \in BOOLEAN /\ certAddr \in BOOLEAN
        /\ keyActive \in BOOLEAN /\ keyAddr \in BOOLEAN
      BY DEF Init
  <1>8. /\ log \in {"off", "on", "mute"}
        /\ capture \in BOOLEAN /\ hookInstalled \in BOOLEAN
        /\ gates \subseteq Gates /\ faulty \subseteq Gates
        /\ catalog \in {"empty", "scanning", "complete"}
        /\ backend \in {"untried", "loaded", "failed"}
      BY DEF Init
  <1>9. TypeOK
      BY <1>1, <1>2, <1>3, <1>4, <1>5, <1>6, <1>7, <1>8 DEF TypeOK
  <1>10. \A t \in Threads : pc[t] = "idle" /\ todo[t] = <<>> /\ undo[t] = <<>>
      BY DEF Init
  <1>11. ListsFit
      BY <1>10 DEF ListsFit, ListFits, Tearing, KeyLeaving, CertLeaving
  <1> QED BY <1>9, <1>11

LEMMA TypeStep == TypeOK /\ ListsFit /\ [Next]_vars => (TypeOK /\ ListsFit)'
  <1> SUFFICES ASSUME TypeOK, ListsFit, [Next]_vars PROVE (TypeOK /\ ListsFit)'
      OBVIOUS
  <1>1. CASE UNCHANGED vars
    <2>1. TypeOK'
        BY <1>1 DEF vars, TypeOK
    <2>2. ListsFit'
        BY <1>1 DEF vars, ListsFit, ListFits
    <2> QED BY <2>1, <2>2
  <1>2. ASSUME NEW t \in Threads, Call(t) \/ Run(t) PROVE (TypeOK /\ ListsFit)'
    <2>1. TypeOK'
        BY <1>2, TableTyped, PcTyped, ListsTyped, CallTyped, PartsTyped, FlagsTyped DEF TypeOK
    <2> QED BY <1>2, <2>1, ListsStep
  <1> QED BY <1>1, <1>2 DEF Next

(* Every variable keeps its type, and the lists of a thread are the ones that *)
(* runtime::initialize, its roll-back and runtime::shutdown make.          *)
THEOREM TypeCorrect == Spec => [](TypeOK /\ ListsFit)
  <1> QED BY TypeInit, TypeStep, PTL DEF Spec

--------------------------------------------------------------------------------
(* The runtime lock and the first pump.                                    *)

(* g_lock is held by whoever is between its acquisition and its release.   *)
LockFits == \A t \in Threads : pc[t] \in Inside <=> lock = t

LEMMA LockStep ==
    ASSUME TypeOK, LockFits, NEW t \in Threads, Call(t) \/ Run(t)
    PROVE  LockFits'
  <1>0. /\ pc \in [Threads -> Labels] /\ lock \in Threads \cup {Nobody} /\ Nobody \notin Threads
      BY RuntimeAssumption DEF TypeOK
  <1>1. \A u \in Threads \ {t} : pc'[u] = pc[u]
      BY OthersStay
  <1> SUFFICES /\ \A u \in Threads \ {t} : lock' = u <=> lock = u
               /\ pc'[t] \in Inside <=> lock' = t
      BY <1>1 DEF LockFits
  <1>2. pc[t] \in Inside <=> lock = t
      BY DEF LockFits
  <1> USE <1>0, <1>2 DEF Inside, Tearing, KeyLeaving, CertLeaving
  <1>3. CASE Call(t)
      BY <1>3 DEF Call, CallInit, CallRestart, CallShutdown, CallForwarded,
         CallRunCallbacks, Start
  <1>4. CASE Pump(t)
      BY <1>4, PumpLeaves, PumpMoves DEF Pumping, CertMaking, KeyMaking, CertLabels
  <1>5. CASE Unhook(t)
    <2>1. lock' = lock /\ pc[t] \in Tearing /\ pc'[t] \in Tearing
        BY <1>5 DEF Unhook, KeyUninstall, KeyRemove, CertUninstall, CertUninstallStep,
           LibraryStep, CertForget
    <2> QED BY <2>1
  <1>6. CASE SetUp(t) \/ Enter(t)
      BY <1>6 DEF SetUp, Enter
  <1>7. CASE Publish(t) \/ RollBack(t) \/ EnterShutdown(t) \/ TearDown(t) \/ TornDown(t)
      BY <1>7 DEF Publish, RollBack, EnterShutdown, TearDown, TornDown
  <1>8. CASE Leave(t)
      BY <1>8 DEF Leave, Finish
  <1>9. CASE Forward(t)
      BY <1>9 DEF Forward, Finish
  <1> QED BY <1>3, <1>4, <1>5, <1>6, <1>7, <1>8, <1>9 DEF Run, Unhook

(* One pump of the process goes past the exchange of g_firstCallbackPump.  *)
OnceFits ==
    /\ \A t, u \in Threads : pc[t] \in BeforeActivation /\ pc[u] \in BeforeActivation => t = u
    /\ \A t \in Threads : pc[t] \in BeforeActivation => firstPump /\ activations = 0
    /\ ~firstPump => activations = 0
    /\ ActivatedOnce

LEMMA OnceStep ==
    ASSUME TypeOK, OnceFits, NEW t \in Threads, Call(t) \/ Run(t)
    PROVE  OnceFits'
  <1>0. /\ pc \in [Threads -> Labels] /\ activations \in Nat
      BY DEF TypeOK
  <1>1. \A u \in Threads \ {t} : pc'[u] = pc[u]
      BY OthersStay
  <1> USE DEF BeforeActivation, KeyMaking
  <1>2. CASE /\ UNCHANGED <<firstPump, activations>>
             /\ pc'[t] \in BeforeActivation => pc[t] \in BeforeActivation
      BY <1>0, <1>1, <1>2 DEF OnceFits, ActivatedOnce
  <1>3. CASE Call(t)
      BY <1>0, <1>2, <1>3 DEF Call, CallInit, CallRestart, CallShutdown, CallForwarded,
         CallRunCallbacks, Start
  <1>4. CASE Unhook(t)
      BY <1>0, <1>2, <1>4 DEF Unhook, KeyUninstall, KeyRemove, CertUninstall,
         CertUninstallStep, LibraryStep, CertForget
  <1>5. CASE SetUp(t) \/ Enter(t) \/ Publish(t) \/ RollBack(t)
      BY <1>0, <1>2, <1>5 DEF SetUp, Enter, Publish, RollBack
  <1>6. CASE EnterShutdown(t) \/ TearDown(t) \/ TornDown(t) \/ Leave(t)
      BY <1>0, <1>2, <1>6 DEF EnterShutdown, TearDown, TornDown, Leave, Finish
  <1>7. CASE Forward(t)
      BY <1>0, <1>2, <1>7 DEF Forward, Finish
  <1>8. CASE FirstPump(t)
    <2>1. firstPump' = TRUE /\ UNCHANGED activations
        BY <1>8 DEF FirstPump
    <2>2. pc'[t] = IF firstPump THEN "backend" ELSE "keyCheck"
        BY <1>0, <1>8 DEF FirstPump, PumpStep
    <2>3. CASE firstPump
        BY <1>2, <2>1, <2>2, <2>3
    <2>4. CASE ~firstPump
      <3>1. activations = 0 /\ \A u \in Threads : pc[u] \notin BeforeActivation
          BY <2>4 DEF OnceFits
      <3>2. \A u \in Threads : pc'[u] \in BeforeActivation => u = t
          BY <1>1, <3>1
      <3> QED BY <2>1, <3>1, <3>2 DEF OnceFits, ActivatedOnce
    <2> QED BY <2>3, <2>4
  <1>9. CASE Activate(t)
    <2>1. /\ pc[t] = "activate" /\ pc'[t] = "activated"
          /\ activations' = activations + 1 /\ UNCHANGED firstPump
        BY <1>0, <1>9 DEF Activate, PumpStep
    <2>2. firstPump /\ activations = 0 /\ \A u \in Threads : pc[u] \in BeforeActivation => u = t
        BY <2>1 DEF OnceFits
    <2>3. \A u \in Threads : pc'[u] \notin BeforeActivation
        BY <1>1, <2>1, <2>2
    <2>4. activations' <= 1
        BY <2>1, <2>2
    <2> QED BY <2>1, <2>2, <2>3, <2>4 DEF OnceFits, ActivatedOnce
  <1>10. CASE Activated(t) \/ KeyCheck(t) \/ KeyActivate(t)
      BY <1>0, <1>2, <1>10 DEF Activated, KeyCheck, KeyActivate, PumpStep
  <1>11. CASE KeyUndo(t) \/ KeyCreate(t) \/ KeyEnable(t)
      BY <1>0, <1>2, <1>11 DEF KeyUndo, KeyCreate, KeyEnable
  <1>12. CASE CertUpdate(t)
    <2>1. UNCHANGED <<firstPump, activations>>
      BY <1>12 DEF CertUpdate, CertCheck, CertLibrary, CertNoLibrary, CertPublish, CertActivate,
                   CertRemovePartial, LibraryStep, CertGiveUp
    <2>2. pc'[t] \notin BeforeActivation
      BY <1>0, <1>12 DEF CertUpdate, CertCheck, CertDone, CertLibrary, CertNoLibrary,
         CertPublish, CertActivate,
                   CertRemovePartial, LibraryStep, CertGiveUp, PumpStep
    <2> QED BY <1>2, <2>1, <2>2
  <1> QED BY <1>3, <1>4, <1>5, <1>6, <1>7, <1>8, <1>9, <1>10, <1>11, <1>12 DEF Run, Unhook, Pump

(* One thread at a time is inside initialize or shutdown of runtime.cpp.   *)
THEOREM MutualExclusion == Spec => []LockFits
  <1>1. Init => LockFits
      BY RuntimeAssumption DEF Init, LockFits, Inside, Tearing, KeyLeaving, CertLeaving
  <1>2. TypeOK /\ LockFits /\ [Next]_vars => LockFits'
    <2>1. LockFits /\ UNCHANGED vars => LockFits'
        BY DEF vars, LockFits
    <2> QED BY <2>1, LockStep DEF Next
  <1> QED BY <1>1, <1>2, TypeCorrect, PTL DEF Spec

LEMMA OnceInvariant == Spec => []OnceFits
  <1>1. Init => OnceFits
      BY DEF Init, OnceFits, ActivatedOnce, BeforeActivation, KeyMaking
  <1>2. TypeOK /\ OnceFits /\ [Next]_vars => OnceFits'
    <2>1. OnceFits /\ UNCHANGED vars => OnceFits'
        BY DEF vars, OnceFits, ActivatedOnce
    <2> QED BY <2>1, OnceStep DEF Next
  <1> QED BY <1>1, <1>2, TypeCorrect, PTL DEF Spec

(* packages::activate_discovered runs at most once per process, from however *)
(* many threads the game pumps.                                            *)
THEOREM ActivatesOnce == Spec => []ActivatedOnce
  <1>1. OnceFits => ActivatedOnce
      BY DEF OnceFits
  <1> QED BY <1>1, OnceInvariant, PTL

--------------------------------------------------------------------------------
(* What is in force while the parts are set up and torn down.              *)

(* What holds when nobody is inside initialize or shutdown.                *)
Rest ==
    IF initialized
    THEN /\ log # "off"
         /\ \A gate \in Gates : Requested(gate) => gate \in gates
         /\ catalog = "complete"
    ELSE /\ log = "off"
         /\ ~capture
         /\ gates \subseteq faulty

(* What is in force is off the list of initialize, or on its roll-back, but *)
(* for the patches that could not be written back.                         *)
SettingUp(t) ==
    /\ ~initialized
    /\ log = "off" <=> In("log", todo[t])
    /\ capture => IF undo[t] = <<>> THEN ~In("capture", todo[t]) ELSE In("capture", undo[t])
    /\ \A gate \in gates \ faulty :
          IF undo[t] = <<>> THEN ~In(gate, todo[t]) ELSE In(gate, undo[t])
    /\ undo[t] = <<>> =>
         /\ \A gate \in Gates : Requested(gate) => gate \in gates \/ In(gate, todo[t])
         /\ todo[t] = <<>> => catalog = "scanning"

(* The logger goes last, and what is in force is still listed.             *)
TearingDown(t) ==
    /\ ~initialized
    /\ log = "off" <=> undo[t] = <<>>
    /\ capture => In("capture", undo[t])
    /\ \A gate \in gates \ faulty : In(gate, undo[t])

Armed(t) ==
    /\ pc[t] = "leave" => Rest
    /\ pc[t] = "setUp" => SettingUp(t)
    /\ pc[t] \in Tearing => TearingDown(t)

ArmedFits ==
    /\ lock = Nobody => Rest
    /\ \A t \in Threads : Armed(t)

LEMMA RequestStays == ini' = ini => \A gate \in Gates : Requested(gate)' = Requested(gate)
  BY DEF Requested, Gates

LEMMA ArmedElsewhere ==
    ASSUME TypeOK, ArmedFits, NEW t \in Threads, Call(t) \/ Run(t),
           pc[t] \notin Inside, pc'[t] \notin Inside,
           UNCHANGED <<ini, lock, initialized, log, capture, gates, faulty, catalog>>
    PROVE  ArmedFits'
  <1>1. Rest => Rest'
      BY RequestStays DEF Rest
  <1>2. \A u \in Threads \ {t} : Armed(u) => Armed(u)'
      BY <1>1, RequestStays, OthersStay DEF Armed, SettingUp, TearingDown
  <1>3. Armed(t)'
      BY DEF Armed, Inside, Tearing
  <1> QED BY <1>1, <1>2, <1>3 DEF ArmedFits

LEMMA ArmedSetUp ==
    ASSUME TypeOK, ListsFit, NEW t \in Threads, pc[t] = "setUp", SettingUp(t), SetUp(t)
    PROVE  SettingUp(t)'
  <1>1. /\ todo \in [Threads -> Seq(Parts)] /\ undo \in [Threads -> Seq(Parts)]
        /\ gates \subseteq Gates /\ faulty \subseteq Gates
        /\ log \in {"off", "on", "mute"}
      BY DEF TypeOK
  <1>2. /\ todo[t] # <<>>
        /\ UNCHANGED <<ini, initialized>>
        /\ \A gate \in Gates : Requested(gate)' = Requested(gate)
      BY RequestStays DEF SetUp
  <1> DEFINE list == todo[t]
  <1>3. \/ list \in TodoLists /\ undo[t] = <<>>
        \/ list = <<"log">> /\ undo[t] = <<"log">>
      BY <1>2 DEF ListsFit, ListFits
  <1>4. /\ \A s : In(s, list) <=> s = Head(list) \/ In(s, Tail(list))
        /\ Head(list) \in Parts
      BY <1>1, <1>2, HeadLeaves
  <1>5. list = <<"log">> => Tail(list) = <<>> /\ Head(list) = "log"
      OBVIOUS
  <1>6. ~In("log", Tail(list)) /\ ~In(Head(list), Tail(list))
    BY <1>2, <1>3, <1>5, TodoOrder, NothingIn
  <1>7. /\ ~initialized
        /\ log = "off" <=> In("log", list)
        /\ capture => IF undo[t] = <<>> THEN ~In("capture", list) ELSE In("capture", undo[t])
        /\ \A gate \in gates \ faulty :
              IF undo[t] = <<>> THEN ~In(gate, list) ELSE In(gate, undo[t])
        /\ undo[t] = <<>> => \A gate \in Gates : Requested(gate) => gate \in gates \/ In(gate, list)
      BY DEF SettingUp
  <1>8. CASE /\ SetUpPart(Head(list), TRUE)
             /\ todo' = [todo EXCEPT ![t] = Tail(@)]
             /\ UNCHANGED <<undo, answer>>
    <2>1. todo'[t] = Tail(list) /\ undo'[t] = undo[t]
        BY <1>1, <1>8
    <2>2. log' # "off"
      <3>1. Head(list) # "log" => log # "off"
          BY <1>4, <1>6, <1>7
      <3>2. IF Head(list) = "log" THEN log' # "off" ELSE log' = log
          BY <1>8 DEF SetUpPart, SetUpLog, SetUpCapture, SetUpGate, Prepare, Scan, Gates
      <3> QED BY <3>1, <3>2
    <2>3. capture' => capture \/ (Head(list) = "capture" /\ undo[t] = <<>>)
        BY <1>3, <1>5, <1>8 DEF SetUpPart, SetUpLog, SetUpCapture, SetUpGate, Prepare, Scan
    <2>4. ASSUME NEW gate \in gates' \ faulty'
          PROVE  gate \in gates \ faulty \/ (Head(list) = gate /\ undo[t] = <<>>)
        BY <1>3, <1>5, <1>8, <2>4
           DEF SetUpPart, SetUpLog, SetUpCapture, SetUpGate, InstallGate, Prepare, Scan, Gates
    <2>5. ASSUME NEW gate \in Gates, Requested(gate), gate \in gates \/ Head(list) = gate
          PROVE  gate \in gates'
        BY <1>1, <1>8, <2>5
           DEF SetUpPart, SetUpLog, SetUpCapture, SetUpGate, InstallGate, Prepare, Scan, Gates
    <2>6. undo[t] = <<>> /\ Tail(list) = <<>> => catalog' = "scanning"
      <3>1. undo[t] = <<>> /\ Tail(list) = <<>> => Head(list) = "scan"
          BY <1>2, <1>3, <1>5, TodoOrder, ListTypes
      <3> QED BY <1>8, <3>1 DEF SetUpPart, Scan, Gates
    <2> HIDE DEF list
    <2>7. capture' => IF undo[t] = <<>> THEN ~In("capture", Tail(list)) ELSE In("capture", undo[t])
        BY <1>4, <1>6, <1>7, <2>3
    <2>8. \A gate \in gates' \ faulty' :
              IF undo[t] = <<>> THEN ~In(gate, Tail(list)) ELSE In(gate, undo[t])
        BY <1>4, <1>6, <1>7, <2>4
    <2>9. undo[t] = <<>> => \A gate \in Gates : Requested(gate) => gate \in gates' \/ In(gate, Tail(list))
        BY <1>4, <1>7, <2>5
    <2> QED BY <1>2, <1>6, <1>7, <2>1, <2>2, <2>6, <2>7, <2>8, <2>9 DEF SettingUp
  <1>9. CASE /\ Head(list) \in {"sku", "pkg", "tls", "prepare"}
             /\ SetUpPart(Head(list), FALSE)
             /\ todo' = [todo EXCEPT ![t] = <<>>]
             /\ undo' = [undo EXCEPT ![t] = UndoAfter(Head(list))]
    <2>1. list \in TodoLists /\ undo[t] = <<>>
        BY <1>3, <1>5, <1>9
    <2>2. todo'[t] = <<>> /\ undo'[t] = UndoAfter(Head(list))
        BY <1>1, <1>9
    <2>3. UndoAfter(Head(list)) # <<>>
        BY <1>9, UndoAfterPart, ListTypes DEF RollBacks
    <2>4. log' # "off"
      <3>1. log # "off"
          BY <1>4, <1>6, <1>7, <1>9
      <3> QED BY <1>9, <3>1 DEF SetUpPart, SetUpGate, Prepare, Gates
    <2>5. capture' = capture /\ gates' \ faulty' \subseteq gates \ faulty
        BY <1>9 DEF SetUpPart, SetUpGate, InstallGate, Prepare, Gates
    <2>6. \A part \in {"capture"} \cup Gates : ~In(part, list) => In(part, UndoAfter(Head(list)))
        BY <1>2, <1>9, <2>1, RollBackCovers
    <2> HIDE DEF list
    <2> QED BY <1>1, <1>2, <1>7, <2>1, <2>2, <2>3, <2>4, <2>5, <2>6, NothingIn DEF SettingUp
  <1> QED BY <1>8, <1>9, SetUpCases

LEMMA ArmedTearDown ==
    ASSUME TypeOK, ListsFit, NEW t \in Threads, pc[t] = "tearDown", TearingDown(t), TearDown(t)
    PROVE  TearingDown(t)'
  <1>1. /\ undo \in [Threads -> Seq(Parts)]
        /\ undo[t] # <<>>
        /\ UNCHANGED initialized
        /\ undo' = [undo EXCEPT ![t] = Tail(@)]
        /\ TearDownPart(Head(undo[t]))
      BY DEF TypeOK, TearDown, Done1
  <1> DEFINE list == undo[t]
  <1>2. undo'[t] = Tail(list)
      BY <1>1
  <1>3. /\ \A s : In(s, list) <=> s = Head(list) \/ In(s, Tail(list))
        /\ Head(list) = "log" <=> Tail(list) = <<>>
      BY <1>1, HeadLeaves, UndoTails DEF ListsFit, ListFits
  <1>4. /\ ~initialized
        /\ log # "off"
        /\ capture => In("capture", list)
        /\ \A gate \in gates \ faulty : In(gate, list)
      BY <1>1 DEF TearingDown
  <1>5. IF Head(list) = "log" THEN log' = "off" ELSE log' = log
      BY <1>1 DEF TearDownPart, Gates
  <1>6. capture' => capture /\ Head(list) # "capture"
      BY <1>1 DEF TearDownPart, Gates
  <1>7. \A gate \in gates' \ faulty' : gate \in gates \ faulty /\ Head(list) # gate
    <2>1. gates \subseteq Gates
        BY DEF TypeOK
    <2>2. CASE Head(list) \in {"log", "capture"}
        BY <1>1, <2>1, <2>2 DEF TearDownPart, Gates
    <2>3. CASE Head(list) \in Gates /\ UninstallGate(Head(list), "gate" \in Faults)
        BY <2>3 DEF UninstallGate
    <2> QED BY <1>1, <2>2, <2>3 DEF TearDownPart
  <1> HIDE DEF list
  <1>8. capture' => In("capture", Tail(list))
      BY <1>3, <1>4, <1>6
  <1>9. \A gate \in gates' \ faulty' : In(gate, Tail(list))
      BY <1>3, <1>4, <1>7
  <1>10. log' = "off" <=> Tail(list) = <<>>
      BY <1>3, <1>4, <1>5
  <1> QED BY <1>1, <1>2, <1>4, <1>8, <1>9, <1>10 DEF TearingDown

LEMMA ArmedStep ==
    ASSUME TypeOK, ListsFit, LockFits, ArmedFits, NEW t \in Threads, Call(t) \/ Run(t)
    PROVE  ArmedFits'
  <1>0. /\ pc \in [Threads -> Labels]
        /\ todo \in [Threads -> Seq(Parts)] /\ undo \in [Threads -> Seq(Parts)]
        /\ Nobody \notin Threads
        /\ Armed(t)
      BY RuntimeAssumption DEF TypeOK, ArmedFits
  <1>1. ASSUME lock = t \/ lock' = t \/ pc[t] \in Inside \/ pc'[t] \in Inside,
               Armed(t)', lock' = Nobody => Rest'
        PROVE  ArmedFits'
    <2>1. LockFits'
        BY LockStep
    <2>2. \A u \in Threads \ {t} : pc'[u] \notin Inside
        BY <1>1, <2>1, OthersStay DEF LockFits
    <2> QED BY <1>1, <2>2 DEF ArmedFits, Armed, Inside, Tearing
  <1>2. CASE Call(t)
    <2>1. /\ pc[t] \notin Inside /\ pc'[t] \notin Inside
          /\ UNCHANGED <<ini, lock, initialized, log, capture, gates, faulty, catalog>>
        BY <1>0, <1>2 DEF Call, CallInit, CallRestart, CallShutdown, CallForwarded,
           CallRunCallbacks,
                          Start, Inside, Tearing, KeyLeaving, CertLeaving
    <2> QED BY <2>1, ArmedElsewhere
  <1>3. CASE Pump(t)
    <2>1. pc[t] \notin Inside /\ pc'[t] \notin Inside
        BY <1>0, <1>3, PumpMoves DEF Pumping, CertMaking, KeyMaking, CertLabels,
                                     Inside, Tearing, KeyLeaving, CertLeaving
    <2> QED BY <1>3, <2>1, PumpLeaves, ArmedElsewhere
  <1>4. CASE Forward(t)
    <2>1. /\ pc[t] \notin Inside /\ pc'[t] \notin Inside
          /\ UNCHANGED <<ini, lock, initialized, log, capture, gates, faulty, catalog>>
        BY <1>0, <1>4 DEF Forward, Finish, Inside, Tearing, KeyLeaving, CertLeaving
    <2> QED BY <2>1, ArmedElsewhere
  <1>5. CASE Enter(t)
    <2>1. /\ pc[t] = "initialize" /\ lock = Nobody /\ lock' = t
          /\ UNCHANGED <<ini, initialized, log, capture, gates, faulty, catalog>>
          /\ Rest
        BY <1>5 DEF Enter, ArmedFits
    <2>2. CASE initialized
      <3>1. pc'[t] = "leave" /\ Rest'
          BY <1>0, <1>5, <2>1, <2>2, RequestStays DEF Enter, Rest
      <3>2. Armed(t)'
          BY <3>1 DEF Armed, Tearing, KeyLeaving, CertLeaving
      <3> QED BY <1>0, <1>1, <2>1, <3>2
    <2>3. CASE ~initialized
      <3>1. /\ pc'[t] = "setUp"
            /\ \/ todo'[t] = SetUpOrder /\ undo'[t] = <<>>
               \/ todo'[t] = <<"log">> /\ undo'[t] = <<"log">>
          BY <1>0, <1>5, <2>3 DEF Enter
      <3>2. /\ log = "off" /\ ~capture /\ gates \subseteq faulty /\ gates \subseteq Gates
          BY <2>1, <2>3 DEF Rest, TypeOK
      <3>3. /\ In("log", SetUpOrder) /\ In("log", <<"log">>)
            /\ In("sku", SetUpOrder) /\ In("pkg", SetUpOrder) /\ In("tls", SetUpOrder)
            /\ SetUpOrder # <<>> /\ <<"log">> # <<>>
          BY DEF In, SetUpOrder
      <3>4. SettingUp(t)'
          BY <2>1, <2>3, <3>1, <3>2, <3>3 DEF SettingUp, Gates
      <3>5. Armed(t)'
          BY <3>1, <3>4 DEF Armed, Tearing, KeyLeaving, CertLeaving
      <3> QED BY <1>0, <1>1, <2>1, <3>5
    <2> QED BY <2>2, <2>3
  <1>6. CASE SetUp(t)
    <2>1. pc[t] = "setUp" /\ pc'[t] = "setUp" /\ lock' = lock /\ SettingUp(t)
        BY <1>0, <1>6 DEF SetUp, Armed
    <2>2. SettingUp(t)'
        BY <1>6, <2>1, ArmedSetUp
    <2>3. lock = t
        BY <2>1 DEF LockFits, Inside
    <2>4. Armed(t)'
        BY <2>1, <2>2 DEF Armed, Tearing, KeyLeaving, CertLeaving
    <2> QED BY <1>0, <1>1, <2>1, <2>3, <2>4
  <1>7. CASE Publish(t)
    <2>1. /\ pc[t] = "setUp" /\ pc'[t] = "leave" /\ lock' = lock /\ SettingUp(t)
          /\ todo[t] = <<>> /\ undo[t] = <<>>
          /\ initialized' /\ catalog' = "complete"
          /\ UNCHANGED <<ini, log, gates>>
        BY <1>0, <1>7 DEF Publish, Armed
    <2>2. lock = t
        BY <2>1 DEF LockFits, Inside
    <2>3. log # "off" /\ \A gate \in Gates : Requested(gate) => gate \in gates
        BY <2>1, NothingIn DEF SettingUp
    <2>4. Rest'
        BY <2>1, <2>3, RequestStays DEF Rest
    <2>5. Armed(t)'
        BY <2>1, <2>4 DEF Armed, Tearing, KeyLeaving, CertLeaving
    <2> QED BY <1>0, <1>1, <2>1, <2>2, <2>5
  <1>8. CASE RollBack(t)
    <2>1. /\ pc[t] = "setUp" /\ pc'[t] = "tearDown" /\ lock' = lock /\ SettingUp(t)
          /\ todo[t] = <<>> /\ undo[t] # <<>>
          /\ UNCHANGED <<ini, initialized, log, capture, gates, faulty, undo>>
        BY <1>0, <1>8 DEF RollBack, Armed
    <2>2. lock = t
        BY <2>1 DEF LockFits, Inside
    <2>3. TearingDown(t)'
        BY <2>1, NothingIn DEF SettingUp, TearingDown
    <2>4. Armed(t)'
        BY <2>1, <2>3 DEF Armed
    <2> QED BY <1>0, <1>1, <2>1, <2>2, <2>4
  <1>9. CASE EnterShutdown(t)
    <2>1. /\ pc[t] = "shutdown" /\ lock = Nobody /\ lock' = t /\ ~initialized'
          /\ UNCHANGED <<ini, log, capture, gates, faulty, catalog>>
          /\ Rest
        BY <1>9 DEF EnterShutdown, ArmedFits
    <2>2. CASE initialized
      <3>1. pc'[t] = "tearDown" /\ undo'[t] = TearDownOrder
          BY <1>0, <1>9, <2>2 DEF EnterShutdown
      <3>2. log # "off" /\ gates \subseteq Gates
          BY <2>1, <2>2 DEF Rest, TypeOK
      <3>3. TearingDown(t)'
          BY <2>1, <3>1, <3>2, TearDownCovers, ListTypes DEF TearingDown
      <3>4. Armed(t)'
          BY <3>1, <3>3 DEF Armed
      <3> QED BY <1>0, <1>1, <2>1, <3>4
    <2>3. CASE ~initialized
      <3>1. pc'[t] = "leave"
          BY <1>0, <1>9, <2>3 DEF EnterShutdown
      <3>2. Rest'
          BY <2>1, <2>3 DEF Rest
      <3>3. Armed(t)'
          BY <3>1, <3>2 DEF Armed, Tearing, KeyLeaving, CertLeaving
      <3> QED BY <1>0, <1>1, <2>1, <3>3
    <2> QED BY <2>2, <2>3
  <1>10. CASE TearDown(t)
    <2>1. pc[t] = "tearDown" /\ pc'[t] = "tearDown" /\ lock' = lock /\ TearingDown(t)
        BY <1>0, <1>10 DEF TearDown, Armed, Tearing
    <2>2. TearingDown(t)'
        BY <1>10, <2>1, ArmedTearDown
    <2>3. lock = t
        BY <2>1 DEF LockFits, Inside, Tearing
    <2>4. Armed(t)'
        BY <2>1, <2>2 DEF Armed
    <2> QED BY <1>0, <1>1, <2>1, <2>3, <2>4
  <1>11. CASE TornDown(t)
    <2>1. /\ pc[t] = "tearDown" /\ pc'[t] = "leave" /\ lock' = lock /\ TearingDown(t) /\ undo[t] = <<>>
          /\ UNCHANGED <<ini, initialized, log, capture, gates, faulty>>
        BY <1>0, <1>11 DEF TornDown, Armed, Tearing
    <2>2. lock = t
        BY <2>1 DEF LockFits, Inside, Tearing
    <2>3. Rest'
        BY <2>1, NothingIn DEF TearingDown, Rest
    <2>4. Armed(t)'
        BY <2>1, <2>3 DEF Armed, Tearing, KeyLeaving, CertLeaving
    <2> QED BY <1>0, <1>1, <2>1, <2>2, <2>4
  <1>12. CASE Unhook(t)
    <2>1. /\ pc[t] \in Tearing /\ pc'[t] \in Tearing
          /\ undo[t] # <<>> /\ Head(undo[t]) \in {"manifest", "cert"}
          /\ undo'[t] = undo[t] \/ undo'[t] = Tail(undo[t])
      <3>1. CASE KeyUninstall(t)
          BY <1>0, <3>1 DEF KeyUninstall, Done1, Tearing, KeyLeaving
      <3>2. CASE CertUninstall(t)
          BY <1>0, <3>2 DEF CertUninstall, Done1, Tearing, CertLeaving
      <3>3. KeyOn # <<>> /\ CertOn # <<>> /\ Head(KeyOn) = "manifest" /\ Head(CertOn) = "cert"
          BY DEF KeyOn, CertOn
      <3>4. CASE KeyRemove(t)
        <4>1. undo[t] = KeyOn
            BY <3>4 DEF KeyRemove, ListsFit, ListFits, KeyLeaving
        <4> QED BY <1>0, <3>3, <3>4, <4>1 DEF KeyRemove, Done1, Tearing, KeyLeaving
      <3>5. CASE CertUninstallStep(t) \/ CertForget(t)
        <4>1. undo[t] = CertOn
            BY <3>5 DEF CertUninstallStep, LibraryStep, CertForget, ListsFit, ListFits,
               CertLeaving
        <4> QED BY <1>0, <3>3, <3>5, <4>1
                DEF CertUninstallStep, LibraryStep, CertForget, Done1, Tearing, CertLeaving
      <3> QED BY <1>12, <3>1, <3>2, <3>4, <3>5 DEF Unhook
    <2>2. lock = t /\ lock' = lock /\ UNCHANGED <<ini, initialized, log, capture, gates, faulty>>
        BY <1>12, <2>1, UnhookLeaves DEF LockFits, Inside
    <2>3. TearingDown(t)
        BY <2>1 DEF Armed, ArmedFits
    <2>4. undo[t] \in UndoLists
        BY <2>1, ListTypes DEF ListsFit, ListFits, Tearing
    <2>5. /\ Tail(undo[t]) # <<>>
          /\ \A part \in {"capture"} \cup Gates : In(part, undo[t]) => In(part, Tail(undo[t]))
        BY <1>0, <2>1, <2>4, UndoTails, HeadLeaves DEF Gates
    <2>6. TearingDown(t)'
      <3>1. gates \subseteq Gates
          BY DEF TypeOK
      <3> QED BY <2>1, <2>2, <2>3, <2>5, <3>1 DEF TearingDown
    <2>7. Armed(t)'
        BY <2>1, <2>6 DEF Armed, Tearing, KeyLeaving, CertLeaving
    <2> QED BY <1>0, <1>1, <2>2, <2>7
  <1>13. CASE Leave(t)
    <2>1. /\ pc[t] = "leave" /\ pc'[t] \in {"idle", "backend"} /\ lock = t /\ Rest
          /\ UNCHANGED <<ini, initialized, log, capture, gates, faulty, catalog>>
        BY <1>0, <1>13 DEF Leave, Finish, Armed
    <2>2. Rest'
        BY <2>1, RequestStays DEF Rest
    <2>3. Armed(t)'
        BY <2>1 DEF Armed, Tearing, KeyLeaving, CertLeaving
    <2> QED BY <1>1, <2>1, <2>2, <2>3
  <1> QED BY <1>2, <1>3, <1>4, <1>5, <1>6, <1>7, <1>8, <1>9, <1>10, <1>11, <1>12, <1>13
     DEF Run, Unhook

LEMMA ArmedInvariant == Spec => []ArmedFits
  <1>1. Init => ArmedFits
      BY DEF Init, ArmedFits, Armed, Rest, Tearing, KeyLeaving, CertLeaving
  <1>2. TypeOK /\ ListsFit /\ LockFits /\ ArmedFits /\ [Next]_vars => ArmedFits'
    <2>1. ASSUME ArmedFits, UNCHANGED vars PROVE ArmedFits'
      <3>1. \A gate \in Gates : Requested(gate)' = Requested(gate)
          BY <2>1, RequestStays DEF vars
      <3> QED BY <2>1, <3>1 DEF vars, ArmedFits, Armed, Rest, SettingUp, TearingDown
    <2> QED BY <2>1, ArmedStep DEF Next
  <1> QED BY <1>1, <1>2, TypeCorrect, MutualExclusion, PTL DEF Spec

(* While the loader is initialized everything the configuration asks for is in *)
(* force; a failed initialize and a shutdown leave only what could not be  *)
(* written back (runtime.cpp, initialize and shutdown).                    *)
THEOREM ArmedWhileInitialized == Spec => []ArmedOrUnwound
  <1>1. ArmedFits => ArmedOrUnwound
      BY DEF ArmedFits, ArmedOrUnwound, Rest
  <1> QED BY <1>1, ArmedInvariant, PTL

(* A patch or the capture changes on a list with the logger behind it.     *)
LEMMA ChangeNeedsLog ==
    ASSUME TypeOK, ListsFit, ArmedFits, NEW t \in Threads, Call(t) \/ Run(t),
           gates' # gates \/ capture' # capture
    PROVE  log # "off"
  <1>1. SetUp(t) \/ TearDown(t)
    <2>1. ~Call(t)
        BY DEF Call, CallInit, CallRestart, CallShutdown, CallForwarded, CallRunCallbacks, Start
    <2>2. ~Pump(t)
        BY PumpLeaves
    <2>3. ~Unhook(t)
        BY UnhookLeaves
    <2>4. ~(Enter(t) \/ Publish(t) \/ RollBack(t) \/ EnterShutdown(t) \/ TornDown(t) \/ Leave(t) \/ Forward(t))
        BY DEF Enter, Publish, RollBack, EnterShutdown, TornDown, Leave, Forward
    <2> QED BY <2>1, <2>2, <2>3, <2>4 DEF Run, Unhook
  <1>2. CASE SetUp(t)
    <2>1. /\ pc[t] = "setUp" /\ todo[t] # <<>> /\ SettingUp(t)
          /\ todo[t] \in TodoLists \/ todo[t] = <<"log">>
        BY <1>2 DEF SetUp, ArmedFits, Armed, ListsFit, ListFits
    <2>2. Head(todo[t]) # "log"
        BY <1>2 DEF SetUp, SetUpPart, SetUpLog, Gates
    <2>3. Head(<<"log">>) = "log"
        OBVIOUS
    <2>4. todo[t] \in TodoLists /\ todo[t] \in Seq(Parts)
        BY <2>1, <2>2, <2>3, ListTypes
    <2>5. ~In("log", todo[t])
        BY <2>1, <2>2, <2>4, TodoOrder, HeadLeaves
    <2> QED BY <2>1, <2>5 DEF SettingUp
  <1>3. CASE TearDown(t)
      BY <1>3 DEF TearDown, ArmedFits, Armed, Tearing, TearingDown
  <1> QED BY <1>1, <1>2, <1>3

(* No step touches a patch or the capture before log::initialize or after  *)
(* log::shutdown: the order of initialize, its roll-backs and shutdown.    *)
THEOREM ChangesLogged == Spec => ChangesAreLogged
  <1>1. TypeOK /\ ListsFit /\ ArmedFits /\ [Next]_vars
          => [gates' # gates \/ capture' # capture => log # "off"]_vars
      BY ChangeNeedsLog DEF Next
  <1> QED BY <1>1, TypeCorrect, ArmedInvariant, PTL DEF Spec, ChangesAreLogged

--------------------------------------------------------------------------------
(* Which call a thread is in.                                              *)
CallFits(t) ==
    /\ pc[t] = "idle" <=> call[t] = "none"
    /\ pc[t] \in {"initialize", "setUp"} => call[t] \in {"init", "restart"}
    /\ pc[t] = "setUp" => (answer[t] <=> undo[t] = <<>>)
    /\ pc[t] \in {"shutdown"} \cup Tearing => call[t] = "shutdown" \/ ~answer[t]
    /\ pc[t] = "shutdown" => call[t] \in {"init", "shutdown"}
    /\ pc[t] \in Tearing /\ In("cert", undo[t]) => call[t] \in {"init", "shutdown"}
    /\ pc[t] = "leave" =>
         /\ call[t] \in {"init", "restart", "shutdown"}
         /\ call[t] = "shutdown" \/ ~answer[t] \/ initialized
    /\ pc[t] \in Tearing => call[t] \in {"init", "restart", "shutdown"}
    /\ pc[t] \in Pumping => call[t] = "pump"
    /\ call[t] = "pump" => t \in Pumpers

CallsFit == \A t \in Threads : CallFits(t)

LEMMA RollBacksKeep == \A list \in RollBacks : ~In("cert", list)
  BY DEF RollBacks, In

(* g_initialized is changed by a thread that holds the lock.               *)
LEMMA InitializedStays ==
    ASSUME NEW t \in Threads, Call(t) \/ Run(t), initialized' # initialized
    PROVE  Publish(t) \/ EnterShutdown(t)
  <1>1. ~Call(t)
      BY DEF Call, CallInit, CallRestart, CallShutdown, CallForwarded, CallRunCallbacks, Start
  <1>2. ~Pump(t)
      BY PumpLeaves
  <1>3. ~Unhook(t)
      BY UnhookLeaves
  <1> QED BY <1>1, <1>2, <1>3 DEF Run, Unhook, Enter, SetUp, RollBack, TearDown, TornDown,
     Leave, Forward

LEMMA CallsStep ==
    ASSUME TypeOK, ListsFit, LockFits, CallsFit, NEW t \in Threads, Call(t) \/ Run(t)
    PROVE  CallsFit'
  <1>0. /\ pc \in [Threads -> Labels]
        /\ call \in [Threads -> {"none", "init", "restart", "shutdown", "forwarded", "pump"}]
        /\ todo \in [Threads -> Seq(Parts)] /\ undo \in [Threads -> Seq(Parts)]
        /\ answer \in [Threads -> BOOLEAN]
        /\ CallFits(t) /\ ListFits(t)
        /\ pc[t] \in Inside <=> lock = t
      BY DEF TypeOK, CallsFit, ListsFit, LockFits
  <1>1. ASSUME NEW u \in Threads \ {t} PROVE CallFits(u)'
    <2>1. CallFits(u)
        BY DEF CallsFit
    <2>2. pc[u] = "leave" => initialized' = initialized
      <3>1. pc[u] = "leave" => lock = u
          BY DEF LockFits, Inside
      <3>2. EnterShutdown(t) => lock = Nobody
          BY DEF EnterShutdown
      <3>3. Publish(t) => lock = t
          BY DEF Publish, LockFits, Inside
      <3> QED BY <3>1, <3>2, <3>3, InitializedStays, RuntimeAssumption
    <2> QED BY <2>1, <2>2, OthersStay DEF CallFits
  <1> SUFFICES CallFits(t)'
      BY <1>1 DEF CallsFit
  <1> USE <1>0 DEF CallFits, Tearing, KeyLeaving, CertLeaving
  <1>3. CASE Call(t)
      BY <1>3 DEF Call, CallInit, CallRestart, CallShutdown, CallForwarded,
         CallRunCallbacks, Start,
                  Pumping, CertMaking, KeyMaking, CertLabels
  <1>4. CASE Pump(t)
      BY <1>4, PumpLeaves, PumpMoves DEF Pumping, CertMaking, KeyMaking, CertLabels
  <1> USE DEF Pumping, CertMaking, KeyMaking, CertLabels
  <1>5. CASE Enter(t)
      BY <1>5, ListTypes DEF Enter
  <1>6. CASE SetUp(t)
    <2>1. UNCHANGED <<pc, call>> /\ pc[t] = "setUp"
        BY <1>6 DEF SetUp
    <2>2. ASSUME NEW part \in {"sku", "pkg", "tls", "prepare"} PROVE UndoAfter(part) # <<>>
        BY UndoAfterPart, ListTypes DEF RollBacks
    <2>3. CASE UNCHANGED <<undo, answer>>
        BY <2>1, <2>3
    <2>4. CASE /\ Head(todo[t]) \in {"sku", "pkg", "tls", "prepare"}
               /\ undo' = [undo EXCEPT ![t] = UndoAfter(Head(todo[t]))]
               /\ answer' = [answer EXCEPT ![t] = FALSE]
      <3>1. undo'[t] # <<>> /\ ~answer'[t]
          BY <2>2, <2>4
      <3> QED BY <2>1, <3>1
    <2> QED BY <1>6, <2>3, <2>4, SetUpCases
  <1>7. CASE Publish(t)
      BY <1>7 DEF Publish
  <1>8. CASE RollBack(t)
    <2>1. undo[t] \in RollBacks
        BY <1>8, ListTypes DEF RollBack, ListFits
    <2> QED BY <1>8, <2>1, RollBacksKeep DEF RollBack
  <1>9. CASE EnterShutdown(t)
      BY <1>9 DEF EnterShutdown
  <1>10. CASE TearDown(t) \/ KeyUninstall(t)
    <2>1. undo[t] # <<>> /\ In("cert", Tail(undo[t])) => In("cert", undo[t])
        BY HeadLeaves
    <2> QED BY <1>10, <2>1 DEF TearDown, KeyUninstall, Done1
  <1>11. CASE KeyRemove(t) \/ CertUninstall(t) \/ CertForget(t)
    <2>1. undo[t] # <<>>
        BY <1>11, ListTypes DEF ListFits, KeyRemove, CertUninstall, CertForget
    <2>2. In("cert", Tail(undo[t])) => In("cert", undo[t])
        BY <2>1, HeadLeaves
    <2> QED BY <1>11, <2>2 DEF KeyRemove, CertUninstall, CertForget, Done1
  <1>12. CASE CertUninstallStep(t)
      BY <1>12 DEF CertUninstallStep, LibraryStep
  <1>13. CASE TornDown(t)
      BY <1>13 DEF TornDown
  <1>14. CASE Leave(t)
      BY <1>14 DEF Leave, Finish
  <1>15. CASE Forward(t)
      BY <1>15 DEF Forward, Finish
  <1> QED BY <1>3, <1>4, <1>5, <1>6, <1>7, <1>8, <1>9, <1>10, <1>11, <1>12, <1>13, <1>14,
     <1>15 DEF Run

LEMMA CallsInvariant == Spec => []CallsFit
  <1>1. Init => CallsFit
      BY DEF Init, CallsFit, CallFits, Tearing, KeyLeaving, CertLeaving, Pumping,
         CertMaking, KeyMaking, CertLabels
  <1>2. TypeOK /\ ListsFit /\ LockFits /\ CallsFit /\ [Next]_vars => CallsFit'
    <2>1. CallsFit /\ UNCHANGED vars => CallsFit'
        BY DEF vars, CallsFit, CallFits
    <2> QED BY <2>1, CallsStep DEF Next
  <1> QED BY <1>1, <1>2, TypeCorrect, MutualExclusion, PTL DEF Spec

(* The game initializes and shuts down alone, and pumps in between.        *)
Calm(t) ==
    /\ call[t] \in {"init", "shutdown"} =>
          game = "down" /\ \A u \in Threads : call[u] \in {"init", "shutdown"} => u = t
    /\ call[t] = "pump" => game # "down"
    /\ call[t] = "init" /\ pc[t] = "backend" => initialized

CalmFits == InitAnswerHolds /\ \A t \in Threads : Calm(t)

LEMMA CalmStep ==
    ASSUME Disciplined, TypeOK, ListsFit, LockFits, CallsFit, CalmFits,
           NEW t \in Threads, Call(t) \/ Run(t)
    PROVE  CalmFits'
  <1>0. /\ pc \in [Threads -> Labels]
        /\ call \in [Threads -> {"none", "init", "restart", "shutdown", "forwarded", "pump"}]
        /\ answer \in [Threads -> BOOLEAN]
        /\ CallFits(t) /\ Calm(t) /\ InitAnswerHolds
        /\ \A u \in Threads \ {t} : Calm(u) /\ pc'[u] = pc[u] /\ call'[u] = call[u]
        /\ \A u \in Threads : pc[u] = "idle" <=> call[u] = "none"
      BY OthersStay DEF TypeOK, CallsFit, CalmFits, CallFits
  <1> USE <1>0
  \* a step within a call
  <1>1. CASE /\ call'[t] = call[t] /\ UNCHANGED <<game, initialized, backend>>
             /\ call[t] = "init" /\ pc'[t] = "backend" => initialized
      BY <1>1 DEF CalmFits, Calm, InitAnswerHolds
  <1>2. CASE Call(t)
    <2>1. CASE CallInit(t)
      <3>1. game = "down" /\ UNCHANGED <<game, initialized, backend>> /\ \A u \in Threads : call[u] = "none"
          BY <2>1 DEF CallInit, Start, Quiet
      <3>2. call'[t] = "init" /\ pc'[t] = "initialize"
          BY <2>1 DEF CallInit, Start
      <3> QED BY <3>1, <3>2 DEF CalmFits, Calm, InitAnswerHolds
    <2>2. CASE CallShutdown(t)
      <3>1. game' = "down" /\ UNCHANGED <<initialized, backend>> /\ \A u \in Threads : call[u] = "none"
          BY <2>2 DEF CallShutdown, Start, Quiet
      <3>2. call'[t] = "shutdown"
          BY <2>2 DEF CallShutdown, Start
      <3> QED BY <3>1, <3>2 DEF CalmFits, Calm, InitAnswerHolds
    <2>3. CASE CallRestart(t) \/ CallForwarded(t) \/ CallRunCallbacks(t)
      <3>1. /\ UNCHANGED <<game, initialized, backend>>
            /\ call'[t] \in {"restart", "forwarded"} \/ (call'[t] = "pump" /\ game # "down")
          BY <2>3 DEF CallRestart, CallForwarded, CallRunCallbacks, Start
      <3> QED BY <3>1 DEF CalmFits, Calm, InitAnswerHolds
    <2> QED BY <1>2, <2>1, <2>2, <2>3 DEF Call
  <1>3. CASE Pump(t)
    <2>1. call[t] = "pump"
        BY <1>3, PumpMoves DEF CallFits
    <2> QED BY <1>1, <1>3, <2>1, PumpLeaves
  <1>4. CASE Unhook(t)
    <2>1. pc'[t] \in Tearing
        BY <1>4 DEF Unhook, KeyUninstall, KeyRemove, CertUninstall, CertUninstallStep,
           LibraryStep, CertForget,
                    Tearing, KeyLeaving, CertLeaving
    <2> QED BY <1>1, <1>4, <2>1, UnhookLeaves DEF Tearing, KeyLeaving, CertLeaving
  <1>5. CASE Enter(t) \/ RollBack(t) \/ TornDown(t)
      BY <1>1, <1>5 DEF Enter, RollBack, TornDown
  <1>6. CASE SetUp(t) \/ TearDown(t)
      BY <1>1, <1>6 DEF SetUp, TearDown
  <1>7. CASE Publish(t)
    <2>1. pc'[t] = "leave" /\ initialized' /\ UNCHANGED <<call, game, backend>>
        BY <1>7 DEF Publish
    <2> QED BY <2>1 DEF CalmFits, Calm, InitAnswerHolds
  <1>8. CASE EnterShutdown(t)
    <2>1. call[t] \in {"init", "shutdown"} /\ game = "down" /\ UNCHANGED <<call, game, backend>>
        BY <1>8 DEF EnterShutdown, CallFits, Calm
    <2>2. pc'[t] # "backend"
        BY <1>8 DEF EnterShutdown
    <2>3. \A u \in Threads \ {t} : call[u] \notin {"init", "shutdown"}
        BY <2>1 DEF Calm
    <2> QED BY <2>1, <2>2, <2>3 DEF CalmFits, Calm, InitAnswerHolds
  <1>9. CASE Leave(t)
    <2>1. UNCHANGED <<game, initialized, backend>>
        BY <1>9 DEF Leave
    <2>2. \/ call'[t] = "none"
          \/ call'[t] = call[t] /\ pc'[t] = "backend" /\ initialized
        BY <1>9 DEF Leave, Finish, CallFits
    <2> QED BY <2>1, <2>2 DEF CalmFits, Calm, InitAnswerHolds
  <1>10. CASE Forward(t)
    <2>1. /\ pc[t] = "backend" /\ UNCHANGED initialized
          /\ backend = "loaded" => backend' = "loaded"
        BY <1>10 DEF Forward, LoadBackend
    <2>2. CASE call[t] = "init" /\ backend' = "loaded" /\ Finish(t) /\ game' = "up"
      <3>1. /\ initialized /\ call'[t] = "none"
            /\ \A u \in Threads \ {t} : call[u] \notin {"init", "shutdown"}
          BY <2>1, <2>2 DEF Calm, Finish
      <3> QED BY <2>1, <2>2, <3>1 DEF CalmFits, Calm, InitAnswerHolds
    <2>3. CASE call[t] \in {"init", "shutdown"} /\ Go(t, "shutdown") /\ UNCHANGED <<call, game>>
      <3>1. pc'[t] = "shutdown"
          BY <2>3
      <3> QED BY <2>1, <2>3, <3>1 DEF CalmFits, Calm, InitAnswerHolds
    <2>4. CASE call[t] \in {"restart", "forwarded"} /\ Finish(t) /\ UNCHANGED game
      <3>1. call'[t] = "none"
          BY <2>4 DEF Finish
      <3> QED BY <2>1, <2>4, <3>1 DEF CalmFits, Calm, InitAnswerHolds
    <2>5. CASE call[t] = "pump" /\ Finish(t) /\ game' = (IF game = "up" THEN "pumped" ELSE game)
      <3>1. call'[t] = "none" /\ game # "down" /\ game' # "down"
          BY <2>5 DEF Finish, Calm
      <3> QED BY <2>1, <2>5, <3>1 DEF CalmFits, Calm, InitAnswerHolds
    <2> QED BY <1>10, <2>2, <2>3, <2>4, <2>5 DEF Forward
  <1> QED BY <1>2, <1>3, <1>4, <1>5, <1>6, <1>7, <1>8, <1>9, <1>10 DEF Run, Unhook

LEMMA CalmInvariant == ASSUME Disciplined PROVE Spec => []CalmFits
  <1>1. Init => CalmFits
      BY DEF Init, CalmFits, Calm, InitAnswerHolds
  <1>2. TypeOK /\ ListsFit /\ LockFits /\ CallsFit /\ CalmFits /\ [Next]_vars => CalmFits'
    <2>1. CalmFits /\ UNCHANGED vars => CalmFits'
        BY DEF vars, CalmFits, Calm, InitAnswerHolds
    <2> QED BY <2>1, CalmStep DEF Next
  <1> QED BY <1>1, <1>2, TypeCorrect, MutualExclusion, CallsInvariant, PTL DEF Spec

(* What SteamAPI_Init answered stays true until the game shuts Steam down, when *)
(* the game keeps Steam's order of calls (dllmain.cpp, runtime.cpp).       *)
THEOREM InitAnswerKept == ASSUME Disciplined PROVE Spec => []InitAnswerHolds
  <1>1. CalmFits => InitAnswerHolds
      BY DEF CalmFits
  <1> QED BY <1>1, CalmInvariant, PTL

(* activate_discovered runs only with the package gate open and the catalog *)
(* complete, when the game keeps Steam's order of calls: the pump takes no lock. *)
THEOREM PackagesGated == ASSUME Disciplined PROVE Spec => []PackagesBehindOpenGates
  <1>1. TypeOK /\ LockFits /\ ArmedFits /\ CallsFit /\ CalmFits => PackagesBehindOpenGates
    <2> SUFFICES ASSUME TypeOK, LockFits, ArmedFits, CallsFit, CalmFits, NEW t \in Threads,
                        pc[t] \in {"activate", "activated"}
                 PROVE  "pkg" \in gates /\ catalog = "complete"
        BY DEF PackagesBehindOpenGates
    <2>1. initialized
        BY DEF CallsFit, CallFits, CalmFits, Calm, InitAnswerHolds, Pumping
    <2>2. Rest
      <3>1. CASE lock = Nobody
          BY <3>1 DEF ArmedFits
      <3>2. CASE lock # Nobody
        <4>1. lock \in Threads /\ pc[lock] \in Inside
            BY <3>2 DEF TypeOK, LockFits
        <4>2. Armed(lock)
            BY <4>1 DEF ArmedFits
        <4> QED BY <2>1, <4>1, <4>2 DEF Inside, Armed, SettingUp, TearingDown
      <3> QED BY <3>1, <3>2
    <2>3. Requested("pkg")
        BY DEF Requested
    <2> QED BY <2>1, <2>2, <2>3 DEF Rest, Gates
  <1> QED BY <1>1, TypeCorrect, MutualExclusion, ArmedInvariant, CallsInvariant,
     CalmInvariant, PTL

--------------------------------------------------------------------------------
(* The hooks of certificate_compat and of the capture.                     *)

(* The game pumps from one thread, as it does.  With two pumps inside      *)
(* certificate_compat the claims below about its hooks are false.          *)
OnePumper == \A t, u \in Pumpers : t = u

BothEnabled == table.hook["auth"] = "enabled" /\ table.hook["setCert"] = "enabled"

(* How far certificate_compat is, thread by thread.                        *)
HookedAt(t) ==
    /\ pc[t] \in CertLabels => ~certActive
    /\ pc[t] \in {"certEnableAuth", "certEnableCert", "certActivate"} \cup CertLeaving => certAddr
    /\ pc[t] \in {"certEnableCert", "certActivate"} => table.hook["auth"] = "enabled"
    /\ pc[t] = "certActivate" => table.hook["setCert"] = "enabled"

(* While a thread is inside certificate_compat, no other thread is: there   *)
(* is one pumper, and a shutdown waits for it.                              *)
LEMMA AloneInCert ==
    ASSUME OnePumper, LockFits, CallsFit, CalmFits, ListsFit,
           NEW t \in Threads,
           pc[t] \in CertLabels \cup {"certCheck"} \/ (pc[t] = "tearDown" /\ In("cert", undo[t])),
           NEW u \in Threads, pc[u] \in CertLabels \cup {"certCheck"}
    PROVE  u = t
  <1>1. ASSUME NEW v \in Threads, pc[v] \in CertMaking \cup {"certCheck"}
        PROVE  call[v] = "pump" /\ v \in Pumpers /\ game # "down"
      BY <1>1 DEF CallsFit, CallFits, CalmFits, Calm, Pumping
  <1>2. ASSUME NEW v \in Threads, pc[v] \in CertLeaving \/ (pc[v] = "tearDown" /\ In("cert", undo[v]))
        PROVE  lock = v /\ game = "down"
    <2>1. In("cert", CertOn)
        BY DEF In, CertOn
    <2>2. pc[v] \in Tearing /\ In("cert", undo[v])
        BY <1>2, <2>1 DEF ListsFit, ListFits, Tearing
    <2> QED BY <2>2 DEF LockFits, Inside, CallsFit, CallFits, CalmFits, Calm
  <1>3. CertLabels = CertMaking \cup CertLeaving
      BY DEF CertMaking, CertLabels, CertLeaving
  <1> QED BY <1>1, <1>2, <1>3 DEF OnePumper

(* The hooks of one component are left alone by the others.                 *)
LEMMA OtherHooks ==
    ASSUME TypeOK, ListsFit, LockFits, NEW t \in Threads, Call(t) \/ Run(t),
           pc[t] \in CertLeaving => certAddr
    PROVE  /\ \/ table' = table
              \/ SetUp(t) /\ Only("observer", table, table')
              \/ pc[t] \in CertLabels /\ (Only("auth", table, table') \/ Only("setCert", table, table'))
              \/ pc[t] \in {"tearDown", "keyRemove", "keyRemoveBad", "keyCreate", "keyEnable", "keyUndo"}
                   /\ Only("getter", table, table')
           /\ table' \in Table
  <1>0. /\ table \in Table /\ "observer" \in Targets /\ "auth" \in Targets /\ "setCert" \in Targets
        /\ "getter" \in Targets
      BY RuntimeAssumption DEF TypeOK
  <1>1. CASE Call(t)
      BY <1>0, <1>1 DEF Call, CallInit, CallRestart, CallShutdown, CallForwarded,
         CallRunCallbacks, Start
  <1>2. CASE SetUp(t)
    <2>1. SetUpCapture => Only("observer", table, table')
        BY <1>0, SetUpCaptureTable
    <2> QED BY <1>2, <2>1, TableTyped DEF SetUp, SetUpPart, SetUpLog, SetUpGate, Prepare, Scan
  <1>3. CASE KeyUninstall(t) \/ KeyRemove(t)
      BY <1>0, <1>3, DisableOutcome, RemoveOutcome, TableTyped DEF KeyUninstall, KeyRemove
  <1>10. ASSUME certAddr, NEW x \in CertTargets
         PROVE  /\ \A r \in DisableAt(x) : Only(x, table, r.table)
                /\ \A r \in RemoveAt(x) : Only(x, table, r.table)
      BY <1>0, <1>10, DisableOutcome, RemoveOutcome DEF DisableAt, RemoveAt, CertTargets
  <1>11. ASSUME NEW x \in CertTargets, NEW from \in CertLabels, NEW outcomes, NEW to,
                LibraryStep(t, from, outcomes, to), \A r \in outcomes : Only(x, table, r.table)
         PROVE  pc[t] \in CertLabels /\ (Only("auth", table, table') \/ Only("setCert", table, table'))
      BY <1>11 DEF LibraryStep, CertTargets
  <1>12. "auth" \in CertTargets /\ "setCert" \in CertTargets
      BY DEF CertTargets
  <1>13. /\ CertLeaving \subseteq CertLabels
         /\ {"partDisableAuth", "partDisableCert", "partRemoveAuth", "partRemoveCert"} \subseteq CertLabels
         /\ {"certDisableAuth", "certDisableCert", "certRemoveAuth", "certRemoveCert"} \subseteq CertLeaving
      BY DEF CertLabels, CertLeaving
  <1>4. CASE CertUninstallStep(t)
    <2>1. pc[t] \in CertLeaving /\ certAddr
        BY <1>4, <1>13 DEF CertUninstallStep, LibraryStep
    <2> QED BY <1>4, <2>1, <1>10, <1>11, <1>12, <1>13, TableTyped DEF CertUninstallStep
  <1>5. CASE CertRemovePartial(t)
    <2>1. pc[t] \in CertLabels
        BY <1>5 DEF CertRemovePartial, LibraryStep, CertLabels
    <2>2. CASE certAddr
        BY <1>5, <2>2, <1>10, <1>11, <1>12, <1>13, TableTyped DEF CertRemovePartial
    <2>3. CASE ~certAddr
        BY <1>0, <1>5, <2>1, <2>3, RefusedOutcome, TableTyped
            DEF CertRemovePartial, LibraryStep, RemoveAt
    <2> QED BY <2>2, <2>3
  <1>6. CASE KeyCreate(t) \/ KeyEnable(t) \/ KeyUndo(t)
      BY <1>0, <1>6, CreateOutcome, EnableOutcome, RemoveOutcome, TableTyped DEF KeyCreate,
         KeyEnable, KeyUndo
  <1>7. CASE CertUpdate(t)
    <2>1. \A r \in MH_Initialize(table) : Only("auth", table, r.table)
        BY <1>0, InitializeOutcome DEF Only
    <2>2. \A r \in MH_CreateHook(table, "auth") : Only("auth", table, r.table)
        BY <1>0, CreateOutcome
    <2>3. \A r \in MH_CreateHook(table, "setCert") : Only("setCert", table, r.table)
        BY <1>0, CreateOutcome
    <2>4. \A r \in MH_EnableHook(table, "auth") : Only("auth", table, r.table)
        BY <1>0, EnableOutcome
    <2>5. \A r \in MH_EnableHook(table, "setCert") : Only("setCert", table, r.table)
        BY <1>0, EnableOutcome
    <2>6. CASE CertCheck(t) \/ CertNoLibrary(t) \/ CertPublish(t) \/ CertActivate(t) \/ CertGiveUp(t)
        BY <1>0, <2>6 DEF CertCheck, CertNoLibrary, CertPublish, CertActivate, CertGiveUp
    <2>7. ASSUME NEW from \in CertLabels, NEW outcomes, NEW good, NEW bad, NEW x \in {"auth", "setCert"},
                 CertLibrary(t, from, outcomes, good, bad),
                 \A r \in outcomes : Only(x, table, r.table)
          PROVE  pc[t] \in CertLabels /\ (Only("auth", table, table') \/ Only("setCert", table, table'))
        BY <2>7 DEF CertLibrary
    <2>8. {"certLibrary", "certCreateAuth", "certCreateCert", "certEnableAuth", "certEnableCert"} \subseteq CertLabels
        BY DEF CertLabels
    <2> QED BY <1>0, <1>5, <1>7, <2>1, <2>2, <2>3, <2>4, <2>5, <2>6, <2>7, <2>8, TableTyped
       DEF CertUpdate
  <1>8. CASE Pump(t)
      BY <1>0, <1>6, <1>7, <1>8 DEF Pump, FirstPump, KeyCheck, KeyActivate, Activate, Activated
  <1>9. CASE Run(t)
      BY <1>0, <1>2, <1>3, <1>4, <1>8, <1>9
      DEF Run, Enter, Publish, RollBack, EnterShutdown, TearDown, TornDown, CertUninstall,
         CertForget, Leave, Forward
  <1> QED BY <1>1, <1>9

(* Outside certificate_compat nothing of it changes.                       *)
LEMMA CertStays ==
    ASSUME TypeOK, ListsFit, LockFits, NEW t \in Threads, Call(t) \/ Run(t), pc[t] \notin CertLabels
    PROVE  /\ certAddr' = certAddr
           /\ certActive' # certActive => CertUninstall(t)
           /\ pc'[t] \in CertLabels => CertCheck(t) \/ CertUninstall(t)
           /\ table'.hook["auth"] = table.hook["auth"]
           /\ table'.hook["setCert"] = table.hook["setCert"]
  <1>0. pc \in [Threads -> Labels] /\ CertLeaving \subseteq CertLabels
      BY DEF TypeOK, CertLeaving, CertLabels
  <1>1. table'.hook["auth"] = table.hook["auth"] /\ table'.hook["setCert"] = table.hook["setCert"]
    <2>1. table' = table \/ Only("observer", table, table') \/ Only("getter", table, table')
        BY <1>0, OtherHooks
    <2> QED BY <2>1, RuntimeAssumption DEF Only
  <1>2. CASE Call(t)
      BY <1>0, <1>1, <1>2 DEF Call, CallInit, CallRestart, CallShutdown, CallForwarded,
         CallRunCallbacks, Start, CertLabels
  <1>3. CASE CertUpdate(t)
      BY <1>1, <1>3 DEF CertUpdate, CertCheck, CertLibrary, CertNoLibrary, CertPublish,
         CertActivate,
                  CertRemovePartial, LibraryStep, CertGiveUp, PumpStep, CertLabels
  <1>4. CASE FirstPump(t) \/ KeyCheck(t) \/ KeyActivate(t) \/ Activate(t) \/ Activated(t)
      BY <1>0, <1>1, <1>4 DEF FirstPump, KeyCheck, KeyActivate, Activate, Activated,
         PumpStep, CertLabels
  <1>5. CASE KeyCreate(t) \/ KeyEnable(t) \/ KeyUndo(t)
      BY <1>0, <1>1, <1>5 DEF KeyCreate, KeyEnable, KeyUndo, CertLabels
  <1>6. CASE KeyUninstall(t) \/ KeyRemove(t)
      BY <1>0, <1>1, <1>6 DEF KeyUninstall, KeyRemove, CertLabels
  <1>7. CASE CertUninstallStep(t) \/ CertForget(t)
      BY <1>1, <1>7 DEF CertUninstallStep, LibraryStep, CertForget, CertLabels
  <1>8. CASE CertUninstall(t)
      BY <1>1, <1>8 DEF CertUninstall
  <1>9. CASE Enter(t) \/ SetUp(t) \/ Publish(t) \/ RollBack(t)
      BY <1>0, <1>1, <1>9 DEF Enter, SetUp, Publish, RollBack, CertLabels
  <1>10. CASE EnterShutdown(t) \/ TearDown(t) \/ TornDown(t) \/ Leave(t)
      BY <1>0, <1>1, <1>10 DEF EnterShutdown, TearDown, TornDown, Leave, Finish, CertLabels
  <1>11. CASE Forward(t)
      BY <1>0, <1>1, <1>11 DEF Forward, Finish, CertLabels
  <1> QED BY <1>2, <1>3, <1>4, <1>5, <1>6, <1>7, <1>8, <1>9, <1>10, <1>11 DEF Run, Pump

(* game_logging.cpp keeps its hook for good once it is made.               *)
ObserverFits ==
    /\ capture => hookInstalled
    /\ hookInstalled => table.hook["observer"] = "enabled"

LEMMA ObserverStep ==
    ASSUME TypeOK, ListsFit, LockFits, ObserverFits, NEW t \in Threads, Call(t) \/ Run(t),
           pc[t] \in CertLeaving => certAddr
    PROVE  ObserverFits'
  <1>0. table \in Table /\ "observer" \in Targets
      BY RuntimeAssumption DEF TypeOK
  <1>1. CASE SetUp(t)
    <2>1. CASE SetUpCapture
        BY <1>0, <2>1, SetUpCaptureTable DEF ObserverFits
    <2>2. CASE UNCHANGED <<capture, hookInstalled, table>>
        BY <2>2 DEF ObserverFits
    <2> QED BY <1>1, <2>1, <2>2 DEF SetUp, SetUpPart, SetUpLog, SetUpGate, Prepare, Scan
  <1>2. CASE ~SetUp(t)
    <2>1. table'.hook["observer"] = table.hook["observer"]
      <3>1. \/ table' = table \/ Only("auth", table, table')
            \/ Only("setCert", table, table') \/ Only("getter", table, table')
          BY <1>2, OtherHooks
      <3> QED BY <1>0, <3>1 DEF Only
    <2>2. hookInstalled' = hookInstalled /\ (capture' => capture)
      <3>1. CASE Call(t)
          BY <3>1 DEF Call, CallInit, CallRestart, CallShutdown, CallForwarded,
             CallRunCallbacks, Start
      <3>2. CASE Pump(t)
          BY <3>2, PumpLeaves
      <3>3. CASE Unhook(t)
          BY <3>3, UnhookLeaves
      <3>4. CASE TearDown(t)
          BY <3>4 DEF TearDown, TearDownPart
      <3>5. CASE Publish(t) \/ RollBack(t)
          BY <3>5 DEF Publish, RollBack
      <3>8. CASE Enter(t)
        <4>1. UNCHANGED partVars
            BY <3>8 DEF Enter
        <4> QED BY <4>1
      <3>7. CASE EnterShutdown(t) \/ TornDown(t)
          BY <3>7 DEF EnterShutdown, TornDown
      <3>6. CASE Leave(t) \/ Forward(t)
          BY <3>6 DEF Leave, Forward
      <3> QED BY <1>2, <3>1, <3>2, <3>3, <3>4, <3>5, <3>6, <3>7, <3>8 DEF Run, Unhook
    <2> QED BY <2>1, <2>2 DEF ObserverFits
  <1> QED BY <1>1, <1>2

(* A thread inside certificate_compat takes one of its steps.              *)
LEMMA InsideCert ==
    ASSUME NEW t \in Threads, Call(t) \/ Run(t), pc[t] \in CertLabels
    PROVE  CertUpdate(t) \/ CertUninstallStep(t) \/ CertForget(t)
  <1>1. ~Call(t)
      BY DEF Call, CallInit, CallRestart, CallShutdown, CallForwarded, CallRunCallbacks,
         Start, CertLabels
  <1>2. ~(FirstPump(t) \/ KeyCheck(t) \/ KeyActivate(t) \/ Activate(t) \/ Activated(t))
      BY DEF FirstPump, KeyCheck, KeyActivate, Activate, Activated, PumpStep, CertLabels
  <1>3. ~(KeyCreate(t) \/ KeyEnable(t) \/ KeyUndo(t) \/ KeyUninstall(t) \/ KeyRemove(t) \/ CertUninstall(t))
      BY DEF KeyCreate, KeyEnable, KeyUndo, KeyUninstall, KeyRemove, CertUninstall, CertLabels
  <1>4. ~(Enter(t) \/ SetUp(t) \/ Publish(t) \/ RollBack(t) \/ EnterShutdown(t) \/ TearDown(t) \/ TornDown(t)
          \/ Leave(t) \/ Forward(t))
      BY DEF Enter, SetUp, Publish, RollBack, EnterShutdown, TearDown, TornDown, Leave,
         Forward, CertLabels
  <1> QED BY <1>1, <1>2, <1>3, <1>4 DEF Run, Pump

(* g_active is set only when both hooks are in force and their addresses known. *)
CertFits ==
    /\ certActive => certAddr /\ BothEnabled
    /\ \A t \in Threads : HookedAt(t)

LEMMA CertStep ==
    ASSUME OnePumper, TypeOK, ListsFit, LockFits, CallsFit, CalmFits, CertFits,
           NEW t \in Threads, Call(t) \/ Run(t)
    PROVE  CertFits'
  <1>0. /\ pc \in [Threads -> Labels] /\ table \in Table
        /\ "auth" \in Targets /\ "setCert" \in Targets
        /\ HookedAt(t)
        /\ \A u \in Threads \ {t} : pc'[u] = pc[u]
      BY OthersStay, RuntimeAssumption DEF TypeOK, CertFits
  <1>1. CASE pc[t] \notin CertLabels /\ ~CertCheck(t) /\ ~CertUninstall(t)
    <2>1. /\ certAddr' = certAddr /\ certActive' = certActive
          /\ pc'[t] \notin CertLabels
          /\ table'.hook["auth"] = table.hook["auth"]
          /\ table'.hook["setCert"] = table.hook["setCert"]
        BY <1>1, CertStays
    <2>2. ASSUME NEW u \in Threads PROVE HookedAt(u)'
      <3>1. CASE u = t
          BY <2>1, <3>1 DEF HookedAt, CertLabels, CertLeaving
      <3>2. CASE u # t
        <4>1. pc'[u] = pc[u] /\ HookedAt(u)
            BY <1>0, <3>2 DEF CertFits
        <4> QED BY <2>1, <4>1 DEF HookedAt
      <3> QED BY <3>1, <3>2
    <2> QED BY <2>1, <2>2 DEF CertFits, BothEnabled
  <1>2. CASE CertCheck(t)
    <2>1. /\ UNCHANGED <<certActive, certAddr, table>>
          /\ pc'[t] \in CertLabels => ~certActive /\ pc'[t] = "certLibrary"
        BY <1>0, <1>2 DEF CertCheck, CertDone, CertLabels
    <2>2. ASSUME NEW u \in Threads PROVE HookedAt(u)'
      <3>1. CASE u = t
          BY <2>1, <3>1 DEF HookedAt, CertLabels, CertLeaving
      <3>2. CASE u # t
        <4>1. pc'[u] = pc[u] /\ HookedAt(u)
            BY <1>0, <3>2 DEF CertFits
        <4> QED BY <2>1, <4>1 DEF HookedAt
      <3> QED BY <3>1, <3>2
    <2> QED BY <2>1, <2>2 DEF CertFits, BothEnabled
  <1>3. CASE CertUninstall(t)
    <2>1. UNCHANGED <<certAddr, table>> /\ ~certActive'
        BY <1>3 DEF CertUninstall
    <2>2. /\ certActive => certAddr
          /\ IF certActive THEN pc'[t] = "certDisableAuth" ELSE pc'[t] = "tearDown"
        BY <1>0, <1>3 DEF CertUninstall, CertFits
    <2>3. HookedAt(t)'
        BY <2>1, <2>2 DEF HookedAt, CertLabels, CertLeaving
    <2>4. ASSUME NEW u \in Threads \ {t} PROVE HookedAt(u)'
      <3>1. pc'[u] = pc[u] /\ HookedAt(u)
          BY <1>0 DEF CertFits
      <3> QED BY <2>1, <3>1 DEF HookedAt
    <2> QED BY <2>1, <2>3, <2>4 DEF CertFits
  <1>4. CASE pc[t] \in CertLabels
    <2>1. ~certActive
        BY <1>4 DEF CertFits, HookedAt
    <2>2. \A u \in Threads \ {t} : HookedAt(u)'
      <3>1. \A u \in Threads \ {t} : pc'[u] \notin CertLabels
          BY <1>0, <1>4, AloneInCert
      <3> QED BY <3>1 DEF HookedAt, CertLabels, CertLeaving
    <2> SUFFICES (certActive' => certAddr' /\ BothEnabled') /\ HookedAt(t)'
        BY <2>2 DEF CertFits
    <2>3. CASE CertActivate(t)
      <3>1. pc[t] = "certActivate" /\ pc'[t] = "first" /\ UNCHANGED <<certAddr, table>>
          BY <1>0, <2>3 DEF CertActivate, PumpStep
      <3> QED BY <1>0, <3>1 DEF HookedAt, CertLabels, CertLeaving, BothEnabled
    <2>4. CASE CertNoLibrary(t) \/ CertGiveUp(t) \/ CertForget(t)
        BY <1>0, <2>1, <2>4 DEF CertNoLibrary, CertGiveUp, CertForget, PumpStep, HookedAt,
           CertLabels, CertLeaving
    <2>5. CASE CertPublish(t)
        BY <1>0, <2>1, <2>5 DEF CertPublish, PumpStep, HookedAt, CertLabels, CertLeaving
    <2>6. CASE CertUninstallStep(t)
      <3>1. pc[t] \in CertLeaving /\ pc'[t] \in CertLeaving /\ UNCHANGED <<certActive, certAddr>>
          BY <1>0, <2>6 DEF CertUninstallStep, LibraryStep, CertLeaving
      <3> QED BY <1>0, <2>1, <3>1 DEF HookedAt, CertLeaving
    <2>7. CASE CertRemovePartial(t)
      <3>1. /\ pc'[t] \in {"partRemoveAuth", "partRemoveCert", "partDisableCert", "partForget"}
            /\ UNCHANGED <<certActive, certAddr>>
          BY <1>0, <2>7 DEF CertRemovePartial, LibraryStep
      <3> QED BY <2>1, <3>1 DEF HookedAt, CertLeaving
    <2>8. ASSUME NEW from, NEW outcomes, NEW good, NEW bad,
                 good \notin CertLeaving \cup {"certEnableAuth", "certEnableCert", "certActivate"},
                 bad \notin CertLeaving \cup {"certEnableAuth", "certEnableCert", "certActivate"},
                 CertLibrary(t, from, outcomes, good, bad)
          PROVE  (certActive' => certAddr' /\ BothEnabled') /\ HookedAt(t)'
        BY <1>0, <2>1, <2>8 DEF CertLibrary, HookedAt
    <2>9. CASE CertLibrary(t, "certEnableAuth", MH_EnableHook(table, "auth"),
                           "certEnableCert", "partDisableAuth")
      <3>1. PICK r \in MH_EnableHook(table, "auth") :
               table' = r.table /\ Go(t, IF r.ok THEN "certEnableCert" ELSE "partDisableAuth")
          BY <2>9 DEF CertLibrary
      <3>2. pc[t] = "certEnableAuth" /\ UNCHANGED <<certActive, certAddr>>
          BY <2>9 DEF CertLibrary
      <3>3. r.ok => table'.hook["auth"] = "enabled"
          BY <1>0, <3>1, EnableOutcome
      <3>4. certAddr
          BY <1>0, <3>2 DEF HookedAt
      <3> QED BY <1>0, <2>1, <3>1, <3>2, <3>3, <3>4 DEF HookedAt, CertLeaving
    <2>10. CASE CertLibrary(t, "certEnableCert", MH_EnableHook(table, "setCert"),
                            "certActivate", "partDisableAuth")
      <3>1. PICK r \in MH_EnableHook(table, "setCert") :
               table' = r.table /\ Go(t, IF r.ok THEN "certActivate" ELSE "partDisableAuth")
          BY <2>10 DEF CertLibrary
      <3>2. pc[t] = "certEnableCert" /\ UNCHANGED <<certActive, certAddr>>
          BY <2>10 DEF CertLibrary
      <3>3. r.ok => table'.hook["setCert"] = "enabled"
          BY <1>0, <3>1, EnableOutcome
      <3>4. table'.hook["auth"] = table.hook["auth"]
          BY <1>0, <3>1, EnableOutcome DEF Only
      <3>5. certAddr /\ table.hook["auth"] = "enabled"
          BY <1>0, <3>2 DEF HookedAt
      <3> QED BY <1>0, <2>1, <3>1, <3>2, <3>3, <3>4, <3>5 DEF HookedAt, CertLeaving
    <2>11. CASE CertUpdate(t)
      <3>1. ~CertCheck(t)
          BY <1>4 DEF CertCheck, CertLabels
      <3>2. {"certCreateAuth", "certNoLibrary", "certCreateCert", "certUndoCreate", "certPublish"} \cap
            (CertLeaving \cup {"certEnableAuth", "certEnableCert", "certActivate"}) = {}
          BY DEF CertLeaving
      <3> QED BY <2>3, <2>4, <2>5, <2>7, <2>8, <2>9, <2>10, <2>11, <3>1, <3>2 DEF CertUpdate
    <2>12. CertUpdate(t) \/ CertUninstallStep(t) \/ CertForget(t)
        BY <1>4, InsideCert
    <2> QED BY <2>4, <2>6, <2>11, <2>12
  <1> QED BY <1>1, <1>2, <1>3, <1>4

LEMMA CertInvariant == ASSUME Disciplined, OnePumper PROVE Spec => []CertFits
  <1>1. Init => CertFits
      BY DEF Init, CertFits, HookedAt, CertLabels, CertLeaving
  <1>2. TypeOK /\ ListsFit /\ LockFits /\ CallsFit /\ CalmFits /\ CertFits /\ [Next]_vars => CertFits'
    <2>1. CertFits /\ UNCHANGED vars => CertFits'
        BY DEF vars, CertFits, HookedAt, BothEnabled
    <2> QED BY <2>1, CertStep DEF Next
  <1> QED BY <1>1, <1>2, TypeCorrect, MutualExclusion, CallsInvariant, CalmInvariant, PTL
     DEF Spec

LEMMA ObserverInvariant == ASSUME Disciplined, OnePumper PROVE Spec => []ObserverFits
  <1>1. Init => ObserverFits
      BY DEF Init, ObserverFits
  <1>2. TypeOK /\ ListsFit /\ LockFits /\ CertFits /\ ObserverFits /\ [Next]_vars => ObserverFits'
    <2>1. ObserverFits /\ UNCHANGED vars => ObserverFits'
        BY DEF vars, ObserverFits
    <2>2. CertFits => \A t \in Threads : pc[t] \in CertLeaving => certAddr
        BY DEF CertFits, HookedAt
    <2> QED BY <2>1, <2>2, ObserverStep DEF Next
  <1> QED BY <1>1, <1>2, TypeCorrect, MutualExclusion, CertInvariant, PTL DEF Spec

(* While the loader captures the game's log its observer is enabled: no other *)
(* component disables it, not even the MH_DisableHook(NULL) that an uninstall *)
(* of certificate_compat without addresses would be.                       *)
THEOREM CaptureObserved == ASSUME Disciplined, OnePumper PROVE Spec => []CaptureIsObserved
  <1>1. ObserverFits => CaptureIsObserved
      BY DEF ObserverFits, CaptureIsObserved
  <1> QED BY <1>1, ObserverInvariant, PTL

(* While certificate_compat says that it is active, and nobody is inside it, *)
(* both hooks are in force and their addresses are known.                  *)
THEOREM CertHooked == ASSUME Disciplined, OnePumper PROVE Spec => []CertActiveMeansHooked
  <1>1. CertFits => CertActiveMeansHooked
      BY DEF CertFits, BothEnabled, CertActiveMeansHooked, CertTargets
  <1> QED BY <1>1, CertInvariant, PTL

--------------------------------------------------------------------------------
(* What is gone when a session is over.                                    *)

ReadyFits == table \in ReadyTables

LEMMA ReadyInvariant == Spec => []ReadyFits
  <1>1. Init => ReadyFits
      BY DEF Init, ReadyFits, ReadyTables, EmptyTable, Table
  <1>2. ReadyFits /\ [Next]_vars => ReadyFits'
    <2>1. ReadyFits /\ UNCHANGED vars => ReadyFits'
        BY DEF vars, ReadyFits
    <2>2. ReadyTables \in SUBSET Table
        BY DEF ReadyTables
    <2> QED BY <2>1, <2>2, ReadyClosed, TableKept DEF ReadyFits, Next
  <1> QED BY <1>1, <1>2, PTL DEF Spec

(* The library does not forget that it was refused something.              *)
LEMMA RefusedStays ==
    ASSUME TypeOK, NEW t \in Threads, Call(t) \/ Run(t), ~table'.refused
    PROVE  ~table.refused
  <1> DEFINE S == {x \in Table : x.refused}
  <1>1. Closed(S)
      BY InitializeOutcome, CreateOutcome, EnableOutcome, DisableOutcome, RemoveOutcome,
         DisableAllOutcome DEF Closed, Outcome, Only
  <1>2. table \in Table /\ S \in SUBSET Table
      BY DEF TypeOK
  <1>3. table \in S => table' \in S
      BY <1>1, <1>2, TableKept
  <1> QED BY <1>2, <1>3

Hooks(auth, cert) == table.hook["auth"] = auth /\ table.hook["setCert"] = cert

(* Where the two hooks are while a thread is inside certificate_compat and *)
(* nothing was refused.                                                    *)
CertClear(t) ==
    /\ pc[t] \notin {"certNoLibrary", "certUndoCreate", "partDisableAuth", "partRemoveAuth",
                     "partDisableCert", "partRemoveCert", "partForget"}
    /\ pc[t] \in {"certLibrary", "certCreateAuth", "certForget"} => Hooks("absent", "absent")
    /\ pc[t] = "certCreateAuth" => table.ready
    /\ pc[t] = "certCreateCert" => Hooks("created", "absent")
    /\ pc[t] \in {"certPublish", "certEnableAuth", "certRemoveAuth"} => Hooks("created", "created")
    /\ pc[t] = "certEnableCert" => Hooks("enabled", "created")
    /\ pc[t] \in {"certActivate", "certDisableAuth"} => Hooks("enabled", "enabled")
    /\ pc[t] = "certDisableCert" => Hooks("created", "enabled")
    /\ pc[t] = "certRemoveCert" => Hooks("absent", "created")

(* Between the sessions certificate_compat is on only while the shutdown   *)
(* still has it on its list, and otherwise its hooks are gone.             *)
CertTidy ==
    /\ certActive => initialized \/ \E t \in Threads : pc[t] \in Tearing /\ In("cert", undo[t])
    /\ certActive \/ Hooks("absent", "absent") \/ \E t \in Threads : pc[t] \in CertLabels
    /\ \A t \in Threads : CertClear(t)

(* A shutdown with a component on its list has it there until its turn.    *)
LEMMA StillListed ==
    ASSUME TypeOK, ListsFit, NEW part \in {"cert", "manifest"}, NEW t \in Threads, Call(t) \/ Run(t),
           pc[t] \in Tearing, In(part, undo[t]),
           part = "cert" => ~CertUninstall(t) /\ pc[t] \notin CertLeaving,
           part = "manifest" => ~KeyUninstall(t) /\ pc[t] \notin KeyLeaving
    PROVE  pc'[t] \in Tearing /\ In(part, undo'[t])
  <1>1. /\ pc \in [Threads -> Labels] /\ undo \in [Threads -> Seq(Parts)]
        /\ ListFits(t)
        /\ undo[t] # <<>>
      BY NothingIn DEF TypeOK, ListsFit
  <1>2. ASSUME Head(undo[t]) # part, Done1(t) PROVE In(part, undo'[t])
      BY <1>1, <1>2, HeadLeaves DEF Done1
  <1>3. ~In("manifest", CertOn) /\ Head(KeyOn) = "manifest" /\ Head(CertOn) = "cert"
      BY DEF In, CertOn, KeyOn
  <1>4. CASE TearDown(t)
    <2>1. Head(undo[t]) # part /\ UNCHANGED pc /\ Done1(t)
        BY <1>4 DEF TearDown, TearDownPart, Gates
    <2> QED BY <1>2, <2>1
  <1>5. CASE KeyUninstall(t)
    <2>1. part = "cert" /\ Head(undo[t]) = "manifest"
        BY <1>5 DEF KeyUninstall
    <2>2. pc'[t] \in Tearing /\ (Done1(t) \/ UNCHANGED undo)
        BY <1>1, <1>5 DEF KeyUninstall, Tearing, KeyLeaving
    <2> QED BY <1>2, <2>1, <2>2
  <1>6. CASE KeyRemove(t)
    <2>1. part = "cert" /\ undo[t] = KeyOn /\ pc'[t] = "tearDown" /\ Done1(t)
        BY <1>1, <1>6 DEF KeyRemove, KeyLeaving, ListFits
    <2> QED BY <1>2, <1>3, <2>1 DEF Tearing
  <1>7. CASE CertUninstall(t)
    <2>1. undo[t] = CertOn
        BY <1>7, <1>1, UndoTails DEF CertUninstall, ListFits
    <2> QED BY <1>3, <1>7, <2>1
  <1>8. CASE CertUninstallStep(t) \/ CertForget(t)
    <2>1. undo[t] = CertOn /\ pc[t] \in CertLeaving
        BY <1>1, <1>8 DEF CertUninstallStep, LibraryStep, CertForget, CertLeaving, ListFits
    <2> QED BY <1>3, <2>1
  <1>9. CASE TornDown(t)
      BY <1>1, <1>9 DEF TornDown
  <1>10. pc[t] \notin {"idle", "initialize", "setUp", "shutdown", "leave", "backend"} \cup Pumping
      BY DEF Tearing, KeyLeaving, CertLeaving, Pumping, CertMaking, KeyMaking, CertLabels
  <1>11. ~Call(t)
      BY <1>10 DEF Call, CallInit, CallRestart, CallShutdown, CallForwarded,
         CallRunCallbacks, Start
  <1>12. ~Pump(t)
      BY <1>10, PumpMoves
  <1>13. ~(Enter(t) \/ SetUp(t) \/ Publish(t) \/ RollBack(t) \/ EnterShutdown(t) \/ Leave(t) \/ Forward(t))
      BY <1>10 DEF Enter, SetUp, Publish, RollBack, EnterShutdown, Leave, Forward
  <1> QED BY <1>4, <1>5, <1>6, <1>7, <1>8, <1>9, <1>11, <1>12, <1>13 DEF Run

(* The pump runs while the loader is initialized.                          *)
LEMMA PumpingInitialized ==
    ASSUME CallsFit, CalmFits, NEW t \in Threads, pc[t] \in Pumping
    PROVE  initialized
  BY DEF CallsFit, CallFits, CalmFits, Calm, InitAnswerHolds

(* The clause of a component that is on: it survives every step but the    *)
(* one in which its turn comes.                                            *)
LEMMA StillOn ==
    ASSUME TypeOK, ListsFit, NEW t \in Threads, Call(t) \/ Run(t), NEW part \in {"cert", "manifest"},
           part = "cert" => ~CertUninstall(t) /\ pc[t] \notin CertLeaving,
           part = "manifest" => ~KeyUninstall(t) /\ pc[t] \notin KeyLeaving,
           initialized \/ \E u \in Threads : pc[u] \in Tearing /\ In(part, undo[u])
    PROVE  initialized' \/ \E u \in Threads : pc'[u] \in Tearing /\ In(part, undo'[u])
  <1>1. CASE initialized
    <2>1. initialized' = initialized \/ initialized' \/ EnterShutdown(t)
      <3>1. Publish(t) => initialized'
          BY DEF Publish
      <3> QED BY <3>1, InitializedStays
    <2>2. ASSUME EnterShutdown(t) PROVE pc'[t] \in Tearing /\ In(part, undo'[t])
      <3>1. pc'[t] = "tearDown" /\ undo'[t] = TearDownOrder
          BY <1>1, <2>2 DEF EnterShutdown, TypeOK
      <3> QED BY <3>1, TearDownCovers DEF Tearing
    <2> QED BY <1>1, <2>1, <2>2
  <1>2. CASE \E u \in Threads : pc[u] \in Tearing /\ In(part, undo[u])
    <2>1. PICK u \in Threads : pc[u] \in Tearing /\ In(part, undo[u])
        BY <1>2
    <2>2. CASE u = t
      <3>1. pc'[t] \in Tearing /\ In(part, undo'[t])
          BY <2>1, <2>2, StillListed
      <3> QED BY <3>1
    <2>3. CASE u # t
        BY <2>1, <2>3, OthersStay
    <2> QED BY <2>2, <2>3
  <1> QED BY <1>1, <1>2

LEMMA CertTidyStep ==
    ASSUME OnePumper, TypeOK, ListsFit, LockFits, CallsFit, CalmFits, CertFits, ReadyFits, CertTidy,
           NEW t \in Threads, Call(t) \/ Run(t), ~table'.refused
    PROVE  CertTidy'
  <1>0. /\ pc \in [Threads -> Labels] /\ undo \in [Threads -> Seq(Parts)] /\ table \in Table
        /\ "auth" \in Targets /\ "setCert" \in Targets
        /\ HookedAt(t) /\ CertClear(t) /\ ListFits(t)
        /\ certActive => BothEnabled
        /\ table.ready \/ Hooks("absent", "absent")
        /\ \A u \in Threads \ {t} : pc'[u] = pc[u] /\ undo'[u] = undo[u]
      BY OthersStay, RuntimeAssumption DEF TypeOK, CertFits, CertTidy, ListsFit, ReadyFits,
         ReadyTables, Hooks
  \* outside the component
  <1>1. CASE pc[t] \notin CertLabels /\ ~CertCheck(t) /\ ~CertUninstall(t)
    <2>1. /\ certActive' = certActive
          /\ pc'[t] \notin CertLabels
          /\ table'.hook["auth"] = table.hook["auth"]
          /\ table'.hook["setCert"] = table.hook["setCert"]
        BY <1>1, CertStays
    <2>2. \A a, b : Hooks(a, b)' <=> Hooks(a, b)
        BY <2>1 DEF Hooks
    <2>3. ASSUME NEW u \in Threads PROVE CertClear(u)'
      <3>1. CASE u = t
          BY <2>1, <3>1 DEF CertClear, CertLabels
      <3>2. CASE u # t
        <4>1. pc'[u] = pc[u] /\ CertClear(u)
            BY <1>0, <3>2 DEF CertTidy
        <4>2. pc[u] = "certCreateAuth" => table'.ready
          <5>1. \/ table' = table \/ Only("observer", table, table') \/ Only("auth", table, table')
                \/ Only("setCert", table, table') \/ Only("getter", table, table')
              BY <1>1, OtherHooks DEF CertLeaving, CertLabels
          <5> QED BY <4>1, <5>1 DEF CertClear, Only
        <4> QED BY <2>2, <4>1, <4>2 DEF CertClear
      <3> QED BY <3>1, <3>2
    <2>4. certActive' \/ Hooks("absent", "absent")' \/ \E u \in Threads : pc'[u] \in CertLabels
        BY <1>0, <1>1, <2>1, <2>2 DEF CertTidy
    <2>5. certActive' => initialized' \/ \E u \in Threads : pc'[u] \in Tearing /\ In("cert", undo'[u])
        BY <1>1, <2>1, StillOn DEF CertTidy, CertLeaving, CertLabels
    <2> QED BY <2>3, <2>4, <2>5 DEF CertTidy
  <1>2. CASE CertCheck(t)
    <2>1. /\ UNCHANGED <<certActive, table, initialized, undo>> /\ pc[t] = "certCheck"
          /\ pc'[t] = "first" \/ (pc'[t] = "certLibrary" /\ ~certActive)
        BY <1>0, <1>2 DEF CertCheck, CertDone
    <2>2. \A u \in Threads : pc[u] \notin CertLabels
        BY <2>1, AloneInCert DEF CertLabels
    <2>3. ~certActive => Hooks("absent", "absent")
        BY <2>2 DEF CertTidy
    <2>4. \A a, b : Hooks(a, b)' <=> Hooks(a, b)
        BY <2>1 DEF Hooks
    <2>5. ASSUME NEW u \in Threads PROVE CertClear(u)'
      <3>1. CASE u = t
          BY <2>1, <2>3, <2>4, <3>1 DEF CertClear
      <3>2. CASE u # t
        <4>1. pc'[u] \notin CertLabels
            BY <1>0, <2>2, <3>2
        <4> QED BY <4>1 DEF CertClear, CertLabels
      <3> QED BY <3>1, <3>2
    <2>6. certActive' => initialized' \/ \E u \in Threads : pc'[u] \in Tearing /\ In("cert", undo'[u])
        BY <1>2, <2>1, StillOn DEF CertTidy, CertCheck, CertUninstall, CertLeaving
    <2> QED BY <2>1, <2>3, <2>4, <2>5, <2>6 DEF CertTidy
  <1>3. CASE CertUninstall(t)
    <2>1. /\ ~certActive' /\ UNCHANGED table /\ pc[t] = "tearDown"
          /\ IF certActive THEN pc'[t] = "certDisableAuth" ELSE UNCHANGED pc
        BY <1>0, <1>3 DEF CertUninstall
    <2>2. \A a, b : Hooks(a, b)' <=> Hooks(a, b)
        BY <2>1 DEF Hooks
    <2>3. CASE ~certActive
        BY <2>1, <2>2, <2>3 DEF CertTidy, CertClear
    <2>4. CASE certActive
      <3>1. undo[t] = CertOn
          BY <1>0, <1>3, UndoTails DEF CertUninstall, ListFits
      <3>2. \A u \in Threads \ {t} : pc'[u] \notin CertLabels
        <4>1. In("cert", undo[t])
            BY <3>1 DEF In, CertOn
        <4> QED BY <1>0, <2>1, <4>1, AloneInCert
      <3>3. Hooks("enabled", "enabled")
          BY <1>0, <2>4 DEF BothEnabled, Hooks
      <3>4. CertClear(t)'
          BY <2>1, <2>2, <2>4, <3>3 DEF CertClear
      <3>5. \A u \in Threads \ {t} : CertClear(u)'
          BY <3>2 DEF CertClear, CertLabels
      <3> QED BY <2>1, <2>4, <3>4, <3>5 DEF CertTidy, CertLabels
    <2> QED BY <2>3, <2>4
  \* inside the component
  <1>4. CASE pc[t] \in CertLabels
    <2>1. ~certActive
        BY <1>0, <1>4 DEF HookedAt
    <2>2. \A u \in Threads \ {t} : CertClear(u)'
      <3>1. \A u \in Threads \ {t} : pc'[u] \notin CertLabels
          BY <1>0, <1>4, AloneInCert
      <3> QED BY <3>1 DEF CertClear, CertLabels
    <2>3. SUFFICES /\ CertClear(t)'
                   /\ certActive' => initialized'
                   /\ certActive' \/ Hooks("absent", "absent")' \/ pc'[t] \in CertLabels
        BY <2>2 DEF CertTidy
    <2> USE <1>0
    <2>4. ASSUME NEW x \in {"auth", "setCert"}, NEW r
          PROVE  /\ r \in MH_CreateHook(table, x) /\ table.ready /\ table.hook[x] = "absent" /\ ~r.table.refused
                       => r.ok /\ r.table.hook[x] = "created"
                 /\ r \in MH_EnableHook(table, x) /\ table.hook[x] = "created" /\ ~r.table.refused
                       => r.ok /\ r.table.hook[x] = "enabled"
                 /\ r \in MH_DisableHook(table, x) /\ table.hook[x] # "absent" /\ ~r.table.refused
                       => r.ok /\ r.table.hook[x] = "created"
                 /\ r \in MH_RemoveHook(table, x) /\ table.hook[x] # "absent" /\ ~r.table.refused
                       => r.ok /\ r.table.hook[x] = "absent"
                 /\ r \in MH_CreateHook(table, x) \cup MH_EnableHook(table, x)
                          \cup MH_DisableHook(table, x) \cup MH_RemoveHook(table, x) => Only(x, table, r.table)
        <3>1. table.hook[x] # "absent" => table.ready
            BY DEF Hooks
        <3> QED BY <3>1, CreateOutcome, EnableOutcome, DisableOutcome, RemoveOutcome
    <2>5. CASE CertLibrary(t, "certLibrary", MH_Initialize(table), "certCreateAuth", "certNoLibrary")
      <3>1. PICK r \in MH_Initialize(table) :
               table' = r.table /\ Go(t, IF r.ok THEN "certCreateAuth" ELSE "certNoLibrary")
          BY <2>5 DEF CertLibrary
      <3>2. pc[t] = "certLibrary" /\ UNCHANGED certActive /\ Hooks("absent", "absent")
          BY <2>5 DEF CertLibrary, CertClear
      <3>3. r.ok /\ table'.ready /\ Hooks("absent", "absent")'
          BY <3>1, <3>2, InitializeOutcome DEF Hooks
      <3>4. pc'[t] = "certCreateAuth"
          BY <3>1, <3>3
      <3> QED BY <2>1, <3>2, <3>3, <3>4 DEF CertClear, CertLabels
    <2>6. CASE CertLibrary(t, "certCreateAuth", MH_CreateHook(table, "auth"),
                           "certCreateCert", "certUndoCreate")
      <3>1. PICK r \in MH_CreateHook(table, "auth") :
               table' = r.table /\ Go(t, IF r.ok THEN "certCreateCert" ELSE "certUndoCreate")
          BY <2>6 DEF CertLibrary
      <3>2. pc[t] = "certCreateAuth" /\ UNCHANGED certActive /\ Hooks("absent", "absent")
          BY <2>6 DEF CertLibrary, CertClear
      <3>20. table.ready
          BY <3>2 DEF CertClear
      <3>3. r.ok /\ Hooks("created", "absent")'
          BY <2>4, <3>1, <3>2, <3>20 DEF Only, Hooks
      <3>4. pc'[t] = "certCreateCert"
          BY <3>1, <3>3
      <3> QED BY <2>1, <3>2, <3>3, <3>4 DEF CertClear, CertLabels
    <2>7. CASE CertLibrary(t, "certCreateCert", MH_CreateHook(table, "setCert"),
                           "certPublish", "certUndoCreate")
      <3>1. PICK r \in MH_CreateHook(table, "setCert") :
               table' = r.table /\ Go(t, IF r.ok THEN "certPublish" ELSE "certUndoCreate")
          BY <2>7 DEF CertLibrary
      <3>2. pc[t] = "certCreateCert" /\ UNCHANGED certActive /\ Hooks("created", "absent")
          BY <2>7 DEF CertLibrary, CertClear
      <3>20. table.ready
          BY <3>2 DEF Hooks
      <3>3. r.ok /\ Hooks("created", "created")'
          BY <2>4, <3>1, <3>2, <3>20 DEF Only, Hooks
      <3>4. pc'[t] = "certPublish"
          BY <3>1, <3>3
      <3> QED BY <2>1, <3>2, <3>3, <3>4 DEF CertClear, CertLabels
    <2>8. CASE CertLibrary(t, "certEnableAuth", MH_EnableHook(table, "auth"),
                           "certEnableCert", "partDisableAuth")
      <3>1. PICK r \in MH_EnableHook(table, "auth") :
               table' = r.table /\ Go(t, IF r.ok THEN "certEnableCert" ELSE "partDisableAuth")
          BY <2>8 DEF CertLibrary
      <3>2. pc[t] = "certEnableAuth" /\ UNCHANGED certActive /\ Hooks("created", "created")
          BY <2>8 DEF CertLibrary, CertClear
      <3>3. r.ok /\ Hooks("enabled", "created")'
          BY <2>4, <3>1, <3>2 DEF Only, Hooks
      <3>4. pc'[t] = "certEnableCert"
          BY <3>1, <3>3
      <3> QED BY <2>1, <3>2, <3>3, <3>4 DEF CertClear, CertLabels
    <2>9. CASE CertLibrary(t, "certEnableCert", MH_EnableHook(table, "setCert"),
                           "certActivate", "partDisableAuth")
      <3>1. PICK r \in MH_EnableHook(table, "setCert") :
               table' = r.table /\ Go(t, IF r.ok THEN "certActivate" ELSE "partDisableAuth")
          BY <2>9 DEF CertLibrary
      <3>2. pc[t] = "certEnableCert" /\ UNCHANGED certActive /\ Hooks("enabled", "created")
          BY <2>9 DEF CertLibrary, CertClear
      <3>3. r.ok /\ Hooks("enabled", "enabled")'
          BY <2>4, <3>1, <3>2 DEF Only, Hooks
      <3>4. pc'[t] = "certActivate"
          BY <3>1, <3>3
      <3> QED BY <2>1, <3>2, <3>3, <3>4 DEF CertClear, CertLabels
    <2>10. CASE LibraryStep(t, "certDisableAuth", DisableAt("auth"), "certDisableCert")
      <3>1. pc[t] = "certDisableAuth" /\ UNCHANGED certActive /\ certAddr /\ Hooks("enabled", "enabled")
          BY <2>10 DEF LibraryStep, CertClear, HookedAt, CertLeaving
      <3>2. PICK r \in MH_DisableHook(table, "auth") : table' = r.table
          BY <2>10, <3>1 DEF LibraryStep, DisableAt
      <3>3. Hooks("created", "enabled")'
          BY <2>4, <3>1, <3>2 DEF Only, Hooks
      <3>4. pc'[t] = "certDisableCert"
          BY <2>10 DEF LibraryStep
      <3> QED BY <2>1, <3>1, <3>3, <3>4 DEF CertClear, CertLabels
    <2>11. CASE LibraryStep(t, "certDisableCert", DisableAt("setCert"), "certRemoveAuth")
      <3>1. pc[t] = "certDisableCert" /\ UNCHANGED certActive /\ certAddr /\ Hooks("created", "enabled")
          BY <2>11 DEF LibraryStep, CertClear, HookedAt, CertLeaving
      <3>2. PICK r \in MH_DisableHook(table, "setCert") : table' = r.table
          BY <2>11, <3>1 DEF LibraryStep, DisableAt
      <3>3. Hooks("created", "created")'
          BY <2>4, <3>1, <3>2 DEF Only, Hooks
      <3>4. pc'[t] = "certRemoveAuth"
          BY <2>11 DEF LibraryStep
      <3> QED BY <2>1, <3>1, <3>3, <3>4 DEF CertClear, CertLabels
    <2>12. CASE LibraryStep(t, "certRemoveAuth", RemoveAt("auth"), "certRemoveCert")
      <3>1. pc[t] = "certRemoveAuth" /\ UNCHANGED certActive /\ certAddr /\ Hooks("created", "created")
          BY <2>12 DEF LibraryStep, CertClear, HookedAt, CertLeaving
      <3>2. PICK r \in MH_RemoveHook(table, "auth") : table' = r.table
          BY <2>12, <3>1 DEF LibraryStep, RemoveAt
      <3>3. Hooks("absent", "created")'
          BY <2>4, <3>1, <3>2 DEF Only, Hooks
      <3>4. pc'[t] = "certRemoveCert"
          BY <2>12 DEF LibraryStep
      <3> QED BY <2>1, <3>1, <3>3, <3>4 DEF CertClear, CertLabels
    <2>13. CASE LibraryStep(t, "certRemoveCert", RemoveAt("setCert"), "certForget")
      <3>1. pc[t] = "certRemoveCert" /\ UNCHANGED certActive /\ certAddr /\ Hooks("absent", "created")
          BY <2>13 DEF LibraryStep, CertClear, HookedAt, CertLeaving
      <3>2. PICK r \in MH_RemoveHook(table, "setCert") : table' = r.table
          BY <2>13, <3>1 DEF LibraryStep, RemoveAt
      <3>3. Hooks("absent", "absent")'
          BY <2>4, <3>1, <3>2 DEF Only, Hooks
      <3>4. pc'[t] = "certForget"
          BY <2>13 DEF LibraryStep
      <3> QED BY <2>1, <3>1, <3>3, <3>4 DEF CertClear, CertLabels
    <2>14. CASE CertPublish(t)
      <3>1. pc[t] = "certPublish" /\ pc'[t] = "certEnableAuth" /\ UNCHANGED <<certActive, table>>
          BY <2>14 DEF CertPublish, PumpStep, CertClear
      <3> QED BY <2>1, <3>1 DEF CertClear, CertLabels, Hooks
    <2>15. CASE CertActivate(t)
      <3>1. pc[t] = "certActivate" /\ pc'[t] = "first" /\ UNCHANGED initialized /\ certActive'
          BY <2>15 DEF CertActivate, PumpStep
      <3>2. initialized
          BY <3>1, PumpingInitialized DEF Pumping, CertMaking, CertLabels, CertLeaving
      <3> QED BY <3>1, <3>2 DEF CertClear
    <2>16. CASE CertForget(t)
      <3>1. pc[t] = "certForget" /\ pc'[t] = "tearDown" /\ UNCHANGED <<certActive, table>>
          BY <2>16 DEF CertForget
      <3> QED BY <2>1, <3>1 DEF CertClear, Hooks
    <2>17. ~(CertRemovePartial(t) \/ CertNoLibrary(t) \/ CertGiveUp(t) \/ CertCheck(t))
        BY <1>4 DEF CertRemovePartial, LibraryStep, CertNoLibrary, CertGiveUp, PumpStep,
           CertCheck, CertClear, CertLabels
    <2>18. CertUpdate(t) \/ CertUninstallStep(t) \/ CertForget(t)
        BY <1>4, InsideCert
    <2> QED BY <2>5, <2>6, <2>7, <2>8, <2>9, <2>10, <2>11, <2>12, <2>13, <2>14, <2>15,
       <2>16, <2>17, <2>18
            DEF CertUpdate, CertUninstallStep
  <1> QED BY <1>1, <1>2, <1>3, <1>4

--------------------------------------------------------------------------------
(* The hook of manifest::trust.                                            *)

(* Inside manifest::trust, between two calls of the library.               *)
KeyBusy == {"keyEnable", "keyActivate", "keyRemove"}

(* How far manifest::trust is, thread by thread.                           *)
KeyClear(t) ==
    /\ pc[t] \notin {"keyUndo", "keyRemoveBad"}
    /\ pc[t] \in {"keyCreate", "keyEnable", "keyActivate"} => ~keyActive
    /\ pc[t] \in KeyBusy => keyAddr
    /\ pc[t] \in {"keyEnable", "keyRemove"} => table.hook["getter"] = "created"
    /\ pc[t] = "keyActivate" => table.hook["getter"] = "enabled"

KeyIdle == IF keyActive THEN keyAddr /\ table.hook["getter"] = "enabled"
           ELSE ~keyAddr /\ table.hook["getter"] = "absent"

(* Between the sessions it is on only while the shutdown has it on its list. *)
KeyTidy ==
    /\ keyActive => initialized \/ \E t \in Threads : pc[t] \in Tearing /\ In("manifest", undo[t])
    /\ KeyIdle \/ \E t \in Threads : pc[t] \in KeyBusy
    /\ \A t \in Threads : KeyClear(t)

(* A shutdown takes the key off before the certificates.                   *)
LEMMA KeyBeforeCert == \A list \in UndoLists : In("manifest", list) => In("cert", list)
  <1> USE DEF In
  <1>1. In("cert", TearDownOrder)
      BY TearDownCovers
  <1>2. In("cert", KeyOn)
      BY DEF KeyOn
  <1>3. ~In("manifest", CertOn) /\ ~In("manifest", <<"sku", "log">>) /\ ~In("manifest", <<>>)
      BY DEF CertOn
  <1>4. \A list \in RollBacks : ~In("manifest", list)
      BY DEF RollBacks
  <1> HIDE DEF In
  <1> QED BY <1>1, <1>2, <1>3, <1>4 DEF UndoLists

(* Likewise for manifest::trust: one pump of the process goes past the     *)
(* exchange, and a shutdown waits for it.                                  *)
LEMMA AloneInKey ==
    ASSUME OnceFits, LockFits, CallsFit, CalmFits, ListsFit,
           NEW t \in Threads,
           pc[t] \in KeyMaking \cup KeyLeaving \/ (pc[t] = "tearDown" /\ In("manifest", undo[t])),
           NEW u \in Threads, pc[u] \in KeyMaking \cup KeyLeaving
    PROVE  u = t
  <1>1. ASSUME NEW v \in Threads, pc[v] \in KeyMaking
        PROVE  game # "down"
      BY <1>1 DEF CallsFit, CallFits, CalmFits, Calm, Pumping
  <1>2. ASSUME NEW v \in Threads, pc[v] \in KeyLeaving \/ (pc[v] = "tearDown" /\ In("manifest", undo[v]))
        PROVE  lock = v /\ game = "down"
    <2>1. In("manifest", KeyOn) /\ KeyOn \in UndoLists
        BY ListTypes DEF In, KeyOn
    <2>2. pc[v] \in Tearing /\ In("manifest", undo[v]) /\ undo[v] \in UndoLists
        BY <1>2, <2>1 DEF ListsFit, ListFits, Tearing
    <2>3. In("cert", undo[v])
        BY <2>2, KeyBeforeCert
    <2> QED BY <2>2, <2>3 DEF LockFits, Inside, CallsFit, CallFits, CalmFits, Calm
  <1> QED BY <1>1, <1>2 DEF OnceFits, BeforeActivation

(* Outside manifest::trust nothing of it changes.                          *)
LEMMA KeyStays ==
    ASSUME TypeOK, ListsFit, LockFits, NEW t \in Threads, Call(t) \/ Run(t),
           pc[t] \in CertLeaving => certAddr,
           pc[t] \notin KeyMaking \cup KeyLeaving, ~KeyUninstall(t)
    PROVE  /\ keyActive' = keyActive /\ keyAddr' = keyAddr
           /\ pc'[t] \notin (KeyMaking \cup KeyLeaving) \ {"keyCheck"}
           /\ table'.hook["getter"] = table.hook["getter"]
  <1>0. pc \in [Threads -> Labels]
      BY DEF TypeOK
  <1> USE DEF KeyMaking, KeyLeaving
  <1>1. CASE Call(t)
      BY <1>0, <1>1 DEF Call, CallInit, CallRestart, CallShutdown, CallForwarded,
         CallRunCallbacks, Start
  <1>2. ~(KeyCheck(t) \/ KeyCreate(t) \/ KeyEnable(t) \/ KeyUndo(t) \/ KeyActivate(t) \/ KeyRemove(t))
      BY DEF KeyCheck, KeyCreate, KeyEnable, KeyUndo, KeyActivate, KeyRemove, PumpStep
  <1>3. UNCHANGED keyVars
    <2>1. CASE CertUpdate(t)
        BY <2>1 DEF CertUpdate, CertCheck, CertLibrary, CertNoLibrary, CertPublish,
           CertActivate,
                    CertRemovePartial, LibraryStep, CertGiveUp
    <2>2. CASE FirstPump(t) \/ Activate(t) \/ Activated(t)
        BY <2>2 DEF FirstPump, Activate, Activated
    <2>3. CASE CertUninstall(t) \/ CertUninstallStep(t) \/ CertForget(t)
        BY <2>3 DEF CertUninstall, CertUninstallStep, LibraryStep, CertForget
    <2>4. CASE SetUp(t) \/ Publish(t) \/ RollBack(t)
        BY <2>4 DEF SetUp, Publish, RollBack
    <2>5. CASE EnterShutdown(t) \/ TearDown(t) \/ TornDown(t) \/ Leave(t)
        BY <2>5 DEF EnterShutdown, TearDown, TornDown, Leave
    <2>6. CASE Enter(t)
        BY <2>6 DEF Enter
    <2>7. CASE Forward(t)
        BY <2>7 DEF Forward
    <2> QED BY <1>1, <1>2, <2>1, <2>2, <2>3, <2>4, <2>5, <2>6, <2>7 DEF Run, Pump
  <1>4. pc'[t] \notin (KeyMaking \cup KeyLeaving) \ {"keyCheck"}
    <2>1. ASSUME NEW from, NEW outcomes, NEW good \in CertLabels, NEW bad \in CertLabels,
                 CertLibrary(t, from, outcomes, good, bad)
          PROVE  pc'[t] \in CertLabels
        BY <1>0, <2>1 DEF CertLibrary
    <2>2. CASE CertUpdate(t)
      <3>1. pc'[t] \in CertLabels \cup {"first"}
        <4>1. CASE CertCheck(t)
            BY <1>0, <4>1 DEF CertCheck, CertDone, CertLabels
        <4>2. CASE CertNoLibrary(t) \/ CertPublish(t) \/ CertActivate(t) \/ CertGiveUp(t)
            BY <1>0, <4>2 DEF CertNoLibrary, CertPublish, CertActivate, CertGiveUp,
               PumpStep, CertLabels
        <4>3. CASE CertRemovePartial(t)
            BY <1>0, <4>3 DEF CertRemovePartial, LibraryStep, CertLabels
        <4> QED BY <2>1, <2>2, <4>1, <4>2, <4>3 DEF CertUpdate, CertLabels
      <3> QED BY <3>1 DEF CertLabels
    <2>3. CASE FirstPump(t) \/ Activate(t) \/ Activated(t)
        BY <1>0, <2>3 DEF FirstPump, Activate, Activated, PumpStep
    <2>4. CASE CertUninstall(t) \/ CertUninstallStep(t) \/ CertForget(t)
        BY <1>0, <2>4 DEF CertUninstall, CertUninstallStep, LibraryStep, CertForget
    <2>5. CASE SetUp(t) \/ Publish(t) \/ RollBack(t)
        BY <1>0, <2>5 DEF SetUp, Publish, RollBack
    <2>6. CASE EnterShutdown(t) \/ TearDown(t) \/ TornDown(t) \/ Leave(t)
        BY <1>0, <2>6 DEF EnterShutdown, TearDown, TornDown, Leave, Finish
    <2>7. CASE Enter(t)
        BY <1>0, <2>7 DEF Enter
    <2>8. CASE Forward(t)
        BY <1>0, <2>8 DEF Forward, Finish
    <2> QED BY <1>1, <1>2, <2>2, <2>3, <2>4, <2>5, <2>6, <2>7, <2>8 DEF Run, Pump
  <1>5. table'.hook["getter"] = table.hook["getter"]
    <2>1. pc[t] = "tearDown" => table' = table
      <3>1. pc[t] = "tearDown" => ~Pump(t) /\ ~Call(t)
          BY PumpMoves DEF Pumping, CertMaking, CertLabels, Call, CallInit, CallRestart,
             CallShutdown,
                           CallForwarded, CallRunCallbacks, Start
      <3>2. pc[t] = "tearDown" => ~(SetUp(t) \/ CertUninstallStep(t))
          BY DEF SetUp, CertUninstallStep, LibraryStep
      <3> QED BY <1>2, <3>1, <3>2 DEF Run, Enter, Publish, RollBack, EnterShutdown,
         TearDown, TornDown,
                 CertUninstall, CertForget, Leave, Forward
    <2>2. table' = table \/ Only("observer", table, table') \/ Only("auth", table, table')
            \/ Only("setCert", table, table')
        BY <2>1, OtherHooks
    <2> QED BY <2>2, RuntimeAssumption DEF Only
  <1> QED BY <1>3, <1>4, <1>5

LEMMA KeyTidyStep ==
    ASSUME TypeOK, ListsFit, LockFits, OnceFits, CallsFit, CalmFits, CertFits, ReadyFits, KeyTidy,
           NEW t \in Threads, Call(t) \/ Run(t), ~table'.refused
    PROVE  KeyTidy'
  <1>0. /\ pc \in [Threads -> Labels] /\ undo \in [Threads -> Seq(Parts)] /\ table \in Table
        /\ "getter" \in Targets
        /\ KeyClear(t) /\ ListFits(t)
        /\ pc[t] \in CertLeaving => certAddr
        /\ table.ready \/ table.hook["getter"] = "absent"
        /\ \A u \in Threads \ {t} : pc'[u] = pc[u]
      BY OthersStay, RuntimeAssumption
         DEF TypeOK, CertFits, HookedAt, KeyTidy, ListsFit, ReadyFits, ReadyTables
  \* the steps of manifest::trust, which only one thread takes at a time
  <1>1. ASSUME pc[t] \in KeyMaking \cup KeyLeaving \/ (pc[t] = "tearDown" /\ In("manifest", undo[t])),
               KeyClear(t)', KeyIdle' \/ pc'[t] \in KeyBusy,
               keyActive' => initialized' \/ (pc'[t] \in Tearing /\ In("manifest", undo'[t]))
        PROVE  KeyTidy'
    <2>1. \A u \in Threads \ {t} : pc'[u] \notin KeyMaking \cup KeyLeaving
        BY <1>0, <1>1, AloneInKey
    <2>2. \A u \in Threads \ {t} : KeyClear(u)'
        BY <2>1 DEF KeyClear, KeyBusy, KeyMaking, KeyLeaving
    <2> QED BY <1>1, <2>2 DEF KeyTidy
  <1>2. ASSUME pc[t] \in KeyMaking \cup KeyLeaving \/ (pc[t] = "tearDown" /\ In("manifest", undo[t])),
               pc[t] \notin KeyBusy
        PROVE  KeyIdle
    <2>1. \A u \in Threads : pc[u] \notin KeyBusy
        BY <1>2, AloneInKey DEF KeyBusy, KeyMaking, KeyLeaving
    <2> QED BY <2>1 DEF KeyTidy
  <1>3. pc[t] \in KeyMaking => initialized
      BY PumpingInitialized DEF Pumping
  <1>4. CASE pc[t] \notin KeyMaking \cup KeyLeaving /\ ~KeyUninstall(t)
    <2>1. /\ keyActive' = keyActive /\ keyAddr' = keyAddr
          /\ pc'[t] \notin (KeyMaking \cup KeyLeaving) \ {"keyCheck"}
          /\ table'.hook["getter"] = table.hook["getter"]
        BY <1>0, <1>4, KeyStays
    <2>2. ASSUME NEW u \in Threads PROVE KeyClear(u)'
      <3>1. CASE u = t
          BY <2>1, <3>1 DEF KeyClear, KeyBusy, KeyMaking, KeyLeaving
      <3>2. CASE u # t
        <4>1. pc'[u] = pc[u] /\ KeyClear(u)
            BY <1>0, <3>2 DEF KeyTidy
        <4> QED BY <2>1, <4>1 DEF KeyClear
      <3> QED BY <3>1, <3>2
    <2>3. KeyIdle' \/ \E u \in Threads : pc'[u] \in KeyBusy
      <3>1. KeyIdle' <=> KeyIdle
          BY <2>1 DEF KeyIdle
      <3> QED BY <1>0, <1>4, <3>1 DEF KeyTidy, KeyBusy, KeyMaking, KeyLeaving
    <2>4. keyActive' => initialized' \/ \E u \in Threads : pc'[u] \in Tearing /\ In("manifest", undo'[u])
        BY <1>4, <2>1, StillOn DEF KeyTidy
    <2> QED BY <2>2, <2>3, <2>4 DEF KeyTidy
  <1>5. CASE KeyCheck(t)
    <2>1. /\ pc[t] = "keyCheck" /\ UNCHANGED <<keyActive, keyAddr, table, initialized>>
          /\ pc'[t] = "activate" \/ (pc'[t] = "keyCreate" /\ ~keyActive)
        BY <1>0, <1>5 DEF KeyCheck, PumpStep
    <2> QED BY <1>1, <1>2, <1>3, <2>1 DEF KeyClear, KeyIdle, KeyBusy, KeyMaking
  <1>6. CASE KeyCreate(t)
    <2>1. /\ pc[t] = "keyCreate" /\ UNCHANGED <<keyActive, initialized>> /\ ~keyActive
          /\ ~keyAddr /\ table.hook["getter"] = "absent"
        BY <1>0, <1>2, <1>6 DEF KeyCreate, KeyClear, KeyIdle, KeyBusy, KeyMaking
    <2>2. PICK r \in MH_CreateHook(table, "getter") :
             table' = r.table /\ keyAddr' = (keyAddr \/ r.ok)
             /\ pc'[t] = (IF r.ok THEN "keyEnable" ELSE "activate")
        BY <1>0, <1>6 DEF KeyCreate
    <2>3. IF r.ok THEN table'.hook["getter"] = "created" ELSE table'.hook["getter"] = "absent"
        BY <1>0, <2>1, <2>2, CreateOutcome
    <2> QED BY <1>1, <1>3, <2>1, <2>2, <2>3 DEF KeyClear, KeyIdle, KeyBusy, KeyMaking
  <1>7. CASE KeyEnable(t)
    <2>1. /\ pc[t] = "keyEnable" /\ UNCHANGED <<keyActive, keyAddr, initialized>> /\ ~keyActive
          /\ keyAddr /\ table.hook["getter"] = "created"
        BY <1>0, <1>7 DEF KeyEnable, KeyClear, KeyBusy
    <2>2. PICK r \in MH_EnableHook(table, "getter") :
             table' = r.table /\ pc'[t] = (IF r.ok THEN "keyActivate" ELSE "keyUndo")
        BY <1>0, <1>7 DEF KeyEnable
    <2>3. r.ok /\ table'.hook["getter"] = "enabled"
        BY <1>0, <2>1, <2>2, EnableOutcome
    <2> QED BY <1>1, <2>1, <2>2, <2>3 DEF KeyClear, KeyIdle, KeyBusy, KeyMaking
  <1>8. CASE KeyActivate(t)
    <2>1. /\ pc[t] = "keyActivate" /\ pc'[t] = "activate" /\ UNCHANGED <<keyAddr, initialized, table>>
          /\ keyActive' /\ keyAddr /\ table.hook["getter"] = "enabled"
        BY <1>0, <1>8 DEF KeyActivate, KeyClear, KeyBusy, PumpStep
    <2> QED BY <1>1, <1>3, <2>1 DEF KeyClear, KeyIdle, KeyBusy, KeyMaking
  <1>9. CASE KeyUninstall(t)
    <2>1. /\ pc[t] = "tearDown" /\ undo[t] # <<>> /\ Head(undo[t]) = "manifest"
          /\ UNCHANGED <<keyAddr, initialized>>
        BY <1>9 DEF KeyUninstall
    <2>2. In("manifest", undo[t])
        BY <1>0, <2>1, HeadLeaves
    <2>3. KeyIdle
        BY <1>2, <2>1, <2>2 DEF KeyBusy
    <2>4. CASE ~keyAddr
      <3>1. ~keyActive' /\ UNCHANGED <<pc, table>>
          BY <1>9, <2>4 DEF KeyUninstall
      <3> QED BY <1>1, <2>1, <2>2, <2>3, <2>4, <3>1 DEF KeyClear, KeyIdle, KeyBusy
    <2>5. CASE keyAddr
      <3>1. /\ UNCHANGED <<keyActive, undo>>
            /\ keyActive /\ table.hook["getter"] = "enabled"
          BY <1>9, <2>3, <2>5 DEF KeyUninstall, KeyIdle
      <3>2. PICK r \in MH_DisableHook(table, "getter") :
               table' = r.table /\ pc'[t] = (IF r.ok THEN "keyRemove" ELSE "keyRemoveBad")
          BY <1>0, <1>9, <2>5 DEF KeyUninstall
      <3>3. r.ok /\ table'.hook["getter"] = "created"
          BY <1>0, <3>1, <3>2, DisableOutcome
      <3> QED BY <1>1, <2>1, <2>2, <2>5, <3>1, <3>2, <3>3 DEF KeyClear, KeyIdle, KeyBusy,
         Tearing, KeyLeaving
    <2> QED BY <2>4, <2>5
  <1>10. CASE KeyRemove(t)
    <2>1. /\ pc[t] = "keyRemove" /\ pc'[t] = "tearDown"
          /\ table.hook["getter"] = "created"
        BY <1>0, <1>10 DEF KeyRemove, KeyClear
    <2>2. PICK r \in MH_RemoveHook(table, "getter") :
             table' = r.table /\ (r.ok => ~keyActive' /\ ~keyAddr')
        BY <1>10, <2>1 DEF KeyRemove
    <2>3. r.ok /\ table'.hook["getter"] = "absent"
        BY <1>0, <2>1, <2>2, RemoveOutcome
    <2> QED BY <1>1, <2>1, <2>2, <2>3 DEF KeyClear, KeyIdle, KeyBusy, KeyLeaving
  <1>11. CASE pc[t] \in KeyMaking \cup KeyLeaving
    <2> USE DEF KeyMaking, KeyLeaving
    <2>1. ~KeyUndo(t)
        BY <1>0 DEF KeyUndo, KeyClear
    <2>2. ~Call(t)
        BY <1>11 DEF Call, CallInit, CallRestart, CallShutdown, CallForwarded,
           CallRunCallbacks, Start
    <2>3. ~CertUpdate(t)
        BY <1>11 DEF CertUpdate, CertCheck, CertLibrary, CertNoLibrary, CertPublish,
           CertActivate,
                    CertRemovePartial, LibraryStep, CertGiveUp, PumpStep
    <2>4. ~(FirstPump(t) \/ Activate(t) \/ Activated(t) \/ CertUninstall(t) \/ CertUninstallStep(t) \/ CertForget(t))
        BY <1>11 DEF FirstPump, Activate, Activated, PumpStep, CertUninstall,
           CertUninstallStep, LibraryStep, CertForget
    <2>5. ~(Enter(t) \/ SetUp(t) \/ Publish(t) \/ RollBack(t) \/ EnterShutdown(t) \/ TearDown(t) \/ TornDown(t)
            \/ Leave(t) \/ Forward(t))
        BY <1>11 DEF Enter, SetUp, Publish, RollBack, EnterShutdown, TearDown, TornDown,
           Leave, Forward
    <2> QED BY <1>5, <1>6, <1>7, <1>8, <1>9, <1>10, <2>1, <2>2, <2>3, <2>4, <2>5 DEF Run, Pump
  <1> QED BY <1>4, <1>9, <1>11

(* What was promised while nothing was refused.                            *)
TidyFits == ~table.refused => CertTidy /\ KeyTidy

LEMMA TidyInvariant == ASSUME Disciplined, OnePumper PROVE Spec => []TidyFits
  <1>1. Init => TidyFits
    <2>1. Init => ~certActive /\ Hooks("absent", "absent") /\ table.hook["getter"] = "absent"
        BY RuntimeAssumption DEF Init, EmptyTable, Hooks
    <2> QED BY <2>1 DEF Init, TidyFits, CertTidy, CertClear, KeyTidy, KeyClear, KeyIdle, KeyBusy
  <1>2. /\ TypeOK /\ ListsFit /\ LockFits /\ OnceFits /\ CallsFit /\ CalmFits /\ CertFits /\ ReadyFits
        /\ TidyFits /\ [Next]_vars
        => TidyFits'
    <2>1. TidyFits /\ UNCHANGED vars => TidyFits'
        BY DEF vars, TidyFits, CertTidy, CertClear, Hooks, KeyTidy, KeyClear, KeyIdle
    <2> QED BY <2>1, RefusedStays, CertTidyStep, KeyTidyStep DEF TidyFits, Next
  <1> QED BY <1>1, <1>2, TypeCorrect, MutualExclusion, OnceInvariant, CallsInvariant,
     CalmInvariant,
             CertInvariant, ReadyInvariant, PTL DEF Spec

(* When the loader is shut down and no call is running, no detour of the pump *)
(* components is left in the game unless the library was refused memory or a *)
(* change of protection: shutdown lists both, in whatever state the pump was. *)
THEOREM NoDetourStays == ASSUME Disciplined, OnePumper PROVE Spec => []NoDetourLeft
  <1>1. TidyFits => NoDetourLeft
    <2> SUFFICES ASSUME CertTidy, KeyTidy, Quiet, ~initialized
                 PROVE  \A x \in CertTargets \cup {"getter"} : table.hook[x] = "absent"
        BY DEF TidyFits, NoDetourLeft
    <2>1. \A t \in Threads : pc[t] \notin Tearing \cup CertLabels \cup KeyBusy
        BY DEF Quiet, Tearing, KeyLeaving, CertLeaving, CertLabels, KeyBusy
    <2>2. Hooks("absent", "absent")
        BY <2>1 DEF CertTidy
    <2>3. KeyIdle /\ ~keyActive
        BY <2>1 DEF KeyTidy
    <2> QED BY <2>2, <2>3 DEF Hooks, KeyIdle, CertTargets
  <1> QED BY <1>1, TidyInvariant, PTL
================================================================================
