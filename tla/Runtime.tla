-------------------------------- MODULE Runtime --------------------------------
(***************************************************************************)
(* The life of the loader inside the game: core/dllmain.cpp (the exported   *)
(* Steam calls), core/runtime.cpp (initialize, shutdown and                 *)
(* on_callback_pump), steam/backend.cpp (the original Steam DLL), and the   *)
(* two components that a callback pump installs while holding no lock,      *)
(* steam/certificate_compat.cpp and network/manifest_trust.cpp.             *)
(*                                                                          *)
(* The code patches (SKU policy, package trust, TLS policy), the game       *)
(* logging and the logger appear here as parts that are set up or torn down *)
(* in one step under the runtime lock.  Every call of the hook library is a *)
(* step of its own, because between two of them another thread may run.     *)
(***************************************************************************)
EXTENDS HookTable, GateCalls, Sequences, FiniteSets

CONSTANTS
    Threads,        \* the game's threads
    Pumpers,        \* those that call SteamAPI_RunCallbacks
    Settings,       \* the configurations modloader.ini may hold
    Faults,         \* which of "config", "gate", "sku_file", "steam" may fail
    Disciplined,    \* whether the game calls in the order Steam asks for
    MaxCalls,       \* bound: calls the game makes
    Nobody          \* no thread

Gates == {"sku", "pkg", "tls"}
CertTargets == {"auth", "setCert"}

ASSUME RuntimeAssumption ==
    /\ Targets = {"observer", "auth", "setCert", "getter"}
    /\ Pumpers \subseteq Threads
    /\ Settings \subseteq [gameLogs : BOOLEAN, unsigned : BOOLEAN, tls : BOOLEAN,
                           certCompat : BOOLEAN, manifestKey : BOOLEAN]
    /\ Faults \subseteq {"config", "gate", "sku_file", "steam"}
    /\ Disciplined \in BOOLEAN
    /\ MaxCalls \in Nat
    /\ Nobody \notin Threads

VARIABLES
    ini,            \* modloader.ini, which nobody edits while the game runs
    lock,           \* runtime.cpp g_lock: the thread that holds it
    initialized,    \* g_initialized
    firstPump,      \* g_firstCallbackPump
    log,            \* "off", "on", or "mute": running without a writer thread
    capture,        \* game_logging.cpp g_capture
    hookInstalled,  \* game_logging.cpp g_hookInstalled
    catalog,        \* mod_catalog.cpp: "empty", "scanning" or "complete"
    backend,        \* backend.cpp: "untried", "loaded" or "failed"
    table,          \* the hook library
    certActive,     \* certificate_compat.cpp g_active
    certFailed,     \* g_failed
    certAddr,       \* whether its two addresses are set
    keyActive,      \* manifest_trust.cpp g_active
    keyAddr,        \* whether g_getterAddress is set
    pc,             \* where each thread is
    call,           \* the exported function each thread is in
    todo,           \* parts each thread still has to set up
    undo,           \* parts each thread still has to tear down
    answer,         \* what its runtime call returns
    game,           \* what the game believes of Steam: "down", "up", or "pumped"
                    \* once a pump of this session has returned
    activations,    \* history: how often activate_discovered ran
    calls           \* calls the game may still make

runtimeVars == <<lock, initialized, firstPump>>
partVars == <<log, capture, hookInstalled, gates, faulty, catalog>>
certVars == <<certActive, certFailed, certAddr>>
keyVars == <<keyActive, keyAddr>>
workVars == <<call, todo, undo, answer>>
gameVars == <<game, activations, calls>>
vars == <<ini, runtimeVars, partVars, backend, table, certVars, keyVars, pc,
          workVars, gameVars>>

Go(t, label) == pc' = [pc EXCEPT ![t] = label]

Init ==
    /\ ini \in Settings
    /\ lock = Nobody
    /\ initialized = FALSE
    /\ firstPump = FALSE
    /\ log = "off"
    /\ capture = FALSE /\ hookInstalled = FALSE
    /\ gates = {} /\ faulty = {}
    /\ catalog = "empty"
    /\ backend = "untried"
    /\ table = EmptyTable
    /\ certActive = FALSE /\ certFailed = FALSE /\ certAddr = FALSE
    /\ keyActive = FALSE /\ keyAddr = FALSE
    /\ pc = [t \in Threads |-> "idle"]
    /\ call = [t \in Threads |-> "none"]
    /\ todo = [t \in Threads |-> <<>>]
    /\ undo = [t \in Threads |-> <<>>]
    /\ answer = [t \in Threads |-> TRUE]
    /\ game = "down"
    /\ activations = 0
    /\ calls = MaxCalls

--------------------------------------------------------------------------------
(* The game's calls.                                                       *)

Quiet == \A t \in Threads : pc[t] = "idle"

Start(t, name, label) ==
    /\ pc[t] = "idle"
    /\ calls > 0
    /\ calls' = calls - 1
    /\ call' = [call EXCEPT ![t] = name]
    /\ Go(t, label)
    /\ UNCHANGED <<ini, runtimeVars, partVars, backend, table, certVars, keyVars,
                   todo, undo, answer, activations>>

CallInit(t) ==
    /\ Disciplined => Quiet /\ game = "down"
    /\ Start(t, "init", "initialize")
    /\ UNCHANGED game

CallRestart(t) ==
    /\ Start(t, "restart", "initialize")
    /\ UNCHANGED game

CallShutdown(t) ==
    /\ Disciplined => Quiet /\ game # "down"
    /\ Start(t, "shutdown", "backend")
    /\ game' = "down"

(* The remaining exports only load the original DLL and forward the call.  *)
CallForwarded(t) ==
    /\ Start(t, "forwarded", "backend")
    /\ UNCHANGED game

CallRunCallbacks(t) ==
    /\ t \in Pumpers
    /\ Disciplined => game # "down"
    /\ Start(t, "pump", "certCheck")
    /\ UNCHANGED game

Finish(t) ==
    /\ Go(t, "idle")
    /\ call' = [call EXCEPT ![t] = "none"]

--------------------------------------------------------------------------------
(* runtime::initialize.                                                    *)

SetUpOrder == <<"log", "capture", "sku", "pkg", "tls", "prepare", "scan">>

(* What initialize tears down when a part fails, in the order of the code. *)
UndoWithoutPackages(part) ==    \* fault: packages::trust::uninstall forgotten
    CASE part = "sku"     -> <<"capture", "log">>
      [] part = "pkg"     -> <<"capture", "sku", "log">>
      [] part = "tls"     -> <<"capture", "sku", "log">>
      [] part = "prepare" -> <<"tls", "capture", "sku", "log">>

UndoAfter(part) ==
    CASE part = "sku"     -> <<"capture", "log">>
      [] part = "pkg"     -> <<"capture", "sku", "log">>
      [] part = "tls"     -> <<"pkg", "capture", "sku", "log">>
      [] part = "prepare" -> <<"tls", "pkg", "capture", "sku", "log">>

(* Taking the lock, the early return, and the creation of the default      *)
(* configuration, whose failure is acted on only after the logger runs.    *)
EnterWithoutCheck(t) ==     \* fault: the test of g_initialized forgotten
    /\ pc[t] = "initialize"
    /\ lock = Nobody
    /\ lock' = t
    /\ todo' = [todo EXCEPT ![t] = SetUpOrder]
    /\ answer' = [answer EXCEPT ![t] = TRUE]
    /\ Go(t, "setUp")
    /\ UNCHANGED <<ini, initialized, firstPump, partVars, backend, table, certVars,
                   keyVars, call, undo, gameVars>>

Enter(t) ==
    /\ pc[t] = "initialize"
    /\ lock = Nobody
    /\ lock' = t
    /\ \/ /\ initialized
          /\ answer' = [answer EXCEPT ![t] = TRUE]
          /\ Go(t, "leave")
          /\ UNCHANGED <<todo, undo>>
       \/ /\ ~initialized
          /\ \E ready \in {TRUE} \cup (IF "config" \in Faults THEN {FALSE} ELSE {}) :
                /\ todo' = [todo EXCEPT ![t] = IF ready THEN SetUpOrder ELSE <<"log">>]
                /\ undo' = [undo EXCEPT ![t] = IF ready THEN <<>> ELSE <<"log">>]
                /\ answer' = [answer EXCEPT ![t] = ready]
          /\ Go(t, "setUp")
    /\ UNCHANGED <<ini, initialized, firstPump, partVars, backend, table, certVars,
                   keyVars, call, gameVars>>

(* The parts.  Each leaves the others' variables alone; ok is what install *)
(* returned (TRUE for a part that cannot fail).                            *)
SetUpLog ==
    /\ log' \in {"on", "mute"}
    /\ UNCHANGED <<capture, hookInstalled, gates, faulty, catalog, table>>

(* game_logging::start: the hook is made once per process and kept; every  *)
(* failure leaves the capture off and is not reported to the caller.       *)
SetUpCapture ==
    /\ \/ /\ ini.gameLogs /\ ~capture
          /\ \/ /\ hookInstalled
                /\ capture' = TRUE
                /\ UNCHANGED <<hookInstalled, table>>
             \/ /\ ~hookInstalled
                /\ \E i \in MH_Initialize(table) :
                     IF ~i.ok THEN UNCHANGED <<capture, hookInstalled>> /\ table' = i.table
                     ELSE \E c \in MH_CreateHook(i.table, "observer") :
                       IF ~c.ok THEN UNCHANGED <<capture, hookInstalled>> /\ table' = c.table
                       ELSE \E e \in MH_EnableHook(c.table, "observer") :
                         IF e.ok
                         THEN /\ capture' = TRUE /\ hookInstalled' = TRUE
                              /\ table' = e.table
                         ELSE /\ UNCHANGED <<capture, hookInstalled>>
                              /\ \E r \in MH_RemoveHook(e.table, "observer") :
                                    table' = r.table
       \/ /\ ~ini.gameLogs \/ capture \/ (LibraryFaults /\ ~hookInstalled)
          /\ UNCHANGED <<capture, hookInstalled, table>>
    /\ UNCHANGED <<log, gates, faulty, catalog>>

Requested(gate) ==
    CASE gate = "sku" -> ini.unsigned
      [] gate = "tls" -> ini.tls
      [] gate = "pkg" -> TRUE

(* A code patch, of which GateCalls says what its install may do.          *)
SetUpGate(gate, ok) ==
    /\ InstallGate(gate, Requested(gate), "gate" \in Faults, ok)
    /\ UNCHANGED <<log, capture, hookInstalled, catalog, table>>

(* prepare_sku: the file itself is not part of this module.                *)
Prepare(ok) ==
    /\ ok \/ (ini.unsigned /\ "sku_file" \in Faults)
    /\ UNCHANGED <<log, capture, hookInstalled, gates, faulty, catalog, table>>

Scan(state) ==
    /\ catalog' = state
    /\ UNCHANGED <<log, capture, hookInstalled, gates, faulty, table>>

SetUpPart(part, ok) ==
    \/ part = "log" /\ ok /\ SetUpLog
    \/ part = "capture" /\ ok /\ SetUpCapture
    \/ part \in Gates /\ SetUpGate(part, ok)
    \/ part = "prepare" /\ Prepare(ok)
    \/ part = "scan" /\ ok /\ Scan("scanning")

SetUp(t) ==
    /\ pc[t] = "setUp"
    /\ todo[t] # <<>>
    /\ \E ok \in BOOLEAN :
        /\ SetUpPart(Head(todo[t]), ok)
        /\ todo' = [todo EXCEPT ![t] = IF ok THEN Tail(@) ELSE <<>>]
        /\ IF ok THEN UNCHANGED <<undo, answer>>
           ELSE /\ undo' = [undo EXCEPT ![t] = UndoAfter(Head(todo[t]))]
                /\ answer' = [answer EXCEPT ![t] = FALSE]
    /\ UNCHANGED <<ini, runtimeVars, backend, certVars, keyVars, pc, call, gameVars>>

(* mods::scan has replaced the catalog; initialize publishes and returns.  *)
Publish(t) ==
    /\ pc[t] = "setUp"
    /\ todo[t] = <<>> /\ undo[t] = <<>>
    /\ catalog = "scanning" /\ catalog' = "complete"
    /\ initialized' = TRUE
    /\ Go(t, "leave")
    /\ UNCHANGED <<ini, lock, firstPump, log, capture, hookInstalled, gates, faulty,
                   backend, table, certVars, keyVars, workVars, gameVars>>

RollBack(t) ==
    /\ pc[t] = "setUp"
    /\ todo[t] = <<>> /\ undo[t] # <<>>
    /\ Go(t, "tearDown")
    /\ UNCHANGED <<ini, runtimeVars, partVars, backend, table, certVars, keyVars,
                   workVars, gameVars>>

--------------------------------------------------------------------------------
(* runtime::shutdown and the roll-back in initialize.                      *)

TearDownLogFirst ==         \* fault: log::shutdown moved to the front
    <<"log", "tls", "manifest", "cert", "pkg", "capture", "sku">>

TearDownWithoutManifest ==  \* fault: manifest::trust::uninstall forgotten
    <<"tls", "cert", "pkg", "capture", "sku", "log">>

TearDownOrder == <<"tls", "manifest", "cert", "pkg", "capture", "sku", "log">>

EnterShutdown(t) ==
    /\ pc[t] = "shutdown"
    /\ lock = Nobody
    /\ lock' = t
    /\ initialized' = FALSE
    /\ IF initialized
         THEN undo' = [undo EXCEPT ![t] = TearDownOrder] /\ Go(t, "tearDown")
         ELSE Go(t, "leave") /\ UNCHANGED undo
    /\ UNCHANGED <<ini, firstPump, partVars, backend, table, certVars, keyVars,
                   call, todo, answer, gameVars>>

(* stop, log::shutdown and the uninstall of a patch, which keeps the patch *)
(* when the memory cannot be written.                                      *)
TearDownPart(part) ==
    \/ /\ part = "log" /\ log' = "off"
       /\ UNCHANGED <<capture, gates, faulty>>
    \/ /\ part = "capture" /\ capture' = FALSE
       /\ UNCHANGED <<log, gates, faulty>>
    \/ /\ part \in Gates
       /\ UninstallGate(part, "gate" \in Faults)
       /\ UNCHANGED <<log, capture>>

Done1(t) == undo' = [undo EXCEPT ![t] = Tail(@)]

TearDown(t) ==
    /\ pc[t] = "tearDown"
    /\ undo[t] # <<>>
    /\ TearDownPart(Head(undo[t]))
    /\ Done1(t)
    /\ UNCHANGED <<ini, runtimeVars, hookInstalled, catalog, backend, table, certVars,
                   keyVars, pc, call, todo, answer, gameVars>>

TornDown(t) ==
    /\ pc[t] = "tearDown"
    /\ undo[t] = <<>>
    /\ Go(t, "leave")
    /\ UNCHANGED <<ini, runtimeVars, partVars, backend, table, certVars, keyVars,
                   workVars, gameVars>>

(* manifest::trust::uninstall.                                             *)
KeyUninstall(t) ==
    /\ pc[t] = "tearDown"
    /\ undo[t] # <<>> /\ Head(undo[t]) = "manifest"
    /\ \/ /\ ~keyAddr
          /\ keyActive' = FALSE
          /\ Done1(t)
          /\ UNCHANGED <<table, pc>>
       \/ /\ keyAddr
          /\ \E r \in MH_DisableHook(table, "getter") :
                /\ table' = r.table
                /\ Go(t, IF r.ok THEN "keyRemove" ELSE "keyRemoveBad")
          /\ UNCHANGED <<keyActive, undo>>
    /\ UNCHANGED <<ini, runtimeVars, partVars, backend, certVars, keyAddr, call, todo,
                   answer, gameVars>>

KeyRemove(t) ==
    /\ pc[t] \in {"keyRemove", "keyRemoveBad"}
    /\ \E r \in MH_RemoveHook(table, "getter") :
        /\ table' = r.table
        /\ IF r.ok /\ pc[t] = "keyRemove"
             THEN keyActive' = FALSE /\ keyAddr' = FALSE
             ELSE UNCHANGED keyVars
    /\ Done1(t)
    /\ Go(t, "tearDown")
    /\ UNCHANGED <<ini, runtimeVars, partVars, backend, certVars, call, todo, answer,
                   gameVars>>

(* certificate_compat::uninstall: the four calls pass the addresses as     *)
(* they are at that moment, and NULL disables every hook of the process.   *)
CertUninstall(t) ==
    /\ pc[t] = "tearDown"
    /\ undo[t] # <<>> /\ Head(undo[t]) = "cert"
    /\ certActive' = FALSE
    /\ IF certActive THEN Go(t, "certDisableAuth") /\ UNCHANGED undo
       ELSE Done1(t) /\ UNCHANGED pc
    /\ UNCHANGED <<ini, runtimeVars, partVars, backend, table, certFailed, certAddr,
                   keyVars, call, todo, answer, gameVars>>

DisableAt(target) ==
    IF certAddr THEN MH_DisableHook(table, target) ELSE MH_DisableAllHooks(table)

(* MH_RemoveHook(NULL) finds no entry.                                     *)
RemoveAt(target) ==
    IF certAddr THEN MH_RemoveHook(table, target) ELSE Refused(table)

LibraryStep(t, from, outcomes, to) ==
    /\ pc[t] = from
    /\ \E r \in outcomes : table' = r.table
    /\ Go(t, to)
    /\ UNCHANGED <<ini, runtimeVars, partVars, backend, certVars, keyVars, workVars,
                   gameVars>>

CertUninstallStep(t) ==
    \/ LibraryStep(t, "certDisableAuth", DisableAt("auth"), "certDisableCert")
    \/ LibraryStep(t, "certDisableCert", DisableAt("setCert"), "certRemoveAuth")
    \/ LibraryStep(t, "certRemoveAuth", RemoveAt("auth"), "certRemoveCert")
    \/ LibraryStep(t, "certRemoveCert", RemoveAt("setCert"), "certForget")

CertForget(t) ==
    /\ pc[t] = "certForget"
    /\ certAddr' = FALSE
    /\ Done1(t)
    /\ Go(t, "tearDown")
    /\ UNCHANGED <<ini, runtimeVars, partVars, backend, table, certActive, certFailed,
                   keyVars, call, todo, answer, gameVars>>

(* Releasing the lock at the end of runtime::initialize or shutdown.       *)
LeaveAnyway(t) ==   \* fault: the result of runtime::initialize not tested
    /\ pc[t] = "leave"
    /\ lock = t
    /\ lock' = Nobody
    /\ IF call[t] = "shutdown" THEN Finish(t) ELSE Go(t, "backend") /\ UNCHANGED call
    /\ UNCHANGED <<ini, initialized, firstPump, partVars, backend, table, certVars,
                   keyVars, todo, undo, answer, gameVars>>

LeaveLocked(t) ==   \* fault: ReleaseSRWLockExclusive forgotten after a failure
    /\ pc[t] = "leave"
    /\ lock = t
    /\ lock' = IF answer[t] THEN Nobody ELSE lock
    /\ IF call[t] = "shutdown" \/ ~answer[t] THEN Finish(t)
       ELSE Go(t, "backend") /\ UNCHANGED call
    /\ UNCHANGED <<ini, initialized, firstPump, partVars, backend, table, certVars,
                   keyVars, todo, undo, answer, gameVars>>

Leave(t) ==
    /\ pc[t] = "leave"
    /\ lock = t
    /\ lock' = Nobody
    /\ IF call[t] = "shutdown" \/ ~answer[t] THEN Finish(t)
       ELSE Go(t, "backend") /\ UNCHANGED call
    /\ UNCHANGED <<ini, initialized, firstPump, partVars, backend, table, certVars,
                   keyVars, todo, undo, answer, gameVars>>

--------------------------------------------------------------------------------
(* The original Steam DLL: backend::initialize, which tries once per       *)
(* process, and the forwarded call.                                        *)

LoadBackend ==
    IF backend # "untried" THEN UNCHANGED backend
    ELSE backend' \in {"loaded"} \cup (IF "steam" \in Faults THEN {"failed"} ELSE {})

Forward(t) ==
    /\ pc[t] = "backend"
    /\ LoadBackend
    /\ \E ok \in BOOLEAN :
        /\ ok => backend' = "loaded"
        /\ ok \/ backend' = "failed" \/ "steam" \in Faults
        /\ \/ /\ call[t] = "init" /\ ok
              /\ Finish(t)
              /\ game' = "up"
              /\ UNCHANGED answer
           \/ /\ call[t] = "init" /\ ~ok
              \* SteamAPI_Init shuts the runtime down again.
              /\ answer' = [answer EXCEPT ![t] = FALSE]
              /\ Go(t, "shutdown")
              /\ UNCHANGED <<call, game>>
           \/ /\ call[t] = "shutdown"
              /\ Go(t, "shutdown")
              /\ UNCHANGED <<call, answer, game>>
           \/ /\ call[t] \in {"restart", "forwarded"}
              /\ Finish(t)
              /\ UNCHANGED <<answer, game>>
           \/ /\ call[t] = "pump"
              /\ Finish(t)
              /\ game' = IF game = "up" THEN "pumped" ELSE game
              /\ UNCHANGED answer
    /\ UNCHANGED <<ini, runtimeVars, partVars, table, certVars, keyVars, todo, undo,
                   activations, calls>>

--------------------------------------------------------------------------------
(* runtime::on_callback_pump, which holds no lock.  game_logging::update   *)
(* only rewrites thresholds and is left out.                               *)

PumpStep(t, from, to) == pc[t] = from /\ Go(t, to)

CertDone(t) == Go(t, "first")

(* The tests at the head of certificate_compat::update.  The networking    *)
(* DLL may not be loaded yet; the patterns match only functions that are   *)
(* not hooked, since a hook overwrites their first bytes.                  *)
CertCheck(t) ==
    /\ pc[t] = "certCheck"
    /\ \/ CertDone(t) /\ UNCHANGED certFailed
       \/ /\ ~certActive /\ ~certFailed /\ ini.certCompat
          /\ \/ /\ \A x \in CertTargets : table.hook[x] # "enabled"
                /\ Go(t, "certLibrary")
                /\ UNCHANGED certFailed
             \/ CertDone(t) /\ certFailed' = TRUE
    /\ UNCHANGED <<ini, runtimeVars, partVars, backend, table, certActive, certAddr,
                   keyVars, workVars, gameVars>>

(* A call of the hook library in update: on success to one label, on       *)
(* failure to another.                                                     *)
CertLibrary(t, from, outcomes, good, bad) ==
    /\ pc[t] = from
    /\ \E r \in outcomes :
        /\ table' = r.table
        /\ Go(t, IF r.ok THEN good ELSE bad)
    /\ UNCHANGED <<ini, runtimeVars, partVars, backend, certVars, keyVars, workVars,
                   gameVars>>

(* The addresses are published after both hooks were made, and also before *)
(* a failed pair is removed.                                               *)
CertPublishNothing(t) ==    \* fault: the addresses are not published
    /\ \/ PumpStep(t, "certPublish", "certEnableAuth")
       \/ PumpStep(t, "certUndoCreate", "partDisableAuth")
    /\ UNCHANGED <<ini, runtimeVars, partVars, backend, table, certVars, keyVars,
                   workVars, gameVars>>

CertPublish(t) ==
    /\ \/ PumpStep(t, "certPublish", "certEnableAuth")
       \/ PumpStep(t, "certUndoCreate", "partDisableAuth")
    /\ certAddr' = TRUE
    /\ UNCHANGED <<ini, runtimeVars, partVars, backend, table, certActive, certFailed,
                   keyVars, workVars, gameVars>>

CertActivate(t) ==
    /\ PumpStep(t, "certActivate", "first")
    /\ certActive' = TRUE
    /\ UNCHANGED <<ini, runtimeVars, partVars, backend, table, certFailed, certAddr,
                   keyVars, workVars, gameVars>>

(* remove_partial_hooks: each pair of calls is skipped when the address is *)
(* null.                                                                   *)
CertRemovePartial(t) ==
    /\ \/ /\ certAddr
          /\ \/ LibraryStep(t, "partDisableAuth", DisableAt("auth"), "partRemoveAuth")
             \/ LibraryStep(t, "partDisableCert", DisableAt("setCert"), "partRemoveCert")
       \/ LibraryStep(t, "partRemoveAuth", RemoveAt("auth"), "partDisableCert")
       \/ LibraryStep(t, "partRemoveCert", RemoveAt("setCert"), "partForget")
       \/ /\ ~certAddr
          /\ \/ LibraryStep(t, "partDisableAuth", Refused(table), "partDisableCert")
             \/ LibraryStep(t, "partDisableCert", Refused(table), "partForget")

(* The end of remove_partial_hooks and the assignment to g_failed.         *)
CertGiveUp(t) ==
    /\ PumpStep(t, "partForget", "first")
    /\ certAddr' = FALSE
    /\ certFailed' = TRUE
    /\ UNCHANGED <<ini, runtimeVars, partVars, backend, table, certActive, keyVars,
                   workVars, gameVars>>

CertNoLibrary(t) ==
    /\ PumpStep(t, "certNoLibrary", "first")
    /\ certFailed' = TRUE
    /\ UNCHANGED <<ini, runtimeVars, partVars, backend, table, certActive, certAddr,
                   keyVars, workVars, gameVars>>

CertUpdate(t) ==
    \/ CertCheck(t)
    \/ CertLibrary(t, "certLibrary", MH_Initialize(table), "certCreateAuth", "certNoLibrary")
    \/ CertNoLibrary(t)
    \/ CertLibrary(t, "certCreateAuth", MH_CreateHook(table, "auth"),
                   "certCreateCert", "certUndoCreate")
    \/ CertLibrary(t, "certCreateCert", MH_CreateHook(table, "setCert"),
                   "certPublish", "certUndoCreate")
    \/ CertPublish(t)
    \/ CertLibrary(t, "certEnableAuth", MH_EnableHook(table, "auth"),
                   "certEnableCert", "partDisableAuth")
    \/ CertLibrary(t, "certEnableCert", MH_EnableHook(table, "setCert"),
                   "certActivate", "partDisableAuth")
    \/ CertActivate(t)
    \/ CertRemovePartial(t)
    \/ CertGiveUp(t)

(* The compare-and-exchange that lets one pump of the process go on.       *)
FirstPumpUnchecked(t) ==    \* fault: a store instead of the exchange
    /\ PumpStep(t, "first", "keyCheck")
    /\ firstPump' = TRUE
    /\ UNCHANGED <<ini, lock, initialized, partVars, backend, table, certVars, keyVars,
                   workVars, gameVars>>

FirstPump(t) ==
    /\ PumpStep(t, "first", IF firstPump THEN "backend" ELSE "keyCheck")
    /\ firstPump' = TRUE
    /\ UNCHANGED <<ini, lock, initialized, partVars, backend, table, certVars, keyVars,
                   workVars, gameVars>>

(* manifest::trust::install.  It relies on another component to have       *)
(* initialised the hook library.                                           *)
KeyCheck(t) ==
    /\ PumpStep(t, "keyCheck",
                IF ~keyActive /\ ini.manifestKey /\ table.hook["getter"] # "enabled"
                THEN "keyCreate" ELSE "activate")
    /\ UNCHANGED <<ini, runtimeVars, partVars, backend, table, certVars, keyVars,
                   workVars, gameVars>>

KeyCreate(t) ==
    /\ pc[t] = "keyCreate"
    /\ \E r \in MH_CreateHook(table, "getter") :
        /\ table' = r.table
        /\ keyAddr' = (keyAddr \/ r.ok)
        /\ Go(t, IF r.ok THEN "keyEnable" ELSE "activate")
    /\ UNCHANGED <<ini, runtimeVars, partVars, backend, certVars, keyActive, workVars,
                   gameVars>>

KeyEnable(t) ==
    /\ pc[t] = "keyEnable"
    /\ \E e \in MH_EnableHook(table, "getter") :
        /\ table' = e.table
        /\ Go(t, IF e.ok THEN "keyActivate" ELSE "keyUndo")
    /\ UNCHANGED <<ini, runtimeVars, partVars, backend, certVars, keyVars, workVars,
                   gameVars>>

KeyUndo(t) ==
    /\ pc[t] = "keyUndo"
    /\ \E r \in MH_RemoveHook(table, "getter") : table' = r.table
    /\ keyAddr' = FALSE
    /\ Go(t, "activate")
    /\ UNCHANGED <<ini, runtimeVars, partVars, backend, certVars, keyActive, workVars,
                   gameVars>>

KeyActivate(t) ==
    /\ PumpStep(t, "keyActivate", "activate")
    /\ keyActive' = TRUE
    /\ UNCHANGED <<ini, runtimeVars, partVars, backend, table, certVars, keyAddr,
                   workVars, gameVars>>

(* packages::activate_discovered walks through the catalog.                *)
Activate(t) ==
    /\ PumpStep(t, "activate", "activated")
    /\ activations' = activations + 1
    /\ UNCHANGED <<ini, runtimeVars, partVars, backend, table, certVars, keyVars,
                   workVars, game, calls>>

Activated(t) ==
    /\ PumpStep(t, "activated", "backend")
    /\ UNCHANGED <<ini, runtimeVars, partVars, backend, table, certVars, keyVars,
                   workVars, gameVars>>

Pump(t) ==
    \/ CertUpdate(t)
    \/ FirstPump(t)
    \/ KeyCheck(t)
    \/ KeyCreate(t)
    \/ KeyEnable(t)
    \/ KeyUndo(t)
    \/ KeyActivate(t)
    \/ Activate(t)
    \/ Activated(t)

--------------------------------------------------------------------------------
(* What a thread does once it is inside a call.                            *)
Run(t) ==
    \/ Enter(t)
    \/ SetUp(t)
    \/ Publish(t)
    \/ RollBack(t)
    \/ EnterShutdown(t)
    \/ TearDown(t)
    \/ TornDown(t)
    \/ KeyUninstall(t)
    \/ KeyRemove(t)
    \/ CertUninstall(t)
    \/ CertUninstallStep(t)
    \/ CertForget(t)
    \/ Leave(t)
    \/ Forward(t)
    \/ Pump(t)

Call(t) ==
    \/ CallInit(t)
    \/ CallRestart(t)
    \/ CallShutdown(t)
    \/ CallForwarded(t)
    \/ CallRunCallbacks(t)

Next == \E t \in Threads : Call(t) \/ Run(t)

Spec == Init /\ [][Next]_vars

(* The scheduler lets a thread that is inside a call go on.  That is all   *)
(* the runtime lock needs: the calls are finitely many, so a thread that   *)
(* waits for it sees it free for good in the end.                          *)
Fairness == \A t \in Threads : WF_vars(Run(t))

FairSpec == Spec /\ Fairness

--------------------------------------------------------------------------------
(* Properties.                                                             *)

CertLabels == {"certLibrary", "certNoLibrary", "certCreateAuth", "certCreateCert",
               "certPublish", "certUndoCreate", "certEnableAuth", "certEnableCert",
               "certActivate", "partDisableAuth", "partRemoveAuth", "partDisableCert",
               "partRemoveCert", "partForget", "certDisableAuth", "certDisableCert",
               "certRemoveAuth", "certRemoveCert", "certForget"}

Labels == CertLabels \cup
          {"idle", "initialize", "setUp", "tearDown", "leave", "backend", "shutdown",
           "keyRemove", "keyRemoveBad", "certCheck", "first", "keyCheck", "keyCreate",
           "keyEnable", "keyUndo", "keyActivate", "activate", "activated"}

Parts == {"log", "capture", "prepare", "scan", "manifest", "cert"} \cup Gates

TypeOK ==
    /\ ini \in Settings
    /\ lock \in Threads \cup {Nobody}
    /\ initialized \in BOOLEAN /\ firstPump \in BOOLEAN
    /\ log \in {"off", "on", "mute"}
    /\ capture \in BOOLEAN /\ hookInstalled \in BOOLEAN
    /\ gates \subseteq Gates /\ faulty \subseteq Gates
    /\ catalog \in {"empty", "scanning", "complete"}
    /\ backend \in {"untried", "loaded", "failed"}
    /\ table \in Table
    /\ certActive \in BOOLEAN /\ certFailed \in BOOLEAN /\ certAddr \in BOOLEAN
    /\ keyActive \in BOOLEAN /\ keyAddr \in BOOLEAN
    /\ pc \in [Threads -> Labels]
    /\ call \in [Threads -> {"none", "init", "restart", "shutdown", "forwarded", "pump"}]
    /\ todo \in [Threads -> Seq(Parts)]
    /\ undo \in [Threads -> Seq(Parts)]
    /\ answer \in [Threads -> BOOLEAN]
    /\ game \in {"down", "up", "pumped"}
    /\ activations \in Nat
    /\ calls \in 0 .. MaxCalls

(* While the loader is initialized and nobody is changing that, everything *)
(* the configuration asks for is in force; and whatever a failed or a      *)
(* finished session leaves in force is a patch that could not be written   *)
(* back.                                                                   *)
ArmedOrUnwound ==
    lock = Nobody =>
        IF initialized
        THEN /\ log # "off"
             /\ \A gate \in Gates : Requested(gate) => gate \in gates
             /\ catalog = "complete"
        ELSE /\ log = "off"
             /\ ~capture
             /\ gates \subseteq faulty

(* The parts write their messages through the logger: the lifecycle never  *)
(* touches a patch or the capture before log::initialize or after          *)
(* log::shutdown, so no reason for a failure goes unheard.                 *)
ChangesAreLogged ==
    [][gates' # gates \/ capture' # capture => log # "off"]_vars

(* The package files are handed to the engine at most once per process,    *)
(* however often and from however many threads the game pumps.             *)
ActivatedOnce == activations <= 1

(* Packages reach the engine only while its integrity gates are open and   *)
(* the catalog is complete, and the catalog is not replaced under the walk.*)
PackagesBehindOpenGates ==
    \A t \in Threads :
        pc[t] \in {"activate", "activated"} => "pkg" \in gates /\ catalog = "complete"

(* What SteamAPI_Init has answered stays true until the game shuts Steam   *)
(* down: the runtime is initialized and the original DLL is loaded.        *)
InitAnswerHolds == game # "down" => initialized /\ backend = "loaded"

(* While the loader says that it captures the game's log, and nobody is    *)
(* inside initialize or shutdown, the observer is in the engine's path: no *)
(* other component's clean-up has disabled it (game_logging::start).       *)
CaptureIsObserved ==
    lock = Nobody /\ capture => table.hook["observer"] = "enabled"

(* certificate_compat: while g_active says so and neither a pump nor a     *)
(* shutdown is inside the component, both hooks are in force and known.    *)
CertActiveMeansHooked ==
    certActive /\ (\A t \in Threads : pc[t] \notin CertLabels) =>
        /\ certAddr
        /\ \A x \in CertTargets : table.hook[x] = "enabled"

(* When the game has shut Steam down, no detour of the pump components is  *)
(* left in the game, unless the library could not write the code back.     *)
NoDetourLeft ==
    Quiet /\ ~initialized /\ ~table.refused =>
        \A x \in CertTargets \cup {"getter"} : table.hook[x] = "absent"

(* A configured key is in force once the first pump of a session is over.  *)
ConfiguredKeyInForce ==
    Quiet /\ game = "pumped" /\ ini.manifestKey =>
        table.hook["getter"] = "enabled"

(* Every exported call returns.                                            *)
EveryCallReturns == \A t \in Threads : pc[t] # "idle" ~> pc[t] = "idle"
================================================================================
