# A TLA+ development of Tigris Loader

Tigris Loader is a Windows DLL that takes the place of `steam_api64.dll` beside
one build of a game.  It forwards the Steam calls to the original DLL, and while
it is inside the game it patches code, hooks functions, mirrors the game's log,
decrypts one configuration file and submits mod packages.  This directory holds
TLA+ models of it, the TLC configurations that check them on small instances,
and theorems that the TLAPS proof system has checked for every instance.

Paths such as `core/log.cpp` are relative to `src/` of the repository,
`minhook` is `third_party/minhook`.  The repository has no tests; what the code
promises is read from its comments, its log messages, its headers and
`modloader.ini.example`.

## 1. The system

### Components, their state and their operations

| component | state | operations | modelled by |
|---|---|---|---|
| Logging, `core/log.cpp` | ring of 1024 lines, `g_dropped`, `g_stopping`, writer thread, file and console | `write`, `write_game` (any thread), `drain` (writer thread), `initialize`, `shutdown` | `Log`, `LogContract` |
| Lifecycle, `core/runtime.cpp`, `core/dllmain.cpp` | runtime lock, `g_initialized`, `g_firstCallbackPump` | `initialize`, `shutdown`, `on_callback_pump`, the exported `SteamAPI_*` | `Runtime`; the order of the patches again in `Patches`, the configuration file in `SkuStart` |
| Steam backend, `steam/backend.cpp` | module handle, `g_attempted` | one attempt to load the original DLL, forwarded calls | `Runtime` |
| Certificate compatibility, `steam/certificate_compat.cpp` | `g_active`, `g_failed`, two hook addresses | `update` (each pump, no lock), `uninstall` | `Runtime`, `HookTable` |
| Manifest trust, `network/manifest_trust.cpp` | `g_active`, hook address, key | `install` (first pump), `uninstall` | `Runtime`, `HookTable` |
| Package gates, `mods/package_trust.cpp` | three addresses, three saved originals | `install`, `uninstall` | `PackageTrust`, `CodePatch`, `Patches`, `PatchGates` |
| TLS policy, `network/tls_policy.cpp` | three addresses, three saved originals | `install`, `uninstall` | `TlsPolicy`, `CodePatch`, `Patches`, `PatchGates` |
| SKU policy, `sku/policy.cpp` | address and original of one byte, owed page protection | `install`, `uninstall`, `set_gate` | `SkuPolicy`, `SkuStart` |
| SKU file, `sku/file.cpp` | three files on disk, shared by every running loader | `decrypt_file` | `SkuFile` |
| Game log capture, `native/game_logging.cpp` | observer hook, capture flag, 26 saved thresholds | `start`, `update`, `stop`, the observer | flag and hook in `Runtime`; thresholds in `GameLog` |
| Catalog, `mods/mod_catalog.cpp` | list of mods and packages | `scan`, `snapshot` | `ModCatalog`; one step of `Runtime` |
| Package registration, `mods/package_runtime.cpp` | the engine's package list | `activate_discovered` | `PackageRegistration`; when it runs, in `Runtime` |
| Hook library, `minhook` | hook table, frozen threads, trampolines | `MH_*` | table and statuses in `HookTable` |
| Scanning, `native/native_scan.cpp` | none | `main_image`, `scan_unique` | `NativeScan`; an outcome elsewhere |
| SKU codec, `sku/codec.cpp` | none | `decode`, `encode`, `validate` | `Codec`; format only, in `SkuFile` |
| SKU tool, `sku/main.cpp` | files | `decode`, `encode`, `check`, one command per process | `SkuTool` |
| Native targets and game API, `native/native_targets.cpp`, `native/native_game_api.cpp` | - | - | not modelled: not part of the build |

### How they interact

* The game calls the exported functions from any thread.  `SteamAPI_Init` runs
  `runtime::initialize` and then the original function, and takes the runtime
  down again when the original fails.  `SteamAPI_Shutdown` takes it down;
  `SteamAPI_RunCallbacks` runs `on_callback_pump` and then the original.
* `initialize` and `shutdown` hold the runtime lock from beginning to end and
  call the other components in a fixed order, each failure with its own list of
  parts to take back.  `on_callback_pump` holds no lock: the first pump of the
  process installs the manifest key and submits the packages, and every pump
  calls `certificate_compat::update`.
* Three components share the process-wide hook table of MinHook; two of them
  initialise it when they need it.
* Every component logs through the ring of `core/log.cpp`; the observer hook adds
  the game's own messages to it from the game's threads.
* `decrypt_file` shares three files with other loaders, with `sku_config.exe`
  and with whoever edits the configuration.  The codec decides what a document
  is; the gate that `sku/policy.cpp` opens makes the game accept it.
* `modloader.ini` is created by the first `initialize` that misses it and read by
  every component for itself, each time with the default of that call.
* `scan` fills the catalog under the runtime lock; `activate_discovered` walks it
  from a pump, scans the game's image for the engine's function and submits the
  packages.

### What is hard, and what makes each component correct

* Logging: many producers, one consumer that writes without the lock, a wait
  that must not miss its wake-up, a full ring, a shutdown that must empty the
  ring first.  Correct when accepted lines come out once and in order, when
  every loss is named in a notice, and when `shutdown` returns with nothing left.
* Lifecycle: nine early returns that release one lock, hand-written roll-backs,
  flags that outlive a session, pumps that run beside everything else.  Correct
  when a session is either complete or undone, when packages go in once and only
  behind open gates, and when no hook or patch outlives the session unnoticed.
* Code patches: each write may be refused before or after the copy, and the same
  addresses say "installed" and "to be restored".  Correct when what is written
  back is the game's own code and when nothing patched is forgotten.
* SKU policy: the byte and its protection belong to the engine and to Windows,
  both of which act in between.  Correct when both are given back, or known to be
  owed.
* Configuration: the file is created, read by the policy and read again before the
  conversion, while another loader writes it or the user edits it.  Correct when
  `sku_config.txt` is converted only in a process whose policy is active.
* Packages: enumerations in no particular order, file system calls that fail in the
  middle, several packages of one identity.  Correct when a failure hides only what
  it was about, and when the packages submitted are a function of the directory.
* Codec and tool: lengths at a block boundary, a template whose signature covers
  other bytes, a save that is broken off.  Correct when what was saved decodes to
  what was read, when headers of the vendor only stand before what the vendor
  signed, and when only the output file is written.
* SKU file: crashes, failures, competing loaders and editors between any two
  system calls.  Correct when only what was converted is replaced and when the
  options can always be read from some file.

PROJECT.json lists 40 such hazards, each at the line where it bites, with the
properties that would catch it.  Where a property excepts the hazard's own case, or
catches only a part of it, the hazard's note says so.

## 2. The plan

In this order, the most important behaviour first:

1. `LogContract`, `Log`, `LogProofs`: the logger, its abstract specification, the
   refinement and its proof.  Done.
2. `HookTable`, `Runtime`, `MCRuntime`: the lifecycle with the components that
   share the lock, the hook table and the pump.  Done.
3. `SkuPolicy`, `SkuPolicyProofs`, `SkuFile`, `SkuFileProofs`: the gate and the
   file conversion.  Done.
4. `CodePatch`, `PackageTrust`, `TlsPolicy`, `Patches`, `PatchesProofs`: the code
   patches, composed in the order in which the runtime uses them.  Done.
5. `GameLog`, `GameLogProofs`: the 26 thresholds of the engine's log block, which
   are lowered and given back while the engine rewrites them.  Done.
6. `NativeScan`, `ModCatalog`, `PackageRegistration`, `MCPackages`,
   `PackagesProofs`: from the directory of mods to the packages submitted, with
   the set that should be submitted as a definition of its own (`Chosen`).  Done.
7. `Codec`, `SkuTool`, `MCSkuTool`, `SkuToolProofs`: the codec as operators, and the
   commands of the tool on shared files.  Done.
8. `SkuStart`: the policy among starts of several loaders beside one
   `modloader.ini`; its theorems are in `SkuPolicyProofs`.  Done.
9. `GateCalls`, `PatchGates`: the steps that `Runtime` takes for a call of a code
   patch, and the detailed calls shown to be such steps.  Done.
10. `RuntimeProofs`: the safety properties of `Runtime` for any number of threads;
    in `PatchesProofs` also the theorem of `PatchGates`.  Done.
11. `HookEngine`: freeze, patch and thaw with threads inside the code that is
    being patched, refining `HookTable`.  Open; it is third-party code, of which
    the loader uses what `HookTable` has.

Composition: `Runtime` contains the lifecycle, the backend, the certificate and
the manifest component and one `HookTable`; `Patches` extends `PackageTrust` and
`TlsPolicy`, which share the loops of `CodePatch`, and adds the part of the
runtime that calls them; `PatchGates` watches them in the terms of `GateCalls`, of
which `Runtime` is made.  `SkuStart` extends `SkuPolicy` with the part of the runtime
that creates and reads the configuration.  `PackageRegistration` composes
`ModCatalog` and `NativeScan`, and `SkuTool` uses `Codec`.  Eight modules hold
theorems.

## 3. The modules

**`LogContract`** is what `core/log.h` promises: a bounded first-in first-out
channel that may refuse a line when it is full, owes a notice for each line it
refused and closes only when it holds and owes nothing.

**`Log`** has the globals of `core/log.cpp` under their own names.  Each region
that holds `g_lock` is one action (`Enqueue`, `Take`, `Sleep`, `Exit`, ...); `emit`
(`Emit`, `Notice`) and the wait for the writer thread (`Join`) run without it and
are steps of their own.  A caller formats its line before it takes the lock
(`Format`), so a line may be formatted in one session and enqueued in the next.
A line is a pair of its caller and a number.  The writer thread may wake without
reason.  The text of a line and its time stamp are left out, and so is the
truncation of the log file by a second session.

**`HookTable`** is the hook library as the loader uses it: a table with one state
per target, and for each `MH_*` call an operator that gives the set of its
possible outcomes (the new table, and whether the status is `MH_OK`).
`MH_DisableHook(NULL)` is `MH_DisableAllHooks`, as in `MinHook.h`.  A call may fail (`LibraryFaults`) where memory protection or
allocation can.

**`Runtime`** keeps the flags of the five source files, a program counter for each
thread, and lists of the parts each thread has still to set up or take down.
One step per part under the runtime lock, one step per call of the hook library
outside it.  The three code patches are here a set `gates` of those in force,
each with one step of **`GateCalls`**, and `faulty` remembers what a refused write
left behind; section 6 says what that hides.  The game's order of calls is the
constant `Disciplined`: either Steam's order (no pump outside a session, no shutdown
during a pump) or any.

**`SkuPolicy`** has the globals of `sku/policy.cpp`, the byte and the protection of
its page.  `set_gate` is three steps (`Protect`, `Exchange`, `Restore`), and the
engine may write the byte between any two.  Scan and checks are an outcome of
`Look`.

**`SkuStart`** puts these calls where `initialize`, its unwinding and `shutdown` make
them, and adds what they depend on: `modloader.ini`, reduced to the two options of
its `[sku]` section, the loader that has it open for itself, the two reads of
`prepare_sku` and the conversion as one step.  `CodeDefaults` is what the calls
read in a file that is missing, empty or held by another loader; `FileDefaults` is
what the embedded file says.  Other loaders create the file and convert, too; any
process may end anywhere, and its successor begins with a fresh image
(`FreshProcess`).  `changed` is a history: whether what is read has changed since
`policy.cpp:87` read it.

**`SkuFile`** has the three files and one program counter for each loader.  Each
system call of `decrypt_file` is a step, and `CopyFileW` three: it opens its source,
creates the backup and fills it, so that a crash can leave half a backup.  Whoever
reads the configuration has it open (`Readers`: the ifstream of line 14, the source of
`CopyFileW`) without letting others delete it, so that the `ReplaceFileW` of another
loader fails although nothing is wrong; `refused` is the history of that.  The first
read is therefore two steps, `Open` and `Read`.  The other way round, a file that is
being replaced cannot be opened and may not be seen (`ReplacedByOther`).  The second
read (line 58) is one step: its reader owns the temporary file, so nobody else is
replacing.  A document is its format and its text; all damaged
documents are one.  `Faults` says which calls may fail, `MaxFaults` how often.
`WatchfulEditor` is the one assumption about the people who edit: that they keep
out of the moment between the second read and `ReplaceFileW`.  `stale` is a history:
which loaders' document somebody has edited since they read it.

**`CodePatch`** has the state that `package_trust.cpp` and `tls_policy.cpp` have in
common and their common loops: patch until one is refused, roll back ignoring
answers, take out and keep the addresses if any write was refused.  A refused
`write_code` may or may not have copied.  **`PackageTrust`** and **`TlsPolicy`** add
the early return, the scan, the configuration and the order of the sites.
**`Patches`** calls them as `runtime.cpp` does.  The runtime holds its lock all the
time, so there is one call at a time.

**`PatchGates`** is `Patches` with the two variables of `GateCalls`, which change when
a call returns: a gate is in `gates` when any of its sites is patched or any of its
addresses kept.  It is how the one-step calls of `Runtime` are justified.

**`GameLog`** has the globals of `native/game_logging.cpp`.  Each access to a
threshold is a step (`Save`, `Exchange`, `GiveBack`), and so is the look at
`g_blockSlot`; between any two the engine may write a threshold (`Configure`),
free its block or make another one (`Reallocate`).  Only the block that the
engine uses has thresholds: an access to one that was freed faults (`Except`),
reads anything and changes nothing that matters.  `start`, `update` and `stop`
run under `g_lock`, so there is one call at a time; the two seconds between
updates are left out, as is the call of `start` that finds a running capture.
The history `own` is what the engine wants, `alike` the categories where it
wrote a verbosity itself.

**`NativeScan`** has the offset, the match so far and the answer of `scan_unique`, one
step per offset.  An image is a sequence of bytes, empty when `main_image` does not
accept the module; a pattern is a sequence of bytes and wildcards.

**`ModCatalog`** has `g_catalog` and the two nested loops of `scan`.  The mod directory
holds entries that are mods or not; a mod has packages under names, and a package is
what the code tests of it: its identity (`packageId`, `patchId`), whether its header
can be read and whether its path fits.  Entries and names come in any order.  A
failing call of the file system is a disjunct of the step that makes the call
(`FileSystemFails`); `LoseEntries` and `LosePackages` are an iterator that fails.
The two sorts are part of `EndOfMod` and `EndOfScan`: each gives the one list of the
same records in which the comparison of the code holds from each to every later one
(`SortedPackages`, `SortedMods`).  Names and identities are numbers in the order of that
comparison.  Scripts are only counted for the log and are left out.

**`PackageRegistration`** is `activate_discovered`: the early returns, the scan for the
engine's function (`NativeScan`) and the walk over the catalog, which skips an
identity that was submitted before.  The two nested loops visit the places of the
catalog (`Places`) in the order `Precede`; `todo` has those that are left.  `Rescan` is a scan of any session before the
first pump; that nobody scans during the walk is a matter of `Runtime`.

**`Codec`** has no state.  A file is a sequence of units: lines of text, padding bytes,
bytes of a signature header and bytes of the cipher.  A byte of the cipher stands for
the plaintext up to the end of its block, which is what CBC makes of it; the cipher
itself belongs to the operating system.  `kBlockSize`, `kSignedHeaderSize` and
`kMaxSize` are constants, so that small files reach the boundaries.

**`SkuTool`** is one process of `sku_config` after the other, with a step for each file
that is read, created or written.  Any of them may fail, the process may end between
any two, and somebody may save a text at any time (`Edit`).  A `Write` that is broken
off leaves any part of the output under its final name.

The definitions that are marked `fault` in a comment (`NoWake`, `CreateAlways`,
`TlsPatchedOnly`, ...) are plausible bugs.  No specification uses them: each is put
in place of the definition after it to see that a property notices.

## 4. The runs

| run | what it asks | bounds | states |
|---|---|---|---|
| `log` | no line lost, repeated or reordered; losses named; outputs stable under `emit`; refinement of `LogContract`; no lost wake-up; shutdown returns | 2 writers with 2 lines, ring of 2, 2 sessions | 214,601 |
| `runtime_disciplined` | what the game is told stays true; packages behind open gates; flags agree with hooks; no detour is left after a shutdown | 2 threads of which one pumps, 6 calls, three configurations, every fault of the library and the parts | 8,112,033 |
| `runtime_any_order` | a session is complete or undone, activation once, everything logged, every call returns | 2 threads in any order, both pump, 3 calls, refused patches and SKU failures | 358,612 |
| `sku_file` | one owner of the temporary file; only the original replaced; it is backed up unless edited; options survive; somebody converts unless a replacement was refused, and whoever is alone converts | 2 loaders with 2 calls, 2 texts, 2 failures, 1 crash, 2 edits | 686,840 |
| `sku_start` | byte and protection given back or owed; active means open; no conversion without the policy | 2 loaders, 3 starts, 1 death, 1 edit, 6 calls, 2 writes of the engine, refusals and failures at will | 320,995 |
| `patches` | saved bytes are stock; nothing forgotten; down is stock; up is as requested; each call is one of `GateCalls` | 3 sessions, 3 refused writes, every configuration | 65,426 |
| `game_log` | thresholds given back; no third value in between; a running capture keeps its verbosity | 2 categories, 2 verbosities, 3 levels of the engine, 2 blocks, 2 sessions, 3 writes of the engine | 285,209 |
| `packages` | the only match is found; a failure stays local; the packages submitted are a function of the directory | 2 entries with 2 names, 2 scans, 1 failing call, every image of up to 4 bytes | 1,782,085 |
| `sku_tool` | headers only before what the vendor signed; only the output changes; what was saved decodes to its input; what is accepted fits the client | 2 commands, 3 files, a hundred drafts, 1 edit, 2 failures or deaths | 1,452,957 |
| `key_without_library`, `two_pumps`, `patches_half` | the disagreements of section 6 | as small as the counterexample allows | - |

Why the bounds are enough: a ring of two wraps around, fills and overflows with four
lines; two sessions reach everything that survives one; two threads reach each race
of a pump with a pump and of a call with a lock holder, since no code counts
threads; six calls are Init, pump, Shutdown and the same again, and leave room for a
call that interferes; the three configurations are everything, the certificate and
the manifest component without the capture, and the capture without them, so that
each user of the hook library is the first one once; two loaders race for each file
and two calls let one meet what its crash left behind, while two edits can change the
file and change it back; three sessions with three
refusals reach an install after a half uninstall after a half install; two
categories let the engine act before, between and after the accesses of a loop, and
three writes let it free a block, make it again at the same address and rewrite it
within one session; three starts are one of another loader during ours and a second
of ours; two entries with two names hold each identity twice, in one mod or in two,
and four bytes hold a pattern of two bytes around a wildcard at the beginning, at
the end and at both; two commands are an encode after a decode, an edit or a broken
off command, and three files an input, an output and a template that may coincide.
Deadlock is not checked where the bounded game, editor or caller simply stops; that
nobody waits for ever is what `EveryCallReturns` and `ShutdownReturns` say, and the
loaders of `SkuFile` wait for nothing.

### Fairness

* `Log`: weak fairness of the writer thread and of the thread inside `shutdown`.
  Both are ordinary threads; a sleeping writer is not assumed to wake by itself.
* `Runtime`: weak fairness of each thread inside a call.  The lock needs no more,
  because the bounded game makes finitely many calls: the lock is free for good
  in the end.  A game that calls for ever could starve a thread, as SRW locks are
  not fair; that is outside the claim.
* `SkuFile`: weak fairness of each loader.  `OneLoaderConverts` is claimed only
  for behaviours without edits, crashes and failures: a `.decrypting` file that a
  crash left behind blocks later conversions, as the message in `file.cpp:46`
  says it should.  And it claims a conversion only when no loader's reading made the
  replacement of another one fail, or when a call begins that no other loader
  interferes with any more (`Unrivalled`): that loaders which start together convert
  at all is not true of the code (section 6).
* `GameLog`: weak fairness of a call that has begun and of the updates, which the
  game causes with every callback pump while it runs (`runtime.cpp:192`).

## 5. The proofs

Everything below holds for every value of the constants under the named
assumptions of the modules, and is proved from the specification alone.

* `LogProofs`: `TypeCorrect`, `LossesNeverForgotten`, `LinesKeepTheirPlaces`,
  `NothingIsLeftBehind`, `OutputsStableUnderEmit`, `LoggerKeepsItsContract`.  The
  inductive invariant `IInv` adds three parts to the types: `Handshake` (the
  writer's place agrees with `thread`, `stopping` and the control thread),
  `Losses` (refused = reported + held by the writer + `g_dropped`) and `Places`
  (the ring slot at distance i from the head holds the accepted line that many
  places after the written ones).  `NothingMisplaced` itself is not inductive,
  because it does not say where in the array a line is; `Places` needs that
  `(head + i) % Capacity` is injective below the capacity (`WrapInjective`).  The
  refinement maps each step to one of the contract's or to a stutter.
* `RuntimeProofs`, for any set of threads, any number of calls, every configuration
  and whatever fails.  In any order of calls: `TypeCorrect`, `MutualExclusion`,
  `ActivatesOnce`, `ArmedWhileInitialized`, `ChangesLogged`.  When the game keeps
  Steam's order (`Disciplined`): `InitAnswerKept`, `PackagesGated`.  When moreover one
  thread pumps (`OnePumper`): `CaptureObserved`, `CertHooked`, `NoDetourStays`.
  Both hypotheses are conditions on the game that the code itself relies on, and
  neither is for convenience: without the order a shutdown may come between the pump
  and its packages, and with two pumps `CertActiveMeansHooked` is false, as the run
  `two_pumps` shows.  None of the properties is inductive, and each rests on the
  invariants before it:
  - `ListsFit`: at each place, the list of parts still to set up is an end of
    `SetUpOrder`, the list to tear down an end of `TearDownOrder` or of one of the
    roll-backs.  It takes the place of an induction over these lists;
  - `LockFits`: a thread is between acquisition and release exactly if it holds the
    lock.  So whatever is said of the thread under the lock is disturbed by pumps and
    by calls outside only;
  - `OnceFits`: one thread at most is between the exchange of the first-pump flag and
    the activation;
  - `ArmedFits`: while parts are set up, what is in force is off the list of
    `initialize` or on that of its roll-back; while they are torn down, it is still
    listed, and the logger last; when nobody holds the lock, `ArmedOrUnwound`;
  - `CallsFit`, `CalmFits`: which call a thread is in at each place, and that no pump
    runs beside an `initialize` or a `shutdown` of a game in Steam's order.  Only this
    makes the pump's unlocked reads of the gates and the catalog harmless;
  - `CertFits`, `ObserverFits`: how far `update` has come thread by thread
    (`HookedAt`), that an active component has both hooks at known addresses, and
    that the capture's observer is enabled once it is installed.  The second needs
    the first: only with an unknown address does an uninstall disable every hook;
  - `ReadyFits`, `TidyFits`: unless the library has refused a call, the hooks of both
    components are absent between sessions, and during one those that are there are
    where the component or the thread inside it says (`CertClear`, `KeyClear`).
  The first section has one lemma for each operator of `HookTable`: what it may
  answer, and that it leaves the hooks of the others alone.
* `SkuPolicyProofs`: `TypeCorrect`, `ProtectionComesBack`, `GateComesBack`,
  `OpenWhileActive` for the calls alone, and `PolicyHoldsAmongStarts`,
  `GateComesBackAmongStarts`, `ConvertsWithThePolicy` for `SkuStart`. `Owing` says
  at each step of `set_gate` which protection is owed; `Held` and `Holding` say what
  the byte is while the loader knows it. `GateComesBack` assumes an engine that
  writes only 1 (`EngineValues \subseteq {1}`): the code cannot tell an engine's 0
  from its own. For `SkuStart` the same invariants are kept because each of its
  steps is one of the policy's or begins it anew (`PolicyMoves`);
  `ConvertsWithThePolicy` needs `Calling` (which call is in progress where, and that
  the policy is inactive outside a session) and `Agreed` (unless what is read has
  changed, a loader past the policy has it active or would read that it is not
  wanted).
* `SkuFileProofs`: `TypeCorrect`, `TemporaryHasOneOwner`, `BackupsStay`,
  `ReplacesTheOriginal` (for a watchful editor), `OptionsAreKept`.  The auxiliary
  invariants are `OneCopier` (a file that is being read is there, the maker of the
  backup is alone, and nobody is past the backup yet), `Written` (an owner's temporary file is the conversion of
  what it read), `Unedited` and `Kept` (which text is in which file).
  `ConvertedIsBackedUp` rests on `BackedUp`: a loader past the backup whose document
  nobody edited since it read it has that document in the backup.  The attempt to
  prove it without the exception is what found the counterexample of section 6.
* `PatchesProofs`: `TypeCorrect`, `RestoresTheStockCode`, `ForgetsNoPatch`,
  `QuietSessionsLeaveNothing`, `RunsAsRequested`.  `IInv` relates the list a call
  is working through to its place (`ListFits`), the known addresses to the place
  of the runtime (`KnownFits`), the saved bytes to the known addresses
  (`SavedFits`) and the bytes of the sites already visited to the answer so far
  (`DoneFits`).  `QuietSessionsLeaveNothing` follows from a second invariant of
  the sessions without a refusal, `RunsAsRequested` from two more about sessions
  that began clean.  `CallsKeepTheContract` is about `PatchGates`: `TrustFits` and
  `TlsFits` say that a gate counts what is left of its component except while the
  call in progress writes, so that a call that returns (`ReturnsAsGate`) is one step
  of `GateCalls`, and one that does not is a stutter.
* `GameLogProofs`: `TypeCorrect`, `ThresholdsComeBack`, `NoThirdValue`.  `Kept` says
  that a threshold which differs from the engine's is the loader's, in the block
  that is saved, with its original saved; `Lookalikes` says the same of the
  originals that look like the loader's verbosity, for which the code saves
  nothing in `Exchange`; `NotYetHeld` and `Passed` say how far the loops are, and
  `Ended` that only a call of `stop` in progress still owes a threshold.
* `PackagesProofs`, for any directory, any order of its enumeration and any number of
  failing calls.  `FindsTheOnlyMatch` (and `ActivationFindsTheOnlyMatch`, the same inside
  `activate_discovered`): `Compared` says that the match so far is the only one before
  the offset, `MatchesUpToLast` that no match lies behind the last offset.
  `FailuresStayLocal`: `Accounted` says of each mod that a failure touched it or cut the
  walk, that it is still to be visited, or that it is listed with all its packages;
  `AtOneMod` says the same of the packages of the mod at hand, and `ListedOnce` that
  what is listed is not visited again.  That a record of the catalog holds all that was
  found needs two lemmas about sorting in general: a finite set with a strict total
  order can be sorted (`SortExists`: each element goes to the place after as many as
  are below it), and a strictly sorted list as long as its set is large holds all of it
  (`SortedHoldsAll`).  `RegistersWhatItShould`: `InOrder` says that the places passed
  come before all that are left, `AsPassed` which identities were inserted and which
  packages submitted as a function of the places passed, and `PlacesBefore` that the
  order of the places is, for one identity, that of mods and names in the directory.
  The proof assumes of the directory only that names and identities can be compared
  (`ModCatalogAssumption`).
* `SkuToolProofs`: `LeavesOthersAlone`, `HeadersAreRetail`, `AcceptedFits`,
  `SavesWhatWasRead`. `Careful` says that up
  to `create` the disk is as the command found it, and from then on only the output
  differs and may do so; `FilesAreGenuine` that a signed file, and a signed output
  that is about to be written, is a beginning of a vendor's. The lemmas say that
  decoding, encoding and prefixes give files. `AcceptedFits` needs `Checked`: past its
  checks a command still has the text that `validate` has seen; that each option
  occurs once is then a matter of cardinalities (`AtMost`), argued with the last of
  its lines (`LastLine`).  `SavesWhatWasRead` needs that decoding undoes encoding, at
  every length: `PaddedSize` (by way of `Quotient`), `DecryptedAgain` and `StrippedAgain`;
  and that no part of a file that a broken off save leaves decodes to what could not be
  read again (`Safe`).  Its hypothesis `TextsBeginWithTheVersion` speaks of the files
  that are there at first and of those that editors save: section 6 says why.

The theorems named `TypeCorrect`, `MutualExclusion` and `BackupsStay` are proved
without a run of their own.  The invariants were checked by TLC, on the configurations
of the runs, before they were proved.

Model-checked only: the liveness properties `EveryCallReturns`, `ShutdownReturns`,
`AcceptedIsWritten`, `OneLoaderConverts` and `KeepsUp`, which are out of the prover's
reach.  Every other property of a run that passes is the property of a theorem.

## 6. Where the code and its words disagree

Each is the counterexample of a run.

* `key_without_library`: `manifest_trust.cpp:156` creates a hook without
  initialising the library.  With `game_logs=0` and
  `steam_certificate_compat=0` nobody does, and the configured key is not
  installed.
* `two_pumps`: `certificate_compat::update` has no lock.  A second pump inside it
  removes the hooks of the first, which then reports them active.
* `patches_half`: an uninstall that was refused one of its writes keeps all its
  addresses, and addresses are what `install` takes for open gates: the next
  session goes up with gates that are closed again.  `tls_policy.cpp:93` does the
  same for the TLS patches.

Observed while modelling, without a run of their own:

* The first-pump flag is never cleared (`runtime.cpp:194`), but `shutdown` removes the
  manifest key's hook: a second session of the process runs without the key.
* When two loaders start for the first time beside the same `modloader.ini`, the second
  takes the file that the first has just created for ready (`runtime.cpp:35`).  Its
  policy reads `allow_unsigned` with the default of `policy.cpp:87`, 0; `prepare_sku`
  may read the 1 that has been written by then, and converts `sku_config.txt` in a
  process without the policy, which is "required for auto_decrypt"
  (`modloader.ini.example:11`).  `ConvertsAsConfigured` excepts it by `changed`, and with it everything
  that changes between the two reads.
* A process that dies between the creation and the write of `modloader.ini` leaves an
  empty file, which later sessions take for the user's: they run with the defaults of
  the code, without the policy.  And when the write fails, the deletion by name
  (line 40) may remove a file that somebody saved after the handle was closed.
* A package is marked as submitted before its path is found to be too long
  (`package_runtime.cpp:99`), so that a later one of the same identity, which would
  fit, is skipped.  `Chosen` is defined accordingly.
* In `mod_catalog.cpp` an entry whose kind the file system cannot tell is skipped
  without a message.  The two calls of `error.clear()` are not needed, as every call
  sets or clears `error` itself.
* The command `decode` of `sku_config` does not validate: from a file whose text does
  not begin with the version it saves a text that `codec.cpp:154` no longer takes for
  one, so that no command can read it again.  `OutputsAreFaithful` is therefore proved
  for files whose texts begin with the version, which those of the run do.
* A save of `sku_config` that is broken off may leave a part that decodes, to a
  shorter text; `--force` with the input as the output truncates it before writing,
  so that the input may be lost.  A retail file with a block of padding more than
  `encode` makes cannot serve as a template.
* An edit of the configuration between the check of `file.cpp:58` and the
  replacement of line 59 is overwritten with the conversion of the older
  document; `sku_file` therefore has `WatchfulEditor`.
* A verbosity that the engine writes to a threshold itself, while the capture runs
  at it, cannot be told from the loader's: `stop` replaces it with an older value
  (`game_logging.cpp:85`), although line 74 says that only values still owned are
  restored.  `GivenBack` and `OnlyTwoValues` except these categories.
* With two pumping threads, the two addresses that
  `certificate_compat::uninstall` disables may be null, and null disables every
  hook of the process, the observer of `game_logging.cpp` included, which is
  enabled only once per process.  `CaptureIsObserved` is therefore checked with
  one pumping thread.
* `runtime.cpp:61` says "original saved as sku_config.txt.encrypted.bak", and the
  check of `file.cpp:58` is there to see that nobody edited meanwhile.  But
  `CopyFileW` reads the file by itself: an edit after the first read that is undone
  after the copy passes the check, and the backup holds the edited document instead
  of the one that is converted.  TLC finds this with two edits;
  `OriginalIsBackedUp` excepts a file that was edited since it was read (`stale`).
* Two loaders that start together may both fail to convert, although nothing fails and
  nobody edits: while one still reads `sku_config.txt` (`file.cpp:14` or 35), the
  other's `ReplaceFileW` (line 59) is refused; the one then meets the `.decrypting` of
  the other at line 43 and throws before line 63 deletes it.  The message of line 46
  speaks of permissions and leftovers, of which there are none.  The same may happen
  again on later starts.  TLC finds it when `OneLoaderConverts` is stated without its
  second condition; the property excepts it by `refused`, and says that nothing is left
  behind which keeps a later call that runs alone from converting.
* An edit to plaintext between the first read (`file.cpp:28`) and `CopyFileW` (line
  35) puts plaintext into the `.encrypted.bak`, and as backups are never
  overwritten later conversions are refused.
* `ReplaceFileW` without a backup name may fail after the replaced file is gone;
  line 63 then deletes the temporary file, and only the backup is left, although
  `file.h:6` says that a failure does not replace the input.  `OptionsSurvive`
  covers this failure: the options are then in the backup.

Where the models are coarser than the code:

* `Runtime` takes each call of a code patch as one step of `GateCalls`, in which a
  half-restored set of gates counts as in force.  `Patches` tells them apart, and
  `CallsAreGateSteps` shows that its calls are such steps; that a gate in force is
  really open is `UpAsRequested`, with the exception that `patches_half` finds.  The
  SKU policy is the third gate of `Runtime`, without such a relation.
* `SkuStart` takes the conversion as one step, which `SkuFile` has in full.
* Faults of the disk and of memory are nondeterministic but bounded in the runs of
  `SkuFile` and `Patches`; the theorems have no such bound.
* Exceptions for lack of memory, the disassembler of MinHook, the parsing of
  `modloader.ini` and the contents of the packages are not modelled.  Nor are the
  native targets and the game API (`native/native_targets.cpp`,
  `native/native_game_api.cpp`): `CMakeLists.txt` does not list them and nothing calls
  them.
