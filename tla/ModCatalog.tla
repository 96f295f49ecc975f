------------------------------ MODULE ModCatalog ------------------------------
(***************************************************************************)
(* mods/mod_catalog.cpp: scan, which rebuilds the list of mods and of their *)
(* packages from the mod directory.  A directory is enumerated in any order *)
(* and any call of the file system may fail.  Each such call sets error and *)
(* clears it when it succeeds, so each test of error speaks of the call     *)
(* just before it; a failure is therefore a disjunct of that call's step.   *)
(* The scripts of a mod are only counted in the log: their walk changes     *)
(* nothing here, whether it fails or not.                                   *)
(***************************************************************************)
EXTENDS Naturals, FiniteSets, SequencesExt

CONSTANTS
    Trees,          \* what the mod directory may hold: for each entry either
                    \* NotADirectory or what is found under each name in its
                    \* directory of packages: NoPackage or [id, readable, fits]
    NotADirectory,
    NoPackage,      \* no regular file of that name with the extension .pkg
    MaxScans,       \* bound: calls of scan
    MaxErrors       \* bound: calls of the file system that fail

(* Names and identities are numbers in the order in which the code compares *)
(* them.                                                                   *)
ASSUME ModCatalogAssumption ==
    /\ MaxScans \in Nat /\ MaxErrors \in Nat
    /\ \A t \in Trees :
           /\ DOMAIN t \subseteq Nat
           /\ \A m \in DOMAIN t : t[m] # NotADirectory =>
                  /\ DOMAIN t[m] \subseteq Nat
                  /\ \A n \in DOMAIN t[m] : t[m][n] # NoPackage => t[m][n].id \in Nat

VARIABLES
    catalog,    \* g_catalog: records of a mod and its sequence of packages
    tree,       \* the directory as it is during the scan
    walk,       \* "idle", "mods" (the outer loop) or "packages" (the inner one)
    entries,    \* the entries that the outer loop has still to visit
    mod,        \* the entry it is at
    names,      \* the names that the inner loop has still to visit
    found,      \* the packages of the mod so far
    scans, errors,  \* what is left of the bounds
    hurt,       \* history: the entries that a failing call belonged to
    cut         \* history: whether the outer walk could not be finished

contents == <<catalog, tree, hurt, cut>>
cursor == <<walk, entries, mod, names, found>>
catalogVars == <<contents, cursor, scans, errors>>

NoMod == 0

CatalogInit ==
    /\ catalog = << >>
    /\ tree = << >>
    /\ walk = "idle"
    /\ entries = {}
    /\ mod = NoMod
    /\ names = {}
    /\ found = {}
    /\ scans = MaxScans
    /\ errors = MaxErrors
    /\ hurt = {}
    /\ cut = FALSE

FileSystemFails == errors > 0 /\ errors' = errors - 1

(* A package as the catalog has it: its name stands for its path, its id    *)
(* for the pair of packageId and patchId.                                  *)
Package(m, n) == [name |-> n, id |-> tree[m][n].id, fits |-> tree[m][n].fits]

(* The two sorts: packages by identity and path, mods by id.  No two are    *)
(* equal.                                                                  *)
Precedes(p, q) == p.id < q.id \/ (p.id = q.id /\ p.name < q.name)

SortedPackages ==
    CHOOSE list \in [1 .. Cardinality(found) -> found] :
        \A i, j \in DOMAIN list : i < j => Precedes(list[i], list[j])

SortedMods ==
    CHOOSE list \in [DOMAIN catalog -> ToSet(catalog)] :
        \A i, j \in DOMAIN list : i < j => list[i].id < list[j].id

--------------------------------------------------------------------------------
(* The catalog is cleared, the root opened or created.  Without the root    *)
(* the catalog stays empty.                                                *)
Scan(t) ==
    /\ walk = "idle"
    /\ scans > 0
    /\ scans' = scans - 1
    /\ catalog' = << >>
    /\ tree' = t
    /\ hurt' = {}
    /\ \/ /\ walk' = "mods"
          /\ entries' = DOMAIN t
          /\ cut' = FALSE
          /\ UNCHANGED errors
       \/ /\ FileSystemFails
          /\ cut' = TRUE
          /\ UNCHANGED <<walk, entries>>
    /\ UNCHANGED <<mod, names, found>>

(* The outer loop comes to an entry: a directory is a mod; anything else is *)
(* passed over, and so is an entry whose kind the file system cannot tell.  *)
NextEntryOrStop(m) ==   \* fault: an entry that cannot be told ends the walk
    /\ walk = "mods"
    /\ m \in entries
    /\ \/ /\ tree[m] # NotADirectory
          /\ walk' = "packages"
          /\ mod' = m
          /\ names' = DOMAIN tree[m]
          /\ entries' = entries \ {m}
          /\ UNCHANGED <<errors, hurt>>
       \/ /\ tree[m] = NotADirectory
          /\ entries' = entries \ {m}
          /\ UNCHANGED <<walk, mod, names, errors, hurt>>
       \/ /\ FileSystemFails
          /\ hurt' = hurt \cup {m}
          /\ entries' = {}
          /\ UNCHANGED <<walk, mod, names>>
    /\ UNCHANGED <<catalog, tree, found, scans, cut>>

NextEntry(m) ==
    /\ walk = "mods"
    /\ m \in entries
    /\ entries' = entries \ {m}
    /\ \/ /\ tree[m] # NotADirectory
          /\ walk' = "packages"
          /\ mod' = m
          /\ names' = DOMAIN tree[m]
          /\ UNCHANGED <<errors, hurt>>
       \/ /\ tree[m] = NotADirectory
          /\ UNCHANGED <<walk, mod, names, errors, hurt>>
       \/ /\ FileSystemFails
          /\ hurt' = hurt \cup {m}
          /\ UNCHANGED <<walk, mod, names>>
    /\ UNCHANGED <<catalog, tree, found, scans, cut>>

(* The outer iterator cannot be made or cannot go on: the rest is lost.    *)
LoseEntries ==
    /\ walk = "mods"
    /\ FileSystemFails
    /\ entries' = {}
    /\ cut' = TRUE
    /\ UNCHANGED <<catalog, tree, walk, mod, names, found, scans, hurt>>

(* The inner loop comes to a name: a package whose header can be read is    *)
(* kept.  The kind of a file may not be told either.                       *)
NextPackage(n) ==
    /\ walk = "packages"
    /\ n \in names
    /\ names' = names \ {n}
    /\ \/ /\ tree[mod][n] # NoPackage
          /\ tree[mod][n].readable
          /\ found' = found \cup {Package(mod, n)}
          /\ UNCHANGED <<errors, hurt>>
       \/ /\ tree[mod][n] # NoPackage => ~tree[mod][n].readable
          /\ UNCHANGED <<found, errors, hurt>>
       \/ /\ FileSystemFails
          /\ hurt' = hurt \cup {mod}
          /\ UNCHANGED found
    /\ UNCHANGED <<catalog, tree, walk, entries, mod, scans, cut>>

(* There is no telling whether the mod has packages, or the inner iterator  *)
(* fails: what is left of this mod is lost.                                *)
LosePackages ==
    /\ walk = "packages"
    /\ FileSystemFails
    /\ names' = {}
    /\ hurt' = hurt \cup {mod}
    /\ UNCHANGED <<catalog, tree, walk, entries, mod, found, scans, cut>>

(* The mod is complete: its packages are sorted and it joins the catalog.  *)
EndOfMod ==
    /\ walk = "packages"
    /\ names = {}
    /\ catalog' = Append(catalog, [id |-> mod, packages |-> SortedPackages])
    /\ walk' = "mods"
    /\ mod' = NoMod
    /\ found' = {}
    /\ UNCHANGED <<tree, entries, names, scans, errors, hurt, cut>>

EndOfScanUnsorted ==    \* fault: mods stay in the order of the directory
    /\ walk = "mods"
    /\ entries = {}
    /\ walk' = "idle"
    /\ UNCHANGED <<catalog, tree, entries, mod, names, found, scans, errors, hurt, cut>>

EndOfScan ==
    /\ walk = "mods"
    /\ entries = {}
    /\ catalog' = SortedMods
    /\ walk' = "idle"
    /\ UNCHANGED <<tree, entries, mod, names, found, scans, errors, hurt, cut>>

ScanMods ==
    \/ \E t \in Trees : Scan(t)
    \/ \E m \in entries : NextEntry(m)
    \/ LoseEntries
    \/ \E n \in names : NextPackage(n)
    \/ LosePackages
    \/ EndOfMod
    \/ EndOfScan

--------------------------------------------------------------------------------
(* The packages of the directory of a mod that a scan should find.         *)
Readable(m) ==
    {Package(m, n) : n \in {k \in DOMAIN tree[m] :
                               tree[m][k] # NoPackage /\ tree[m][k].readable}}

(* A failing call of the file system hides what it was about and nothing    *)
(* else: when a scan is over, every mod that no failure touched is in the   *)
(* catalog with all its readable packages (unless the outer walk itself     *)
(* could not go on), and nothing is in it that the directory does not hold. *)
ErrorsStayLocal ==
    walk = "idle" =>
        LET Listed(m) == {i \in DOMAIN catalog : catalog[i].id = m}
            Directories == {m \in DOMAIN tree : tree[m] # NotADirectory}
        IN  /\ \A i \in DOMAIN catalog :
                   /\ catalog[i].id \in Directories
                   /\ Listed(catalog[i].id) = {i}
                   /\ ToSet(catalog[i].packages) \subseteq Readable(catalog[i].id)
            /\ \A m \in Directories \ hurt :
                   cut \/ \E i \in Listed(m) : ToSet(catalog[i].packages) = Readable(m)
================================================================================
