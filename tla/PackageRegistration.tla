-------------------------- MODULE PackageRegistration --------------------------
(***************************************************************************)
(* mods/package_runtime.cpp: activate_discovered, which the first callback  *)
(* pump of the process runs over the catalog of the last scan.  It finds    *)
(* the engine's registration function by scan_unique and submits each       *)
(* package, at most one for each pair of packageId and patchId.  That       *)
(* nobody scans in the meantime is what Runtime is about.                   *)
(***************************************************************************)
EXTENDS ModCatalog, NativeScan

VARIABLES
    activation,     \* "never", "resolving", "submitting" or "over"
    todo,           \* the places of the catalog that the walk has still to visit
    submitted,      \* the identities it has inserted
    registered      \* what the engine was given: pairs of a mod and a package

registrationVars == <<activation, todo, submitted, registered>>
vars == <<catalogVars, nativeVars, registrationVars>>

Init ==
    /\ CatalogInit
    /\ NativeInit
    /\ activation = "never"
    /\ todo = {}
    /\ submitted = {}
    /\ registered = << >>

(* The two nested loops go through the places of the catalog in this order. *)
Places == UNION {{i} \X DOMAIN catalog[i].packages : i \in DOMAIN catalog}
Precede(x, y) == x[1] < y[1] \/ (x[1] = y[1] /\ x[2] < y[2])
PackageAt(x) == <<catalog[x[1]].id, catalog[x[1]].packages[x[2]]>>

--------------------------------------------------------------------------------
(* register_discovered=0 ends the call; otherwise the function is looked    *)
(* for in the image, and without it nothing is submitted.                  *)
ActivateDiscovered(im) ==
    /\ activation = "never"
    /\ walk = "idle"
    /\ \/ /\ activation' = "over"
          /\ UNCHANGED nativeVars
       \/ /\ activation' = "resolving"
          /\ ScanUnique(im)
    /\ UNCHANGED <<catalogVars, todo, submitted, registered>>

Resolve ==
    /\ activation = "resolving"
    /\ Search
    /\ UNCHANGED <<catalogVars, registrationVars>>

Resolved ==
    /\ activation = "resolving"
    /\ IF match = None THEN activation' = "over" /\ UNCHANGED todo
       ELSE activation' = "submitting" /\ todo' = Places
    /\ Answered
    /\ UNCHANGED <<catalogVars, submitted, registered>>

(* One package: the identity is inserted first, and a duplicate skipped;    *)
(* then the path is converted, and one that does not fit skipped.          *)
Submit ==
    /\ activation = "submitting"
    /\ \E x \in todo :
           LET p == PackageAt(x)[2]
           IN  /\ \A y \in todo : ~Precede(y, x)
               /\ todo' = todo \ {x}
               /\ submitted' = submitted \cup {p.id}
               /\ \/ /\ p.id \in submitted \/ ~p.fits
                     /\ UNCHANGED registered
                  \/ /\ p.id \notin submitted
                     /\ p.fits
                     /\ registered' = Append(registered, PackageAt(x))
    /\ UNCHANGED <<catalogVars, nativeVars, activation>>

Submitted ==
    /\ activation = "submitting"
    /\ todo = {}
    /\ activation' = "over"
    /\ UNCHANGED <<catalogVars, nativeVars, todo, submitted, registered>>

(* The scans of the sessions that begin before the first pump.  The catalog *)
(* of a later one is never read.                                           *)
Rescan ==
    /\ activation = "never"
    /\ ScanMods
    /\ UNCHANGED <<nativeVars, registrationVars>>

Next ==
    \/ Rescan
    \/ \E im \in Images : ActivateDiscovered(im)
    \/ Resolve
    \/ Resolved
    \/ Submit
    \/ Submitted

Spec == Init /\ [][Next]_vars

--------------------------------------------------------------------------------
(* Of a directory in which every package can be found, the ones to submit:  *)
(* of each identity the first by mod and name, if its path fits.           *)
InTree ==
    UNION {{<<m, p>> : p \in Readable(m)} :
              m \in {k \in DOMAIN tree : tree[k] # NotADirectory}}

Before(x, y) == x[1] < y[1] \/ (x[1] = y[1] /\ x[2].name < y[2].name)

Chosen ==
    {x \in InTree : x[2].fits /\ \A y \in InTree : y[2].id = x[2].id => ~Before(y, x)}

(* What the engine is given by the activation depends on the directory and  *)
(* not on the order in which the file system enumerates it: of each         *)
(* identity the first package, by mod and then by name, and none when that  *)
(* one does not fit; each once, mod by mod.  A failing call of the file     *)
(* system may hide packages, but never lets an identity in twice.          *)
RegistersTheChosen ==
    activation = "submitting" /\ todo = {} =>
        /\ \A i, j \in DOMAIN registered :
               registered[i][2].id = registered[j][2].id => i = j
        /\ hurt = {} /\ ~cut =>
               /\ ToSet(registered) = Chosen
               /\ \A i, j \in DOMAIN registered :
                      i < j => registered[i][1] <= registered[j][1]
================================================================================
