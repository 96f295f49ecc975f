-------------------------------- MODULE GameLog --------------------------------
(***************************************************************************)
(* native/game_logging.cpp: the loader lowers the thresholds in the         *)
(* engine's log block to its own verbosity and gives them back when it      *)
(* stops.  The thresholds belong to the engine, which may write one between *)
(* any two accesses of the loader, free the block or make a new one.  Each  *)
(* access to a threshold is one step; g_lock lets one call run at a time,   *)
(* whichever threads start, pump and stop.  Of the hook only its success is *)
(* left here; Runtime has the rest.                                         *)
(***************************************************************************)
EXTENDS Naturals

CONSTANTS
    Blocks,         \* the addresses a log block may have
    None,           \* a null pointer
    Count,          \* kCategoryCount
    Verbosities,    \* what game_verbosity may be
    EngineLevels,   \* the thresholds that the engine writes
    MaxSessions,    \* bound: calls of start
    MaxWrites       \* bound: writes of the engine

Category == 1 .. Count
Levels == Verbosities \cup EngineLevels

ASSUME GameLogAssumption ==
    /\ None \notin Blocks
    /\ Count \in Nat \ {0}
    /\ Verbosities \subseteq 0 .. 5 /\ 0 \in Verbosities
    /\ EngineLevels \subseteq Nat
    /\ MaxSessions \in Nat /\ MaxWrites \in Nat

VARIABLES
    slot,           \* *g_blockSlot: the block that the engine uses
    level,          \* its thresholds
    capture,        \* g_capture
    verbosity,      \* g_verbosity
    savedBlock,     \* g_savedBlock
    saved,          \* g_savedThresholds
    pc,             \* where the call in progress is in thresholds
    block,          \* its local block
    i,              \* its loop counter
    own,            \* history: the thresholds that the engine means to have
    alike,          \* history: those it wrote itself that may pass for the loader's
    sessions, writes    \* what is left of the bounds

theirs == <<slot, own, alike, writes>>      \* what only the engine changes
engineVars == <<level, theirs>>
globals == <<capture, verbosity, savedBlock, saved>>
locals == <<pc, block, i>>
vars == <<engineVars, globals, locals, sessions>>

Init ==
    /\ slot \in Blocks \cup {None}
    /\ level \in [Category -> Levels] /\ own = level /\ alike = {}
    /\ capture = FALSE /\ verbosity = 0
    /\ savedBlock = None /\ saved = [c \in Category |-> 0]
    /\ pc = "idle" /\ block = None /\ i = 1
    /\ sessions = MaxSessions /\ writes = MaxWrites

--------------------------------------------------------------------------------
(* start, update and stop.                                                 *)

(* The configuration is read in every session; without the hook the call   *)
(* ends after that.                                                        *)
Start ==
    /\ pc = "idle" /\ ~capture /\ sessions > 0
    /\ sessions' = sessions - 1
    /\ verbosity' \in Verbosities
    /\ \/ capture' = TRUE /\ pc' = "apply"
       \/ UNCHANGED <<capture, pc>>
    /\ UNCHANGED <<engineVars, savedBlock, saved, block, i>>

(* Each pump calls update, which acts every two seconds.                   *)
Update ==
    /\ pc = "idle" /\ capture
    /\ pc' = "apply"
    /\ UNCHANGED <<engineVars, globals, block, i, sessions>>

Stop ==
    /\ pc = "idle" /\ capture
    /\ capture' = FALSE
    /\ pc' = "restore"
    /\ UNCHANGED <<engineVars, verbosity, savedBlock, saved, block, i, sessions>>

--------------------------------------------------------------------------------
(* thresholds.                                                             *)

Loop(label) == pc' = label /\ i' = 1

LookOnce ==     \* fault: a block that is saved is not written again
    /\ pc \in {"apply", "restore"}
    /\ block' = slot
    /\ \/ /\ slot = None \/ (pc = "apply" /\ slot = savedBlock)
          /\ pc' = "idle" /\ UNCHANGED <<i, savedBlock>>
       \/ /\ slot \notin {None, savedBlock} /\ pc = "apply"
          /\ Loop("save") /\ UNCHANGED savedBlock
       \/ /\ slot # None /\ pc = "restore"
          /\ IF slot = savedBlock THEN Loop("give back") /\ UNCHANGED savedBlock
             ELSE pc' = "idle" /\ savedBlock' = None /\ UNCHANGED i
    /\ UNCHANGED <<engineVars, capture, verbosity, saved, sessions>>

Look ==
    /\ pc \in {"apply", "restore"}
    /\ block' = slot
    /\ \/ /\ slot = None
          /\ pc' = "idle" /\ UNCHANGED <<i, savedBlock>>
       \/ /\ slot # None /\ pc = "apply"
          /\ Loop(IF slot = savedBlock THEN "exchange" ELSE "save")
          /\ UNCHANGED savedBlock
       \/ /\ slot # None /\ pc = "restore"
          /\ IF slot = savedBlock THEN Loop("give back") /\ UNCHANGED savedBlock
             ELSE pc' = "idle" /\ savedBlock' = None /\ UNCHANGED i
    /\ UNCHANGED <<engineVars, capture, verbosity, saved, sessions>>

(* What an access finds: the threshold, or anything once the engine has    *)
(* freed the block.                                                        *)
Found == IF block = slot THEN {level[i]} ELSE Levels

(* What an access leaves: nothing that matters in a block that was freed.  *)
Put(new) == level' = IF block = slot THEN [level EXCEPT ![i] = new] ELSE level

(* The access violation that a freed block may cause.                      *)
Except ==
    /\ pc \in {"save", "exchange", "give back"}
    /\ block # slot
    /\ savedBlock' = None
    /\ pc' = "idle"
    /\ UNCHANGED <<engineVars, capture, verbosity, saved, block, i, sessions>>

Save ==
    /\ pc = "save"
    /\ \E found \in Found : saved' = [saved EXCEPT ![i] = found]
    /\ IF i < Count THEN i' = i + 1 /\ UNCHANGED <<pc, savedBlock>>
       ELSE Loop("exchange") /\ savedBlock' = block
    /\ UNCHANGED <<engineVars, capture, verbosity, block, sessions>>

Advance ==
    IF i < Count THEN i' = i + 1 /\ UNCHANGED pc
    ELSE pc' = "idle" /\ UNCHANGED i

(* InterlockedExchange; what the engine has written since is kept.         *)
ExchangeBlindly ==      \* fault: a value of the engine is not kept
    /\ pc = "exchange"
    /\ Put(verbosity)
    /\ Advance
    /\ UNCHANGED <<theirs, globals, block, sessions>>

Exchange ==
    /\ pc = "exchange"
    /\ \E previous \in Found :
        saved' = IF previous = verbosity THEN saved
                 ELSE [saved EXCEPT ![i] = previous]
    /\ Put(verbosity)
    /\ Advance
    /\ UNCHANGED <<theirs, capture, verbosity, savedBlock, block, sessions>>

(* InterlockedCompareExchange; then the block is forgotten.                *)
GiveBackAlways ==       \* fault: a plain exchange
    /\ pc = "give back"
    /\ Put(saved[i])
    /\ Advance
    /\ savedBlock' = IF i = Count THEN None ELSE savedBlock
    /\ UNCHANGED <<theirs, capture, verbosity, saved, block, sessions>>

GiveBack ==
    /\ pc = "give back"
    /\ IF level[i] = verbosity THEN Put(saved[i]) ELSE UNCHANGED level
    /\ Advance
    /\ savedBlock' = IF i = Count THEN None ELSE savedBlock
    /\ UNCHANGED <<theirs, capture, verbosity, saved, block, sessions>>

Thresholds == Look \/ Except \/ Save \/ Exchange \/ GiveBack

--------------------------------------------------------------------------------
(* The engine.                                                             *)

(* "A late config load may rewrite them."                                  *)
Configure ==
    /\ writes > 0 /\ writes' = writes - 1
    /\ slot # None
    /\ \E c \in Category, new \in EngineLevels :
        /\ level' = [level EXCEPT ![c] = new]
        /\ own' = [own EXCEPT ![c] = new]
        /\ alike' = IF new \in Verbosities THEN alike \cup {c} ELSE alike \ {c}
    /\ UNCHANGED <<slot, globals, locals, sessions>>

(* The block is freed, or another one takes its place, perhaps at the same *)
(* address.                                                                *)
Reallocate ==
    /\ writes > 0 /\ writes' = writes - 1
    /\ slot' \in Blocks \cup {None}
    /\ level' \in [Category -> EngineLevels] /\ own' = level'
    /\ alike' = {c \in Category : level'[c] \in Verbosities}
    /\ UNCHANGED <<globals, locals, sessions>>

Next ==
    \/ Start
    \/ Update
    \/ Stop
    \/ Thresholds
    \/ Configure
    \/ Reallocate

Spec == Init /\ [][Next]_vars

(* The game keeps pumping callbacks, and a call that has begun goes on.    *)
Fairness == WF_vars(Update \/ Thresholds)

FairSpec == Spec /\ Fairness

--------------------------------------------------------------------------------
(* Properties.                                                             *)

TypeOK ==
    /\ slot \in Blocks \cup {None} /\ block \in Blocks \cup {None}
    /\ savedBlock \in Blocks \cup {None}
    /\ level \in [Category -> Levels] /\ own \in [Category -> Levels]
    /\ saved \in [Category -> Levels] /\ alike \subseteq Category
    /\ verbosity \in Verbosities
    /\ capture \in BOOLEAN
    /\ pc \in {"idle", "apply", "restore", "save", "exchange", "give back"}
    /\ pc \in {"save", "exchange", "give back"} => block # None
    /\ pc \in {"exchange", "give back"} => savedBlock = block
    /\ pc \in {"restore", "give back"} => ~capture
    /\ pc \in {"apply", "save", "exchange"} => capture
    /\ i \in Category
    /\ sessions \in 0 .. MaxSessions /\ writes \in 0 .. MaxWrites

(* "Save existing values and restore only values we still own": once the   *)
(* capture has stopped, every threshold is what the engine means it to be, *)
(* whatever the engine wrote, freed or made anew in the meantime; but a    *)
(* verbosity that the engine itself writes cannot be told from the         *)
(* loader's.                                                               *)
GivenBack ==
    ~capture /\ pc = "idle" => \A c \in Category \ alike : level[c] = own[c]

(* In between, a threshold is the engine's or the loader's: no third value *)
(* can hide a message that both would show.                                *)
OnlyTwoValues == \A c \in Category \ alike : level[c] \in {own[c], verbosity}

(* As long as the capture runs it gets its verbosity back after every late *)
(* load of a configuration and in every new block.                         *)
KeepsUp == <>[](capture /\ slot # None => \A c \in Category : level[c] = verbosity)
================================================================================
