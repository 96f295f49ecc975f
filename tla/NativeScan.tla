------------------------------ MODULE NativeScan ------------------------------
(***************************************************************************)
(* native/native_scan.cpp: the search for the one place of the game's image *)
(* that matches a pattern.  Offsets are counted from 0, as in the code; the *)
(* empty image stands for a module whose headers main_image does not accept *)
(* and for an image of size 0.  The comparison of one offset is one step.   *)
(***************************************************************************)
EXTENDS Integers, Sequences

CONSTANTS
    Pattern,    \* the bytes looked for, some of them wildcards
    Wildcard,
    Images      \* what main_image may find

ASSUME NativeScanAssumption ==
    /\ Pattern \in Seq({Wildcard} \cup Nat)
    /\ \A im \in Images : im \in Seq(Nat)

VARIABLES
    image,      \* the bytes that are searched
    offset,     \* the offset that is compared next
    match,      \* the match so far, or None; at the end the result
    scanning    \* "idle", "scanning" or "returned"

nativeVars == <<image, offset, match, scanning>>

None == -1

NativeInit ==
    /\ image = << >>
    /\ offset = 0
    /\ match = None
    /\ scanning = "idle"

LastOffsetEarly(im) == Len(im) - Len(Pattern) - 1     \* fault: one less
LastOffset(im) == Len(im) - Len(Pattern)

MatchesAt(im, o) ==
    \A i \in 1 .. Len(Pattern) : Pattern[i] # Wildcard => im[o + i] = Pattern[i]

(* The call, with its early return.                                        *)
ScanUnique(im) ==
    /\ scanning = "idle"
    /\ image' = im
    /\ offset' = 0
    /\ match' = None
    /\ scanning' = IF Pattern = << >> \/ Len(Pattern) > Len(im) THEN "returned"
                   ELSE "scanning"

(* One round of the loop: no match here, the first one, or a second one.    *)
Compare ==
    /\ scanning = "scanning"
    /\ offset <= LastOffset(image)
    /\ \/ /\ ~MatchesAt(image, offset)
          /\ offset' = offset + 1
          /\ UNCHANGED <<match, scanning>>
       \/ /\ MatchesAt(image, offset)
          /\ match = None
          /\ match' = offset
          /\ offset' = offset + 1
          /\ UNCHANGED scanning
       \/ /\ MatchesAt(image, offset)
          /\ match # None
          /\ match' = None
          /\ scanning' = "returned"
          /\ UNCHANGED offset
    /\ UNCHANGED image

Exhausted ==
    /\ scanning = "scanning"
    /\ offset > LastOffset(image)
    /\ scanning' = "returned"
    /\ UNCHANGED <<image, offset, match>>

(* The caller has the result.                                              *)
Answered ==
    /\ scanning = "returned"
    /\ image' = << >>
    /\ offset' = 0
    /\ match' = None
    /\ scanning' = "idle"

Search == Compare \/ Exhausted

NativeNext == (\E im \in Images : ScanUnique(im)) \/ Search \/ Answered

NativeSpec == NativeInit /\ [][NativeNext]_nativeVars

--------------------------------------------------------------------------------
(* The offsets at which the whole pattern lies inside the image and matches. *)
Matches(im) == {o \in 0 .. Len(im) - 1 : o + Len(Pattern) <= Len(im) /\ MatchesAt(im, o)}

(* scan_unique answers the place of the only match, and none where there is *)
(* no match, more than one, or nothing to look for.                         *)
ResolvesTheOnlyMatch ==
    scanning = "returned" =>
        IF Pattern = << >> THEN match = None
        ELSE /\ match # None => Matches(image) = {match}
             /\ match = None => \A o \in Matches(image) : Matches(image) # {o}
================================================================================
