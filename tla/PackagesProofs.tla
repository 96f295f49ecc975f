---------------------------- MODULE PackagesProofs ----------------------------
(***************************************************************************)
(* Proofs about the way from the mod directory to the engine, for every    *)
(* directory, every order of its enumeration and any number of failing     *)
(* calls: scan_unique finds the only match, a scan loses only what a       *)
(* failure was about, and the activation gives the engine the packages that *)
(* the directory determines.  The walks are inductions over the entries    *)
(* left to visit; what the two sorts give is proved of lists in general.   *)
(***************************************************************************)
EXTENDS PackageRegistration, FiniteSetTheorems, FunctionTheorems, SequenceTheorems, TLAPS

(***************************************************************************)
(* Native scanning                                                         *)
(***************************************************************************)

NativeTypeOK ==
    /\ image \in Seq(Nat)
    /\ offset \in Nat
    /\ match \in Nat \cup {None}
    /\ scanning \in {"idle", "scanning", "returned"}

(* The early return was not taken.                                         *)
Fits == Pattern # << >> /\ Len(Pattern) <= Len(image)

(* What the loop knows: the offsets it has passed hold no match but match. *)
Compared ==
    scanning = "scanning" =>
        /\ Fits
        /\ offset <= LastOffset(image) + 1
        /\ match # None =>
               match < offset /\ match <= LastOffset(image) /\ MatchesAt(image, match)
        /\ \A o \in Nat : o < offset /\ MatchesAt(image, o) => o = match

NativeIInv == NativeTypeOK /\ Compared /\ ResolvesTheOnlyMatch

--------------------------------------------------------------------------------
(* Lengths are natural numbers, and only the empty pattern has length 0.   *)
LEMMA Lengths ==
    /\ Len(Pattern) \in Nat
    /\ Pattern # << >> => Len(Pattern) > 0
    /\ \A im \in Seq(Nat) : Len(im) \in Nat
BY NativeScanAssumption

(* An offset matches the image when it is at most the last one and the     *)
(* bytes agree there.                                                      *)
LEMMA MatchesUpToLast ==
    ASSUME NEW im \in Seq(Nat), Pattern # << >>
    PROVE  Matches(im) = {o \in Nat : o <= LastOffset(im) /\ MatchesAt(im, o)}
<1>1. Len(Pattern) \in Nat /\ Len(Pattern) > 0 /\ Len(im) \in Nat
    BY Lengths
<1>2. \A o \in Nat : (o \in 0 .. Len(im) - 1 /\ o + Len(Pattern) <= Len(im))
                     <=> o <= LastOffset(im)
    BY <1>1 DEF LastOffset
<1> QED
    BY <1>1, <1>2 DEF Matches

(* A pattern longer than the image matches nowhere.                        *)
LEMMA NoMatchInShort ==
    ASSUME NEW im \in Seq(Nat), Len(Pattern) > Len(im)
    PROVE  Matches(im) = {}
<1>1. Len(Pattern) \in Nat /\ Len(im) \in Nat
    BY Lengths
<1>2. \A o \in 0 .. Len(im) - 1 : ~(o + Len(Pattern) <= Len(im))
    BY <1>1
<1> QED
    BY <1>2 DEF Matches

(* The invariant holds at the start.                                       *)
LEMMA NativeInitHolds == NativeInit => NativeIInv
BY DEF NativeInit, NativeIInv, NativeTypeOK, Compared, ResolvesTheOnlyMatch, None

(* A call either returns at once or starts with nothing passed.            *)
LEMMA ScanUniqueKeeps ==
    ASSUME NativeIInv, NEW im \in Images, ScanUnique(im)
    PROVE  NativeIInv'
<1>1. im \in Seq(Nat) /\ image' = im /\ offset' = 0 /\ match' = None
    BY NativeScanAssumption DEF ScanUnique
<1>2. Len(Pattern) \in Nat /\ Len(im) \in Nat
    BY <1>1, Lengths
<1>3. NativeTypeOK'
    BY <1>1 DEF ScanUnique, NativeTypeOK
<1>4. CASE Pattern = << >> \/ Len(Pattern) > Len(im)
    <2>1. scanning' = "returned"
        BY <1>4 DEF ScanUnique
    <2>2. ResolvesTheOnlyMatch'
        <3>1. CASE Pattern = << >>
            BY <3>1, <1>1 DEF ResolvesTheOnlyMatch
        <3>2. CASE Pattern # << >>
            BY <3>2, <1>1, <1>4, NoMatchInShort DEF ResolvesTheOnlyMatch, None
        <3> QED
            BY <3>1, <3>2
    <2> QED
        BY <2>1, <2>2, <1>3 DEF NativeIInv, Compared
<1>5. CASE ~(Pattern = << >> \/ Len(Pattern) > Len(im))
    <2>1. scanning' = "scanning"
        BY <1>5 DEF ScanUnique
    <2>2. Compared'
        BY <1>1, <1>2, <1>5 DEF Compared, Fits, LastOffset, None
    <2> QED
        BY <2>1, <2>2, <1>3 DEF NativeIInv, ResolvesTheOnlyMatch
<1> QED
    BY <1>4, <1>5

(* One round of the loop passes one offset, or returns at a second match.  *)
LEMMA CompareKeeps ==
    ASSUME NativeIInv, Compare
    PROVE  NativeIInv'
<1>1. /\ image \in Seq(Nat) /\ offset \in Nat /\ match \in Nat \cup {None}
      /\ scanning = "scanning" /\ image' = image
    BY DEF NativeIInv, NativeTypeOK, Compare
<1>2. /\ Fits /\ offset <= LastOffset(image)
      /\ match # None =>
             match < offset /\ match <= LastOffset(image) /\ MatchesAt(image, match)
      /\ \A o \in Nat : o < offset /\ MatchesAt(image, o) => o = match
    BY <1>1 DEF NativeIInv, Compared, Compare
<1>3. Len(Pattern) \in Nat /\ Len(image) \in Nat /\ LastOffset(image) \in Int
    BY <1>1, Lengths DEF LastOffset
<1>4. CASE ~MatchesAt(image, offset)
    <2>1. offset' = offset + 1 /\ match' = match /\ scanning' = scanning
        BY <1>4 DEF Compare
    <2>2. \A o \in Nat : o < offset' /\ MatchesAt(image, o) => o = match'
        BY <2>1, <1>1, <1>2, <1>4
    <2>3. Compared'
        BY <2>1, <2>2, <1>1, <1>2, <1>3 DEF Compared, Fits, LastOffset, MatchesAt, None
    <2> QED
        BY <2>1, <2>3, <1>1 DEF NativeIInv, NativeTypeOK, ResolvesTheOnlyMatch
<1>5. CASE MatchesAt(image, offset) /\ match = None
    <2>1. offset' = offset + 1 /\ match' = offset /\ scanning' = scanning
        BY <1>5 DEF Compare
    <2>2. \A o \in Nat : o < offset' /\ MatchesAt(image, o) => o = match'
        BY <2>1, <1>1, <1>2, <1>5 DEF None
    <2>3. Compared'
        BY <2>1, <2>2, <1>1, <1>2, <1>3, <1>5 DEF Compared, Fits, LastOffset, MatchesAt, None
    <2> QED
        BY <2>1, <2>3, <1>1 DEF NativeIInv, NativeTypeOK, ResolvesTheOnlyMatch
<1>6. CASE MatchesAt(image, offset) /\ match # None
    <2>1. match' = None /\ scanning' = "returned" /\ offset' = offset
        BY <1>6 DEF Compare
    <2>2. {match, offset} \subseteq Matches(image) /\ match # offset
        BY <1>1, <1>2, <1>3, <1>6, MatchesUpToLast DEF Fits, None
    <2>3. \A o \in Matches(image) : Matches(image) # {o}
        BY <2>2
    <2>4. ResolvesTheOnlyMatch'
        BY <2>1, <2>3, <1>1, <1>2 DEF ResolvesTheOnlyMatch, Fits, Matches, MatchesAt
    <2> QED
        BY <2>1, <2>4, <1>1 DEF NativeIInv, NativeTypeOK, Compared
<1> QED
    BY <1>4, <1>5, <1>6 DEF Compare

(* Past the last offset, what was found is all there is.                   *)
LEMMA ExhaustedKeeps ==
    ASSUME NativeIInv, Exhausted
    PROVE  NativeIInv'
<1>1. /\ image \in Seq(Nat) /\ offset \in Nat /\ match \in Nat \cup {None}
      /\ scanning' = "returned" /\ UNCHANGED <<image, offset, match>>
    BY DEF NativeIInv, NativeTypeOK, Exhausted
<1>2. /\ Fits /\ offset > LastOffset(image)
      /\ match # None => match <= LastOffset(image) /\ MatchesAt(image, match)
      /\ \A o \in Nat : o < offset /\ MatchesAt(image, o) => o = match
    BY DEF NativeIInv, Compared, Exhausted
<1>3. Len(Pattern) \in Nat /\ Len(image) \in Nat /\ LastOffset(image) \in Int
    BY <1>1, Lengths DEF LastOffset
<1>4. Matches(image) = {o \in Nat : o <= LastOffset(image) /\ MatchesAt(image, o)}
    BY <1>1, <1>2, MatchesUpToLast DEF Fits
<1>5. \A o \in Matches(image) : o = match
    BY <1>1, <1>2, <1>3, <1>4
<1>6. match # None => Matches(image) = {match}
    BY <1>1, <1>2, <1>4, <1>5
<1>7. match = None => Matches(image) = {}
    BY <1>4, <1>5 DEF None
<1>8. ResolvesTheOnlyMatch'
    BY <1>1, <1>2, <1>6, <1>7 DEF ResolvesTheOnlyMatch, Fits, Matches, MatchesAt
<1> QED
    BY <1>1, <1>8 DEF NativeIInv, NativeTypeOK, Compared

(* Each step of the search keeps the invariant.                            *)
LEMMA NativeStepKeeps ==
    ASSUME NativeIInv, [NativeNext]_nativeVars
    PROVE  NativeIInv'
<1>1. CASE \E im \in Images : ScanUnique(im)
    BY <1>1, ScanUniqueKeeps
<1>2. CASE Compare
    BY <1>2, CompareKeeps
<1>3. CASE Exhausted
    BY <1>3, ExhaustedKeeps
<1>4. CASE Answered
    BY <1>4 DEF Answered, NativeIInv, NativeTypeOK, Compared, ResolvesTheOnlyMatch, None
<1>5. CASE UNCHANGED nativeVars
    BY <1>5 DEF nativeVars, NativeIInv, NativeTypeOK, Compared, Fits, ResolvesTheOnlyMatch,
                Matches, MatchesAt, LastOffset
<1> QED
    BY <1>1, <1>2, <1>3, <1>4, <1>5 DEF NativeNext, Search

(* Whatever is searched for, in whatever image: scan_unique answers the    *)
(* offset of the only match, and none where there is no match or more than *)
(* one.                                                                    *)
THEOREM FindsTheOnlyMatch == NativeSpec => []ResolvesTheOnlyMatch
<1>1. NativeInit => NativeIInv
    BY NativeInitHolds
<1>2. NativeIInv /\ [NativeNext]_nativeVars => NativeIInv'
    BY NativeStepKeeps
<1>3. NativeIInv => ResolvesTheOnlyMatch
    BY DEF NativeIInv
<1> QED
    BY <1>1, <1>2, <1>3, PTL DEF NativeSpec

(***************************************************************************)
(* Sorting                                                                 *)
(***************************************************************************)
(* A relation that orders a set strictly and totally.                      *)
Orders(R, S) ==
    /\ \A x \in S : <<x, x>> \notin R
    /\ \A x, y \in S : x = y \/ <<x, y>> \in R \/ <<y, x>> \in R
    /\ \A x, y, z \in S : <<x, y>> \in R /\ <<y, z>> \in R => <<x, z>> \in R

SortedBy(R, list) == \A i, j \in DOMAIN list : i < j => <<list[i], list[j]>> \in R

(* A finite set can be sorted: each element goes to the place after as many *)
(* as are below it.                                                        *)
LEMMA SortExists ==
    ASSUME NEW S, IsFiniteSet(S), NEW R, Orders(R, S)
    PROVE  \E list \in [1 .. Cardinality(S) -> S] : SortedBy(R, list)
<1> DEFINE n == Cardinality(S)
           Below(x) == {y \in S : <<y, x>> \in R}
           Rank == [x \in S |-> Cardinality(Below(x)) + 1]
<1>1. n \in Nat
    BY FS_CardinalityType
<1>2. \A x \in S : IsFiniteSet(Below(x)) /\ Cardinality(Below(x)) \in Nat
    <2> SUFFICES ASSUME NEW x \in S PROVE IsFiniteSet(Below(x)) /\ Cardinality(Below(x)) \in Nat
        OBVIOUS
    <2>1. Below(x) \in SUBSET S
        OBVIOUS
    <2> QED
        BY <2>1, FS_Subset, FS_CardinalityType
<1>3. ASSUME NEW x \in S, NEW y \in S, <<x, y>> \in R
      PROVE  Cardinality(Below(x)) < Cardinality(Below(y))
    <2>1. Below(x) \in SUBSET Below(y)
        BY <1>3 DEF Orders
    <2>2. x \in Below(y) /\ x \notin Below(x)
        BY <1>3 DEF Orders
    <2>3. Cardinality(Below(x)) <= Cardinality(Below(y))
          /\ (Cardinality(Below(y)) = Cardinality(Below(x)) => Below(y) = Below(x))
        BY <1>2, <2>1, FS_Subset
    <2>4. Below(x) # Below(y)
        BY <2>2
    <2> QED
        BY <1>2, <2>3, <2>4
<1>4. \A x \in S : Cardinality(Below(x)) < n
    <2> SUFFICES ASSUME NEW x \in S PROVE Cardinality(Below(x)) < n
        OBVIOUS
    <2>1. Below(x) \in SUBSET S
        OBVIOUS
    <2>2. x \in S /\ x \notin Below(x)
        BY DEF Orders
    <2>3. Cardinality(Below(x)) <= Cardinality(S)
          /\ (Cardinality(S) = Cardinality(Below(x)) => S = Below(x))
        BY <2>1, FS_Subset
    <2>4. S # Below(x)
        BY <2>2
    <2> QED
        BY <1>1, <1>2, <2>3, <2>4
<1>5. Rank \in [S -> 1 .. n]
    BY <1>1, <1>2, <1>4
<1>6. \A x \in S : Rank[x] = Cardinality(Below(x)) + 1
    OBVIOUS
<1> HIDE DEF Rank, Below
<1>7. \A x, y \in S : Rank[x] = Rank[y] => x = y
    <2> SUFFICES ASSUME NEW x \in S, NEW y \in S, Rank[x] = Rank[y], x # y PROVE FALSE
        OBVIOUS
    <2>1. Cardinality(Below(x)) = Cardinality(Below(y))
        BY <1>2, <1>6
    <2>2. ~(Cardinality(Below(x)) < Cardinality(Below(y)))
          /\ ~(Cardinality(Below(y)) < Cardinality(Below(x)))
        BY <1>2, <2>1
    <2> QED
        BY <1>3, <2>2 DEF Orders
<1>8. Rank \in Surjection(S, 1 .. n)
    <2>1. Rank \in Injection(S, 1 .. n)
        BY <1>5, <1>7, Fun_IsInj
    <2>2. IsFiniteSet(1 .. n) /\ Cardinality(1 .. n) = n
        BY <1>1, FS_Interval
    <2> QED
        BY <2>1, <2>2, FS_Injection
<1>9. \A k \in 1 .. n : \E x \in S : Rank[x] = k
    BY <1>8 DEF Surjection
<1> DEFINE list == [k \in 1 .. n |-> CHOOSE x \in S : Rank[x] = k]
<1>10. \A k \in 1 .. n : list[k] \in S /\ Rank[list[k]] = k
    BY <1>9
<1>11. list \in [1 .. n -> S] /\ DOMAIN list = 1 .. n
    BY <1>10
<1>12. ASSUME NEW i \in 1 .. n, NEW j \in 1 .. n, i < j
       PROVE  <<list[i], list[j]>> \in R
    <2> DEFINE x == list[i]
               y == list[j]
    <2>1. x \in S /\ y \in S /\ Rank[x] = i /\ Rank[y] = j
        BY <1>10
    <2>2. Cardinality(Below(x)) + 1 = i /\ Cardinality(Below(y)) + 1 = j
        BY <1>6, <2>1
    <2> HIDE DEF x, y
    <2>3. x # y
        BY <1>12, <2>2
    <2>4. ~(Cardinality(Below(y)) < Cardinality(Below(x)))
        BY <1>2, <1>12, <2>1, <2>2
    <2>5. <<y, x>> \notin R
        BY <1>3, <2>1, <2>4
    <2>6. <<x, y>> \in R
        BY <2>1, <2>3, <2>5 DEF Orders
    <2> QED
        BY <2>6 DEF x, y
<1> HIDE DEF list, n
<1>13. SortedBy(R, list)
    BY <1>11, <1>12 DEF SortedBy
<1> QED
    BY <1>11, <1>13 DEF n

(* A sorted list as long as its set is large holds every element of it.    *)
LEMMA SortedHoldsAll ==
    ASSUME NEW S, IsFiniteSet(S), NEW R, Orders(R, S),
           NEW list \in [1 .. Cardinality(S) -> S], SortedBy(R, list)
    PROVE  ToSet(list) = S
<1> DEFINE n == Cardinality(S)
<1>1. n \in Nat
    BY FS_CardinalityType
<1> HIDE DEF n
<1>2. list \in [1 .. n -> S] /\ DOMAIN list = 1 .. n
    BY DEF n
<1>3. \A i, j \in 1 .. n : list[i] = list[j] => i = j
    <2> SUFFICES ASSUME NEW i \in 1 .. n, NEW j \in 1 .. n, list[i] = list[j], i # j
                 PROVE  FALSE
        OBVIOUS
    <2>1. i < j \/ j < i
        BY <1>1
    <2>2. <<list[i], list[i]>> \in R
        BY <1>2, <2>1 DEF SortedBy
    <2>3. list[i] \in S
        BY <1>2
    <2> QED
        BY <2>2, <2>3 DEF Orders
<1>4. list \in Injection(1 .. n, S)
    BY <1>2, <1>3, Fun_IsInj
<1>5. IsFiniteSet(1 .. n) /\ Cardinality(1 .. n) = n
    BY <1>1, FS_Interval
<1>6. list \in Surjection(1 .. n, S)
    BY <1>4, <1>5, FS_Injection DEF n
<1>7. \A x \in S : \E i \in 1 .. n : list[i] = x
    BY <1>6 DEF Surjection
<1> QED
    BY <1>2, <1>7 DEF ToSet

(* Appending adds one element to what a sequence holds.                    *)
LEMMA ToSetAppend ==
    ASSUME NEW S, NEW s \in Seq(S), NEW e \in S
    PROVE  ToSet(Append(s, e)) = ToSet(s) \cup {e}
<1>1. Len(s) \in Nat /\ DOMAIN s = 1 .. Len(s)
    BY LenProperties
<1>2. /\ DOMAIN Append(s, e) = 1 .. Len(s) + 1
      /\ \A i \in 1 .. Len(s) : Append(s, e)[i] = s[i]
      /\ Append(s, e)[Len(s) + 1] = e
    BY AppendProperties, LenProperties
<1> DEFINE t == Append(s, e)
           n == Len(s)
<1> HIDE DEF t, n
<1>3. /\ n \in Nat /\ DOMAIN s = 1 .. n /\ DOMAIN t = 1 .. n + 1
      /\ (\A i \in 1 .. n : t[i] = s[i]) /\ t[n + 1] = e
    BY <1>1, <1>2 DEF t, n
<1>4. \A i \in 1 .. n + 1 : i \in 1 .. n \/ i = n + 1
    BY <1>3
<1>5. \A i \in 1 .. n : i \in 1 .. n + 1
    BY <1>3
<1>6. n + 1 \in 1 .. n + 1
    BY <1>3
<1>7. ToSet(t) = ToSet(s) \cup {e}
    BY <1>3, <1>4, <1>5, <1>6 DEF ToSet
<1> QED
    BY <1>7 DEF t
(***************************************************************************)
(* The mod catalog                                                         *)
(***************************************************************************)
(* What the proofs call the parts of the directory.                        *)
WellFormed(t) ==
    /\ DOMAIN t \subseteq Nat
    /\ \A m \in DOMAIN t : t[m] # NotADirectory =>
           /\ DOMAIN t[m] \subseteq Nat
           /\ \A n \in DOMAIN t[m] : t[m][n] # NoPackage => t[m][n].id \in Nat

Mods == {m \in DOMAIN tree : tree[m] # NotADirectory}
IsReadable(m, n) == tree[m][n] # NoPackage /\ tree[m][n].readable
AllReadable == UNION {Readable(m) : m \in Mods}
Records == [id : Mods, packages : Seq(AllReadable)]

SortedList(list) == \A i, j \in DOMAIN list : i < j => Precedes(list[i], list[j])

(* A record holds packages of its own mod only, in their order.            *)
OfItsMod(r) == SortedList(r.packages) /\ ToSet(r.packages) \subseteq Readable(r.id)

(* The mod is in the catalog with everything that can be read of it.       *)
Complete(m) == \E r \in ToSet(catalog) : r.id = m /\ ToSet(r.packages) = Readable(m)

CatalogTypeOK ==
    /\ WellFormed(tree)
    /\ walk \in {"idle", "mods", "packages"}
    /\ catalog \in Seq(Records)
    /\ entries \subseteq DOMAIN tree
    /\ walk = "idle" => entries = {}
    /\ walk # "packages" => found = {}
    /\ IsFiniteSet(found)

(* Each mod is listed once, with packages of its own; the ones listed are  *)
(* not to be visited again.                                                *)
ListedOnce ==
    /\ \A r \in ToSet(catalog) : OfItsMod(r) /\ r.id \notin entries
    /\ \A i, j \in DOMAIN catalog : catalog[i].id = catalog[j].id => i = j

(* The mod that is being walked through is not listed yet; what was found  *)
(* is its own, and what was not found is still to be visited unless a call *)
(* failed.                                                                 *)
AtOneMod ==
    walk = "packages" =>
        /\ mod \in Mods \ entries
        /\ \A r \in ToSet(catalog) : r.id # mod
        /\ names \subseteq DOMAIN tree[mod]
        /\ found \subseteq Readable(mod)
        /\ mod \notin hurt =>
               \A n \in DOMAIN tree[mod] \ names :
                   IsReadable(mod, n) => Package(mod, n) \in found

(* No mod gets lost but by a failure.                                      *)
Accounted ==
    \A m \in Mods :
        m \in hurt \/ cut \/ m \in entries \/ (walk = "packages" /\ mod = m) \/ Complete(m)

SortedCatalog ==
    walk = "idle" => \A i, j \in DOMAIN catalog : i < j => catalog[i].id < catalog[j].id

CatalogIInv == CatalogTypeOK /\ ListedOnce /\ AtOneMod /\ Accounted /\ SortedCatalog

(* The empty sequence.                                                     *)
LEMMA Nothing == ToSet(<< >>) = {} /\ DOMAIN << >> = {} /\ \A S : << >> \in Seq(S)
BY EmptySeq, LenProperties DEF ToSet

(* Every part of an unchanged directory is unchanged.                      *)
LEMMA SameDirectory ==
    ASSUME UNCHANGED tree
    PROVE  /\ WellFormed(tree)' = WellFormed(tree) /\ Mods' = Mods /\ Records' = Records
           /\ \A m, n : Package(m, n)' = Package(m, n) /\ IsReadable(m, n)' = IsReadable(m, n)
           /\ \A m : Readable(m)' = Readable(m)
           /\ \A r : OfItsMod(r)' = OfItsMod(r)
<1>1. \A m, n : Package(m, n)' = Package(m, n)
    BY DEF Package
<1>2. \A m, n : IsReadable(m, n)' = IsReadable(m, n)
    BY DEF IsReadable
<1>3. \A m : Readable(m)' = Readable(m)
    BY <1>1 DEF Readable
<1>4. Mods' = Mods
    BY DEF Mods
<1>5. Records' = Records
    BY <1>3, <1>4 DEF Records, AllReadable
<1>6. \A r : OfItsMod(r)' = OfItsMod(r)
    BY <1>3 DEF OfItsMod
<1>7. WellFormed(tree)' = WellFormed(tree)
    BY DEF WellFormed
<1> QED
    BY <1>1, <1>2, <1>3, <1>4, <1>5, <1>6, <1>7

(* The packages found of a mod are those read at its names.                *)
LEMMA ReadableAt ==
    ASSUME NEW m
    PROVE  /\ \A n \in DOMAIN tree[m] : IsReadable(m, n) => Package(m, n) \in Readable(m)
           /\ \A p \in Readable(m) : \E n \in DOMAIN tree[m] : IsReadable(m, n) /\ p = Package(m, n)
BY DEF Readable, IsReadable

(* Before the first scan there is nothing.                                 *)
LEMMA CatalogInitHolds == CatalogInit => CatalogIInv
<1> SUFFICES ASSUME CatalogInit PROVE CatalogIInv
    OBVIOUS
<1>1. /\ catalog = << >> /\ tree = << >> /\ walk = "idle" /\ entries = {} /\ found = {}
    BY DEF CatalogInit
<1>2. CatalogTypeOK
    BY <1>1, Nothing, FS_EmptySet DEF CatalogTypeOK, WellFormed
<1>3. ListedOnce /\ SortedCatalog
    BY <1>1, Nothing DEF ListedOnce, SortedCatalog
<1>4. AtOneMod /\ Accounted
    BY <1>1, Nothing DEF AtOneMod, Accounted, Mods
<1> QED
    BY <1>2, <1>3, <1>4 DEF CatalogIInv

(* A scan starts with an empty catalog, and all entries to visit or the    *)
(* walk cut off.                                                           *)
LEMMA ScanKeeps ==
    ASSUME CatalogIInv, NEW t \in Trees, Scan(t)
    PROVE  CatalogIInv'
<1>1. /\ catalog' = << >> /\ tree' = t /\ walk = "idle" /\ found' = found
      /\ \/ walk' = "mods" /\ entries' = DOMAIN t
         \/ walk' = "idle" /\ entries' = {} /\ cut' = TRUE
    BY DEF Scan, CatalogIInv, CatalogTypeOK
<1>2. WellFormed(t)
    BY ModCatalogAssumption DEF WellFormed
<1>3. CatalogTypeOK'
    <2>1. found = {} /\ IsFiniteSet(found)
        BY <1>1 DEF CatalogIInv, CatalogTypeOK
    <2>2. WellFormed(tree)'
        BY <1>1, <1>2 DEF WellFormed
    <2> QED
        BY <1>1, <2>1, <2>2, Nothing DEF CatalogTypeOK
<1>4. ListedOnce' /\ SortedCatalog'
    BY <1>1, Nothing DEF ListedOnce, SortedCatalog
<1>5. AtOneMod' /\ Accounted'
    BY <1>1 DEF AtOneMod, Accounted, Mods
<1> QED
    BY <1>3, <1>4, <1>5 DEF CatalogIInv

(* The entry that is left is being walked through, is no mod, or is hurt.  *)
LEMMA NextEntryKeeps ==
    ASSUME CatalogIInv, NEW m \in entries, NextEntry(m)
    PROVE  CatalogIInv'
<1>1. /\ walk = "mods" /\ entries' = entries \ {m}
      /\ catalog' = catalog /\ tree' = tree /\ found' = found /\ cut' = cut
      /\ \/ /\ tree[m] # NotADirectory
            /\ walk' = "packages" /\ mod' = m /\ names' = DOMAIN tree[m] /\ hurt' = hurt
         \/ tree[m] = NotADirectory /\ walk' = "mods" /\ hurt' = hurt
         \/ walk' = "mods" /\ hurt' = hurt \cup {m}
    BY DEF NextEntry
<1>2. found = {} /\ entries \subseteq DOMAIN tree
    BY <1>1 DEF CatalogIInv, CatalogTypeOK
<1>3. CatalogTypeOK'
    BY <1>1, <1>2, SameDirectory DEF CatalogIInv, CatalogTypeOK
<1>4. ListedOnce' /\ SortedCatalog'
    BY <1>1, SameDirectory DEF CatalogIInv, ListedOnce, SortedCatalog
<1>5. AtOneMod'
    <2> SUFFICES ASSUME walk' = "packages"
                 PROVE  /\ mod' \in Mods \ entries' /\ \A r \in ToSet(catalog) : r.id # mod'
                        /\ names' \subseteq DOMAIN tree[mod'] /\ found' = {}
                        /\ DOMAIN tree[mod'] \ names' = {}
        BY <1>1, SameDirectory DEF AtOneMod
    <2>1. tree[m] # NotADirectory /\ mod' = m /\ names' = DOMAIN tree[m]
        BY <1>1
    <2>2. m \in Mods \ entries'
        BY <1>1, <1>2, <2>1 DEF Mods
    <2>3. \A r \in ToSet(catalog) : r.id # m
        BY DEF CatalogIInv, ListedOnce
    <2> QED
        BY <1>1, <1>2, <2>1, <2>2, <2>3
<1>6. Accounted'
    <2>1. \A k \in Mods : k \in hurt \/ cut \/ k \in entries \/ Complete(k)
        BY <1>1 DEF CatalogIInv, Accounted
    <2>2. \A k : Complete(k)' = Complete(k)
        BY <1>1, SameDirectory DEF Complete
    <2>3. \A k \in Mods : k \in hurt' \/ cut' \/ k \in entries' \/ (walk' = "packages" /\ mod' = k)
                          \/ Complete(k)
        BY <1>1, <2>1 DEF Mods
    <2> QED
        BY <1>1, <2>2, <2>3, SameDirectory DEF Accounted
<1> QED
    BY <1>3, <1>4, <1>5, <1>6 DEF CatalogIInv

(* What is lost then is lost to the cut.                                   *)
LEMMA LoseEntriesKeeps ==
    ASSUME CatalogIInv, LoseEntries
    PROVE  CatalogIInv'
<1>1. /\ walk = "mods" /\ walk' = walk /\ entries' = {} /\ cut' = TRUE
      /\ catalog' = catalog /\ tree' = tree /\ found' = found
    BY DEF LoseEntries
<1>2. CatalogTypeOK'
    BY <1>1, SameDirectory DEF CatalogIInv, CatalogTypeOK
<1>3. ListedOnce' /\ SortedCatalog'
    BY <1>1, SameDirectory DEF CatalogIInv, ListedOnce, SortedCatalog
<1>4. AtOneMod' /\ Accounted'
    BY <1>1 DEF AtOneMod, Accounted
<1> QED
    BY <1>2, <1>3, <1>4 DEF CatalogIInv

(* Where only the packages of the mod at hand change, no record does.      *)
LEMMA WithinMod ==
    ASSUME CatalogIInv, walk = "packages", hurt \subseteq hurt', IsFiniteSet(found'),
           UNCHANGED <<catalog, tree, walk, entries, mod, cut>>
    PROVE  CatalogTypeOK' /\ ListedOnce' /\ Accounted' /\ SortedCatalog'
<1>1. CatalogTypeOK'
    BY SameDirectory DEF CatalogIInv, CatalogTypeOK
<1>2. ListedOnce' /\ SortedCatalog'
    BY SameDirectory DEF CatalogIInv, ListedOnce, SortedCatalog
<1>3. \A k : Complete(k)' = Complete(k)
    BY SameDirectory DEF Complete
<1>4. Accounted'
    BY <1>3, SameDirectory DEF CatalogIInv, Accounted
<1> QED
    BY <1>1, <1>2, <1>4

(* The name that is left was read, is no readable package, or its mod is   *)
(* hurt.                                                                   *)
LEMMA NextPackageKeeps ==
    ASSUME CatalogIInv, NEW n \in names, NextPackage(n)
    PROVE  CatalogIInv'
<1>1. /\ walk = "packages" /\ names' = names \ {n}
      /\ UNCHANGED <<catalog, tree, walk, entries, mod, cut>>
      /\ \/ IsReadable(mod, n) /\ found' = found \cup {Package(mod, n)} /\ hurt' = hurt
         \/ ~IsReadable(mod, n) /\ found' = found /\ hurt' = hurt
         \/ hurt' = hurt \cup {mod} /\ found' = found
    BY DEF NextPackage, IsReadable
<1>2. /\ mod \in Mods \ entries /\ \A r \in ToSet(catalog) : r.id # mod
      /\ names \subseteq DOMAIN tree[mod]
      /\ found \subseteq Readable(mod)
      /\ mod \notin hurt =>
             \A k \in DOMAIN tree[mod] \ names : IsReadable(mod, k) => Package(mod, k) \in found
    BY <1>1 DEF CatalogIInv, AtOneMod
<1>3. IsFiniteSet(found')
    BY <1>1, FS_AddElement DEF CatalogIInv, CatalogTypeOK
<1>4. /\ names' \subseteq DOMAIN tree[mod]
      /\ found' \subseteq Readable(mod)
      /\ mod \notin hurt' =>
             \A k \in DOMAIN tree[mod] \ names' : IsReadable(mod, k) => Package(mod, k) \in found'
    BY <1>1, <1>2, ReadableAt
<1>5. AtOneMod'
    BY <1>1, <1>2, <1>4, SameDirectory DEF AtOneMod
<1> QED
    BY <1>1, <1>3, <1>5, WithinMod DEF CatalogIInv

(* What is left of the mod is lost, and the mod hurt.                      *)
LEMMA LosePackagesKeeps ==
    ASSUME CatalogIInv, LosePackages
    PROVE  CatalogIInv'
<1>1. /\ walk = "packages" /\ names' = {} /\ hurt' = hurt \cup {mod} /\ found' = found
      /\ UNCHANGED <<catalog, tree, walk, entries, mod, cut>>
    BY DEF LosePackages
<1>2. IsFiniteSet(found')
    BY <1>1 DEF CatalogIInv, CatalogTypeOK
<1>3. AtOneMod'
    BY <1>1, SameDirectory DEF CatalogIInv, AtOneMod
<1> QED
    BY <1>1, <1>2, <1>3, WithinMod DEF CatalogIInv

(* The packages found can be sorted, and the list holds all of them.       *)
LEMMA PackagesGetSorted ==
    ASSUME CatalogIInv, walk = "packages"
    PROVE  /\ SortedPackages \in Seq(AllReadable)
           /\ SortedList(SortedPackages)
           /\ ToSet(SortedPackages) = found
<1> DEFINE R == {e \in found \X found : Precedes(e[1], e[2])}
           n == Cardinality(found)
<1>1. /\ IsFiniteSet(found) /\ mod \in Mods /\ found \subseteq Readable(mod)
      /\ WellFormed(tree)
    BY DEF CatalogIInv, CatalogTypeOK, AtOneMod
<1>2. \A p, q \in found : <<p, q>> \in R <=> Precedes(p, q)
    OBVIOUS
<1>3. ASSUME NEW p \in found
      PROVE  /\ p.name \in Nat /\ p.id \in Nat
             /\ p = Package(mod, p.name)
    <2>1. PICK k \in DOMAIN tree[mod] : IsReadable(mod, k) /\ p = Package(mod, k)
        BY <1>1, ReadableAt
    <2>2. k \in Nat /\ tree[mod][k].id \in Nat
        BY <1>1, <2>1 DEF Mods, WellFormed, IsReadable
    <2>3. p.name = k /\ p.id = tree[mod][k].id
        BY <2>1 DEF Package
    <2> QED
        BY <2>1, <2>2, <2>3
<1>4. \A p, q \in found : p.name = q.name => p = q
    BY <1>3
<1> HIDE DEF R
<1>5. Orders(R, found)
    BY <1>2, <1>3, <1>4 DEF Orders, Precedes
<1>6. n \in Nat
    BY <1>1, FS_CardinalityType
<1> HIDE DEF n
<1>7. \A list \in [1 .. n -> found] : DOMAIN list = 1 .. n
    OBVIOUS
<1>8. \A list \in [1 .. n -> found] : SortedBy(R, list) <=> SortedList(list)
    BY <1>2, <1>7 DEF SortedBy, SortedList
<1>9. \E list \in [1 .. n -> found] : SortedList(list)
    BY <1>1, <1>5, <1>8, SortExists DEF n
<1>10. SortedPackages = CHOOSE list \in [1 .. n -> found] : SortedList(list)
    BY DEF SortedPackages, SortedList, n
<1>11. SortedPackages \in [1 .. n -> found] /\ SortedList(SortedPackages)
    BY <1>9, <1>10
<1>12. ToSet(SortedPackages) = found
    BY <1>1, <1>5, <1>8, <1>11, SortedHoldsAll DEF n
<1>13. \A p \in found : p \in AllReadable
    BY <1>1 DEF AllReadable
<1>14. SortedPackages \in [1 .. n -> AllReadable]
    BY <1>11, <1>13
<1>15. SortedPackages \in Seq(AllReadable)
    BY <1>6, <1>14
<1> QED
    BY <1>11, <1>12, <1>15

(* The record of the mod that is complete joins the others.                *)
LEMMA EndOfModKeeps ==
    ASSUME CatalogIInv, EndOfMod
    PROVE  CatalogIInv'
<1> DEFINE new == [id |-> mod, packages |-> SortedPackages]
<1>1. /\ walk = "packages" /\ walk' = "mods" /\ names = {} /\ found' = {}
      /\ catalog' = Append(catalog, new)
      /\ UNCHANGED <<tree, entries, hurt, cut>>
    BY DEF EndOfMod
<1>2. /\ mod \in Mods \ entries /\ \A r \in ToSet(catalog) : r.id # mod
      /\ found \subseteq Readable(mod)
      /\ mod \notin hurt =>
             \A n \in DOMAIN tree[mod] : IsReadable(mod, n) => Package(mod, n) \in found
    BY <1>1 DEF CatalogIInv, AtOneMod
<1>3. /\ SortedPackages \in Seq(AllReadable) /\ SortedList(SortedPackages)
      /\ ToSet(SortedPackages) = found
    BY <1>1, PackagesGetSorted
<1>4. new.id = mod /\ new.packages = SortedPackages /\ new \in Records
    BY <1>2, <1>3 DEF Records
<1>5. OfItsMod(new)
    BY <1>2, <1>3, <1>4 DEF OfItsMod
<1>6. mod \notin hurt => ToSet(new.packages) = Readable(mod)
    <2>1. mod \notin hurt => Readable(mod) \subseteq found
        BY <1>2, ReadableAt
    <2> QED
        BY <1>2, <1>3, <1>4, <2>1
<1>7. catalog \in Seq(Records)
    BY DEF CatalogIInv, CatalogTypeOK
<1> HIDE DEF new
<1>8. ToSet(catalog') = ToSet(catalog) \cup {new} /\ catalog' \in Seq(Records)
    BY <1>1, <1>4, <1>7, ToSetAppend, AppendProperties
<1>9. CatalogTypeOK'
    BY <1>1, <1>8, SameDirectory, FS_EmptySet DEF CatalogIInv, CatalogTypeOK
<1>10. \A i, j \in DOMAIN catalog' : catalog'[i].id = catalog'[j].id => i = j
    <2> DEFINE k == Len(catalog)
               c == catalog'
    <2>1. k \in Nat /\ DOMAIN catalog = 1 .. k
        BY <1>7, LenProperties
    <2>2. \A i \in 1 .. k : catalog[i] \in ToSet(catalog)
        BY <2>1 DEF ToSet
    <2>3. /\ DOMAIN catalog' = 1 .. k + 1
          /\ \A i \in 1 .. k : catalog'[i] = catalog[i]
          /\ catalog'[k + 1] = new
        BY <1>1, <1>4, <1>7, <1>8, AppendProperties, LenProperties
    <2>4. \A i, j \in 1 .. k : catalog[i].id = catalog[j].id => i = j
        BY <2>1 DEF CatalogIInv, ListedOnce
    <2> HIDE DEF k
    <2>5. \A i \in 1 .. k + 1 : i \in 1 .. k \/ i = k + 1
        BY <2>1
    <2>6. \A i \in 1 .. k : catalog'[i].id # catalog'[k + 1].id
        BY <1>2, <1>4, <2>2, <2>3
    <2>7. \A i, j \in 1 .. k : catalog'[i].id = catalog'[j].id => i = j
        BY <2>3, <2>4
    <2> QED
        BY <2>3, <2>5, <2>6, <2>7
<1>11. ListedOnce'
    <2>1. \A r \in ToSet(catalog) : OfItsMod(r) /\ r.id \notin entries
        BY DEF CatalogIInv, ListedOnce
    <2>2. \A r \in ToSet(catalog') : OfItsMod(r) /\ r.id \notin entries
        BY <1>2, <1>4, <1>5, <1>8, <2>1
    <2> QED
        BY <1>1, <1>10, <2>2, SameDirectory DEF ListedOnce
<1>12. AtOneMod' /\ SortedCatalog'
    BY <1>1 DEF AtOneMod, SortedCatalog
<1>13. Accounted'
    <2>1. \A m \in Mods : m \in hurt \/ cut \/ m \in entries \/ mod = m \/ Complete(m)
        BY DEF CatalogIInv, Accounted
    <2>2. \A m : Complete(m) => Complete(m)'
        BY <1>1, <1>8, SameDirectory DEF Complete
    <2>3. \A m : m = mod => m \in hurt \/ Complete(m)'
        BY <1>1, <1>4, <1>6, <1>8, SameDirectory DEF Complete
    <2> QED
        BY <1>1, <2>1, <2>2, <2>3, SameDirectory DEF Accounted
<1> QED
    BY <1>9, <1>11, <1>12, <1>13 DEF CatalogIInv

(* The mods can be sorted by their ids, and the list holds all of them.    *)
LEMMA ModsGetSorted ==
    ASSUME CatalogIInv
    PROVE  /\ SortedMods \in Seq(Records)
           /\ ToSet(SortedMods) = ToSet(catalog)
           /\ \A i, j \in DOMAIN SortedMods : i < j => SortedMods[i].id < SortedMods[j].id
<1> DEFINE n == Len(catalog)
           S == ToSet(catalog)
           R == {e \in S \X S : e[1].id < e[2].id}
           Sorted(list) == \A i, j \in DOMAIN list : i < j => list[i].id < list[j].id
<1>1. n \in Nat /\ DOMAIN catalog = 1 .. n /\ catalog \in [1 .. n -> Records]
    BY LenProperties DEF CatalogIInv, CatalogTypeOK
<1>2. \A i, j \in 1 .. n : catalog[i].id = catalog[j].id => i = j
    BY <1>1 DEF CatalogIInv, ListedOnce
<1>3. WellFormed(tree)
    BY DEF CatalogIInv, CatalogTypeOK
<1> HIDE DEF n
<1>4. \A r \in S : r \in Records /\ \E i \in 1 .. n : r = catalog[i]
    BY <1>1 DEF ToSet
<1>5. \A r \in Records : r.id \in Nat
    BY <1>3 DEF Records, Mods, WellFormed
<1>6. \A i \in 1 .. n : catalog[i] \in S
    BY <1>1 DEF ToSet
<1> HIDE DEF S
<1>7. \A q, r \in S : <<q, r>> \in R <=> q.id < r.id
    OBVIOUS
<1> HIDE DEF R
<1>8. \A q, r \in S : q.id = r.id => q = r
    BY <1>2, <1>4
<1>9. Orders(R, S)
    BY <1>4, <1>5, <1>7, <1>8 DEF Orders
<1>10. IsFiniteSet(S) /\ Cardinality(S) = n
    <2>1. catalog \in Bijection(1 .. n, S)
        <3>1. catalog \in [1 .. n -> S]
            BY <1>1, <1>6
        <3>2. \A i, j \in 1 .. n : catalog[i] = catalog[j] => i = j
            BY <1>2
        <3>3. \A r \in S : \E i \in 1 .. n : catalog[i] = r
            BY <1>4
        <3> QED
            BY <3>1, <3>2, <3>3, Fun_IsBij
    <2>2. IsFiniteSet(1 .. n) /\ Cardinality(1 .. n) = n
        BY <1>1, FS_Interval
    <2>3. ExistsBijection(1 .. n, S)
        BY <2>1 DEF ExistsBijection
    <2> QED
        BY <2>2, <2>3, FS_Bijection
<1>11. \A list \in [1 .. n -> S] : DOMAIN list = 1 .. n
    OBVIOUS
<1>12. \A list \in [1 .. n -> S] : SortedBy(R, list) <=> Sorted(list)
    BY <1>7, <1>11 DEF SortedBy
<1>13. \E list \in [1 .. n -> S] : Sorted(list)
    BY <1>9, <1>10, <1>12, SortExists
<1>14. SortedMods = CHOOSE list \in [1 .. n -> S] : Sorted(list)
    BY <1>1 DEF SortedMods, S
<1> HIDE DEF Sorted
<1>15. SortedMods \in [1 .. n -> S] /\ Sorted(SortedMods)
    BY <1>13, <1>14
<1>16. ToSet(SortedMods) = S
    BY <1>9, <1>10, <1>12, <1>15, SortedHoldsAll
<1>17. SortedMods \in [1 .. n -> Records]
    BY <1>4, <1>15
<1>18. SortedMods \in Seq(Records)
    BY <1>1, <1>17
<1> QED
    BY <1>15, <1>16, <1>18 DEF Sorted, S

(* Sorting moves the records and changes none.                             *)
LEMMA EndOfScanKeeps ==
    ASSUME CatalogIInv, EndOfScan
    PROVE  CatalogIInv'
<1>1. /\ walk = "mods" /\ walk' = "idle" /\ entries = {} /\ entries' = {}
      /\ catalog' = SortedMods
      /\ UNCHANGED <<tree, found, hurt, cut>>
    BY DEF EndOfScan
<1>2. /\ catalog' \in Seq(Records) /\ ToSet(catalog') = ToSet(catalog)
      /\ \A i, j \in DOMAIN catalog' : i < j => catalog'[i].id < catalog'[j].id
    BY <1>1, ModsGetSorted
<1>3. CatalogTypeOK'
    BY <1>1, <1>2, SameDirectory DEF CatalogIInv, CatalogTypeOK
<1>4. SortedCatalog'
    BY <1>2 DEF SortedCatalog
<1>5. \A i, j \in DOMAIN catalog' : catalog'[i].id = catalog'[j].id => i = j
    <2>1. Len(catalog') \in Nat /\ DOMAIN catalog' = 1 .. Len(catalog')
        BY <1>2, LenProperties
    <2>2. \A i \in DOMAIN catalog' : i \in Nat /\ catalog'[i] \in Records
        BY <1>2, <2>1
    <2>3. \A r \in Records : r.id \in Nat
        BY DEF CatalogIInv, CatalogTypeOK, Records, Mods, WellFormed
    <2>4. \A i \in DOMAIN catalog' : i \in Nat /\ catalog'[i].id \in Nat
        BY <2>2, <2>3
    <2> QED
        BY <1>2, <2>4
<1>6. ListedOnce'
    BY <1>1, <1>2, <1>5, SameDirectory DEF CatalogIInv, ListedOnce
<1>7. AtOneMod'
    BY <1>1 DEF AtOneMod
<1>8. Accounted'
    BY <1>1, <1>2, SameDirectory DEF CatalogIInv, Accounted, Complete
<1> QED
    BY <1>3, <1>4, <1>6, <1>7, <1>8 DEF CatalogIInv

(* The activation leaves the catalog alone.                                *)
LEMMA CatalogSame ==
    ASSUME CatalogIInv, UNCHANGED <<catalogVars>>
    PROVE  CatalogIInv'
<1>1. UNCHANGED <<catalog, tree, walk, entries, mod, names, found, hurt, cut>>
    BY DEF catalogVars, contents, cursor
<1>2. CatalogTypeOK' /\ ListedOnce' /\ SortedCatalog'
    BY <1>1, SameDirectory DEF CatalogIInv, CatalogTypeOK, ListedOnce, SortedCatalog
<1>3. AtOneMod'
    BY <1>1, SameDirectory DEF CatalogIInv, AtOneMod
<1>4. Accounted'
    BY <1>1, SameDirectory DEF CatalogIInv, Accounted, Complete
<1> QED
    BY <1>2, <1>3, <1>4 DEF CatalogIInv

(* Each step of a scan keeps the invariant.                                *)
LEMMA ScanModsKeeps ==
    ASSUME CatalogIInv, ScanMods
    PROVE  CatalogIInv'
BY ScanKeeps, NextEntryKeeps, LoseEntriesKeeps, NextPackageKeeps, LosePackagesKeeps,
   EndOfModKeeps, EndOfScanKeeps DEF ScanMods

(* What the catalog has to be when a scan is over follows.                 *)
LEMMA CatalogCorrect == CatalogIInv => ErrorsStayLocal
<1> SUFFICES ASSUME CatalogIInv, walk = "idle" PROVE ErrorsStayLocal
    BY DEF ErrorsStayLocal
<1> DEFINE Listed(m) == {i \in DOMAIN catalog : catalog[i].id = m}
<1>1. /\ catalog \in Seq(Records) /\ entries = {}
      /\ \A r \in ToSet(catalog) : OfItsMod(r)
      /\ \A i, j \in DOMAIN catalog : catalog[i].id = catalog[j].id => i = j
    BY DEF CatalogIInv, CatalogTypeOK, ListedOnce
<1>2. \A i \in DOMAIN catalog : catalog[i] \in Records /\ catalog[i] \in ToSet(catalog)
    BY <1>1 DEF ToSet
<1>3. ASSUME NEW i \in DOMAIN catalog
      PROVE  /\ catalog[i].id \in Mods
             /\ Listed(catalog[i].id) = {i}
             /\ ToSet(catalog[i].packages) \subseteq Readable(catalog[i].id)
    BY <1>1, <1>2 DEF Records, OfItsMod
<1>4. ASSUME NEW m \in Mods \ hurt
      PROVE  cut \/ \E i \in Listed(m) : ToSet(catalog[i].packages) = Readable(m)
    <2>1. cut \/ Complete(m)
        BY <1>1 DEF CatalogIInv, Accounted
    <2> QED
        BY <2>1 DEF Complete, ToSet
<1> QED
    BY <1>3, <1>4 DEF ErrorsStayLocal, Mods
(***************************************************************************)
(* Package registration                                                    *)
(***************************************************************************)
(* The places that the walk has passed, and what is at a place.            *)
Passed == Places \ todo
IdAt(x) == PackageAt(x)[2].id
FitsAt(x) == PackageAt(x)[2].fits

(* The first of its identity among the places that were passed.            *)
FirstOfItsId(x) == \A y \in Passed : IdAt(y) = IdAt(x) => ~Precede(y, x)

RegistrationTypeOK ==
    /\ activation \in {"never", "resolving", "submitting", "over"}
    /\ activation # "never" => walk = "idle"
    /\ activation \in {"never", "resolving"} =>
           todo = {} /\ submitted = {} /\ registered = << >>

(* The places are passed in their order.                                   *)
InOrder ==
    activation = "submitting" =>
        /\ todo \subseteq Places
        /\ \A x \in Passed, y \in todo : Precede(x, y)

(* What has been inserted and given to the engine, as the places passed    *)
(* determine it.                                                           *)
AsPassed ==
    activation = "submitting" =>
        /\ submitted = {IdAt(x) : x \in Passed}
        /\ ToSet(registered) =
               {PackageAt(x) : x \in {y \in Passed : FitsAt(y) /\ FirstOfItsId(y)}}

EachOnceModByMod ==
    activation = "submitting" =>
        /\ registered \in Seq({PackageAt(x) : x \in Passed})
        /\ \A i, j \in DOMAIN registered :
               /\ registered[i][2].id = registered[j][2].id => i = j
               /\ i < j => registered[i][1] <= registered[j][1]

RegistrationIInv == RegistrationTypeOK /\ InOrder /\ AsPassed /\ EachOnceModByMod


(* Passing over places changes no package.                                 *)
LEMMA SameCatalog ==
    ASSUME UNCHANGED catalog
    PROVE  /\ Places' = Places
           /\ \A x : PackageAt(x)' = PackageAt(x) /\ IdAt(x)' = IdAt(x) /\ FitsAt(x)' = FitsAt(x)
BY DEF Places, PackageAt, IdAt, FitsAt

(* The places are pairs of numbers; Precede orders them strictly and totally. *)
LEMMA PlacesOrdered ==
    ASSUME CatalogIInv
    PROVE  /\ \A x \in Places : /\ x[1] \in DOMAIN catalog
                                /\ x[2] \in DOMAIN catalog[x[1]].packages
                                /\ x = <<x[1], x[2]>> /\ x[1] \in Nat /\ x[2] \in Nat
           /\ \A i \in DOMAIN catalog : \A j \in DOMAIN catalog[i].packages : <<i, j>> \in Places
           /\ \A x, y \in Places : x = y \/ Precede(x, y) \/ Precede(y, x)
           /\ \A x, y \in Places : ~(Precede(x, y) /\ Precede(y, x))
           /\ \A x \in Places : ~Precede(x, x)
           /\ \A x, y, z \in Places : Precede(x, y) /\ Precede(y, z) => Precede(x, z)
<1>1. catalog \in Seq(Records)
    BY DEF CatalogIInv, CatalogTypeOK
<1>2. /\ \A i \in DOMAIN catalog : i \in Nat /\ catalog[i] \in Records
    BY <1>1, LenProperties
<1>3. \A i \in DOMAIN catalog : \A j \in DOMAIN catalog[i].packages : j \in Nat
    <2> SUFFICES ASSUME NEW i \in DOMAIN catalog
                 PROVE  \A j \in DOMAIN catalog[i].packages : j \in Nat
        OBVIOUS
    <2>1. catalog[i].packages \in Seq(AllReadable)
        BY <1>2 DEF Records
    <2> QED
        BY <2>1, LenProperties
<1>4. \A x \in Places : /\ x[1] \in DOMAIN catalog
                        /\ x[2] \in DOMAIN catalog[x[1]].packages
                        /\ x = <<x[1], x[2]>>
    BY DEF Places
<1>5. \A i \in DOMAIN catalog : \A j \in DOMAIN catalog[i].packages : <<i, j>> \in Places
    BY DEF Places
<1>6. \A x \in Places : x[1] \in Nat /\ x[2] \in Nat
    BY <1>2, <1>3, <1>4
<1>7. \A x, y \in Places : x[1] = y[1] /\ x[2] = y[2] => x = y
    BY <1>4
<1>8. \A x, y \in Places : x = y \/ Precede(x, y) \/ Precede(y, x)
    BY <1>6, <1>7 DEF Precede
<1>9. \A x, y \in Places : ~(Precede(x, y) /\ Precede(y, x))
    BY <1>6 DEF Precede
<1>10. \A x, y, z \in Places : Precede(x, y) /\ Precede(y, z) => Precede(x, z)
    BY <1>6 DEF Precede
<1> QED
    BY <1>4, <1>5, <1>6, <1>8, <1>9, <1>10

(* Once the scan is over, later places are in later mods, and the places   *)
(* of one mod are sorted.                                                  *)
LEMMA ModsInOrder ==
    ASSUME CatalogIInv, walk = "idle"
    PROVE  /\ \A x \in Places : /\ catalog[x[1]].id \in Nat
                                /\ catalog[x[1]] \in ToSet(catalog)
                                /\ PackageAt(x)[2] \in Readable(catalog[x[1]].id)
           /\ \A x, y \in Places : x[1] < y[1] <=> catalog[x[1]].id < catalog[y[1]].id
           /\ \A x, y \in Places : Precede(x, y) => catalog[x[1]].id <= catalog[y[1]].id
<1>1. /\ catalog \in Seq(Records) /\ WellFormed(tree)
      /\ \A i, j \in DOMAIN catalog : i < j => catalog[i].id < catalog[j].id
      /\ \A r \in ToSet(catalog) : OfItsMod(r)
    BY DEF CatalogIInv, CatalogTypeOK, SortedCatalog, ListedOnce
<1>2. \A i \in DOMAIN catalog : /\ i \in Nat /\ catalog[i] \in Records
                               /\ catalog[i] \in ToSet(catalog)
    BY <1>1, LenProperties DEF ToSet
<1>3. \A r \in Records : r.id \in Nat
    BY <1>1 DEF Records, Mods, WellFormed
<1>4. \A x \in Places : /\ x[1] \in DOMAIN catalog /\ x[2] \in DOMAIN catalog[x[1]].packages
                       /\ x[1] \in Nat
    BY PlacesOrdered
<1>5. \A x \in Places : /\ catalog[x[1]].id \in Nat /\ catalog[x[1]] \in ToSet(catalog)
    BY <1>2, <1>3, <1>4
<1>6. \A x \in Places : PackageAt(x)[2] \in Readable(catalog[x[1]].id)
    <2> SUFFICES ASSUME NEW x \in Places PROVE PackageAt(x)[2] \in Readable(catalog[x[1]].id)
        OBVIOUS
    <2>1. ToSet(catalog[x[1]].packages) \subseteq Readable(catalog[x[1]].id)
        BY <1>1, <1>5 DEF OfItsMod
    <2>2. PackageAt(x)[2] \in ToSet(catalog[x[1]].packages)
        BY <1>4 DEF PackageAt, ToSet
    <2> QED
        BY <2>1, <2>2
<1>7. \A x, y \in Places : x[1] < y[1] => catalog[x[1]].id < catalog[y[1]].id
    BY <1>1, <1>4
<1>8. \A x, y \in Places : x[1] < y[1] <=> catalog[x[1]].id < catalog[y[1]].id
    <2> SUFFICES ASSUME NEW x \in Places, NEW y \in Places,
                        catalog[x[1]].id < catalog[y[1]].id, ~(x[1] < y[1])
                 PROVE  FALSE
        BY <1>7
    <2>1. y[1] < x[1] \/ x[1] = y[1]
        BY <1>4
    <2>2. y[1] < x[1] => catalog[y[1]].id < catalog[x[1]].id
        BY <1>7
    <2> QED
        BY <1>5, <2>1, <2>2
<1>9. \A x, y \in Places : Precede(x, y) => catalog[x[1]].id <= catalog[y[1]].id
    BY <1>5, <1>8 DEF Precede
<1> QED
    BY <1>5, <1>6, <1>8, <1>9

(* Nothing is submitted at the start.                                      *)
LEMMA RegistrationInitHolds == Init => RegistrationIInv
<1> SUFFICES ASSUME Init PROVE RegistrationIInv
    OBVIOUS
<1>1. activation = "never" /\ todo = {} /\ submitted = {} /\ registered = << >>
    BY DEF Init
<1> QED
    BY <1>1 DEF RegistrationIInv, RegistrationTypeOK, InOrder, AsPassed, EachOnceModByMod

(* Before the engine's function is found nothing is submitted.             *)
LEMMA BeforeSubmittingKeeps ==
    ASSUME RegistrationIInv, activation' # "submitting",
           activation' \in {"never", "resolving", "over"},
           activation' # "never" => walk' = "idle",
           activation' \in {"never", "resolving"} =>
               activation \in {"never", "resolving"} /\ UNCHANGED <<todo, submitted, registered>>
    PROVE  RegistrationIInv'
BY DEF RegistrationIInv, RegistrationTypeOK, InOrder, AsPassed, EachOnceModByMod

(* The walk begins with every place before it.                             *)
LEMMA ResolvedKeeps ==
    ASSUME RegistrationIInv, CatalogIInv, Resolved
    PROVE  RegistrationIInv'
<1>1. /\ activation = "resolving"
      /\ UNCHANGED <<catalog, walk, submitted, registered>>
      /\ \/ activation' = "over"
         \/ activation' = "submitting" /\ todo' = Places
    BY DEF Resolved, catalogVars, contents, cursor
<1>2. walk = "idle" /\ submitted = {} /\ registered = << >>
    BY <1>1 DEF RegistrationIInv, RegistrationTypeOK
<1>3. CASE activation' = "over"
    BY <1>1, <1>2, <1>3, BeforeSubmittingKeeps
<1>4. CASE activation' = "submitting" /\ todo' = Places
    <2>1. Passed' = {} /\ Places' = Places
        BY <1>1, <1>4, SameCatalog DEF Passed
    <2>2. RegistrationTypeOK'
        BY <1>1, <1>2, <1>4 DEF RegistrationTypeOK
    <2>3. InOrder'
        BY <1>4, <2>1 DEF InOrder
    <2>4. AsPassed'
        BY <1>1, <1>2, <2>1, Nothing DEF AsPassed
    <2>5. EachOnceModByMod'
        BY <1>1, <1>2, Nothing DEF EachOnceModByMod
    <2> QED
        BY <2>2, <2>3, <2>4, <2>5 DEF RegistrationIInv
<1> QED
    BY <1>1, <1>3, <1>4

(* One place more is passed: the ones before it stay the first of their    *)
(* identities, and it is the first of its own if that was not inserted.    *)
LEMMA SubmitKeeps ==
    ASSUME RegistrationIInv, CatalogIInv, Submit
    PROVE  RegistrationIInv'
<1>1. PICK x \in todo :
          /\ \A y \in todo : ~Precede(y, x)
          /\ todo' = todo \ {x}
          /\ submitted' = submitted \cup {IdAt(x)}
          /\ \/ (IdAt(x) \in submitted \/ ~FitsAt(x)) /\ registered' = registered
             \/ /\ IdAt(x) \notin submitted /\ FitsAt(x)
                /\ registered' = Append(registered, PackageAt(x))
    BY DEF Submit, IdAt, FitsAt
<1>2. activation = "submitting" /\ activation' = activation /\ UNCHANGED <<catalog, walk>>
    BY DEF Submit, catalogVars, contents, cursor
<1>3. /\ todo \subseteq Places
      /\ \A y \in Passed, z \in todo : Precede(y, z)
      /\ submitted = {IdAt(y) : y \in Passed}
      /\ ToSet(registered) = {PackageAt(z) : z \in {y \in Passed : FitsAt(y) /\ FirstOfItsId(y)}}
    BY <1>2 DEF RegistrationIInv, InOrder, AsPassed
<1>4. /\ registered \in Seq({PackageAt(z) : z \in Passed})
      /\ \A i, j \in DOMAIN registered :
             /\ registered[i][2].id = registered[j][2].id => i = j
             /\ i < j => registered[i][1] <= registered[j][1]
    BY <1>2 DEF RegistrationIInv, EachOnceModByMod
<1>5. x \in Places /\ x \notin Passed /\ Passed \subseteq Places
    BY <1>3 DEF Passed
<1>6. /\ Passed' = Passed \cup {x}
      /\ \A y \in Passed : Precede(y, x) /\ ~Precede(x, y)
      /\ ~Precede(x, x)
    <2>1. Passed' = Passed \cup {x}
        BY <1>1, <1>2, <1>3, SameCatalog DEF Passed
    <2>2. \A y \in Passed : Precede(y, x)
        BY <1>3
    <2> QED
        BY <1>5, <2>1, <2>2, PlacesOrdered
<1>7. \A y \in todo' : Precede(x, y)
    BY <1>1, <1>3, PlacesOrdered
<1>8. RegistrationTypeOK'
    BY <1>2 DEF RegistrationIInv, RegistrationTypeOK
<1>9. InOrder'
    BY <1>1, <1>2, <1>3, <1>6, <1>7, SameCatalog DEF InOrder
<1>10. /\ \A z : IdAt(z)' = IdAt(z) /\ FitsAt(z)' = FitsAt(z) /\ PackageAt(z)' = PackageAt(z)
       /\ \A z : FirstOfItsId(z)' <=> \A y \in Passed' : IdAt(y) = IdAt(z) => ~Precede(y, z)
    BY <1>2, SameCatalog DEF FirstOfItsId
<1>11. \A z \in Passed : FirstOfItsId(z)' <=> FirstOfItsId(z)
    BY <1>6, <1>10 DEF FirstOfItsId
<1>12. FirstOfItsId(x)' <=> IdAt(x) \notin submitted
    BY <1>3, <1>6, <1>10
<1>13. AsPassed'
    <2>1. submitted' = {IdAt(y) : y \in Passed'}
        BY <1>1, <1>3, <1>6
    <2>2. ToSet(registered') =
              {PackageAt(z) : z \in {y \in Passed' : FitsAt(y) /\ FirstOfItsId(y)'}}
        <3>1. CASE IdAt(x) \in submitted \/ ~FitsAt(x)
            <4>1. registered' = registered /\ ~(FitsAt(x) /\ FirstOfItsId(x)')
                BY <1>1, <1>12, <3>1
            <4>2. {y \in Passed' : FitsAt(y) /\ FirstOfItsId(y)'}
                      = {y \in Passed : FitsAt(y) /\ FirstOfItsId(y)}
                BY <1>6, <1>11, <4>1
            <4> QED
                BY <1>3, <4>1, <4>2
        <3>2. CASE IdAt(x) \notin submitted /\ FitsAt(x)
            <4>1. registered' = Append(registered, PackageAt(x))
                BY <1>1, <3>2
            <4>2. {y \in Passed' : FitsAt(y) /\ FirstOfItsId(y)'}
                      = {y \in Passed : FitsAt(y) /\ FirstOfItsId(y)} \cup {x}
                BY <1>6, <1>11, <1>12, <3>2
            <4>3. registered \in Seq({PackageAt(z) : z \in Passed} \cup {PackageAt(x)})
                BY <1>4, SeqMonotonic
            <4>4. ToSet(registered') = ToSet(registered) \cup {PackageAt(x)}
                BY <4>1, <4>3, ToSetAppend
            <4> QED
                BY <1>3, <4>2, <4>4
        <3> QED
            BY <3>1, <3>2
    <2> QED
        BY <1>10, <2>1, <2>2 DEF AsPassed
<1>14. EachOnceModByMod'
    <2> DEFINE S == {PackageAt(z) : z \in Passed \cup {x}}
               n == Len(registered)
    <2>1. registered \in Seq(S) /\ PackageAt(x) \in S
        BY <1>4, SeqMonotonic
    <2>2. {PackageAt(z) : z \in Passed}' = S
        BY <1>6, <1>10
    <2>3. CASE registered' = registered
        BY <1>4, <2>1, <2>2, <2>3 DEF EachOnceModByMod
    <2>4. CASE IdAt(x) \notin submitted /\ registered' = Append(registered, PackageAt(x))
        <3>1. n \in Nat /\ DOMAIN registered = 1 .. n
            BY <1>4, LenProperties
        <3>2. /\ registered' \in Seq(S)
              /\ DOMAIN registered' = 1 .. n + 1
              /\ \A i \in 1 .. n : registered'[i] = registered[i]
              /\ registered'[n + 1] = PackageAt(x)
            BY <2>1, <2>4, AppendProperties, LenProperties
        <3>3. \A i \in 1 .. n : \E z \in Passed : registered[i] = PackageAt(z)
            BY <1>4, <3>1
        <3> HIDE DEF n, S
        <3>4. ASSUME NEW i \in 1 .. n
              PROVE  /\ registered'[i][2].id # registered'[n + 1][2].id
                     /\ registered'[i][1] <= registered'[n + 1][1]
            <4>1. PICK z \in Passed : registered[i] = PackageAt(z)
                BY <3>3
            <4>2. registered'[i][2].id = IdAt(z) /\ registered'[n + 1][2].id = IdAt(x)
                BY <3>2, <4>1 DEF IdAt
            <4>3. IdAt(z) # IdAt(x)
                BY <1>3, <2>4
            <4>4. registered'[i][1] = catalog[z[1]].id /\ registered'[n + 1][1] = catalog[x[1]].id
                BY <3>2, <4>1 DEF PackageAt
            <4>5. catalog[z[1]].id <= catalog[x[1]].id
                BY <1>2, <1>5, <1>6, ModsInOrder DEF RegistrationIInv, RegistrationTypeOK
            <4> QED
                BY <4>2, <4>3, <4>4, <4>5
        <3>5. \A i \in 1 .. n + 1 : i \in 1 .. n \/ i = n + 1
            BY <3>1
        <3>6. catalog[x[1]].id \in Nat
            BY <1>2, <1>5, ModsInOrder DEF RegistrationIInv, RegistrationTypeOK
        <3>7. registered'[n + 1][1] <= registered'[n + 1][1]
            BY <3>2, <3>6 DEF PackageAt
        <3>8. \A i, j \in 1 .. n :
                  /\ registered'[i][2].id = registered'[j][2].id => i = j
                  /\ i < j => registered'[i][1] <= registered'[j][1]
            BY <1>4, <3>1, <3>2
        <3>9. \A i \in 1 .. n : ~(n + 1 < i)
            BY <3>1
        <3>10. \A i, j \in 1 .. n + 1 :
                  /\ registered'[i][2].id = registered'[j][2].id => i = j
                  /\ i < j => registered'[i][1] <= registered'[j][1]
            BY <3>4, <3>5, <3>7, <3>8, <3>9
        <3> QED
            BY <2>2, <3>2, <3>10 DEF EachOnceModByMod
    <2> QED
        BY <1>1, <2>3, <2>4
<1> QED
    BY <1>8, <1>9, <1>13, <1>14 DEF RegistrationIInv

(* Places of one identity come in the order of their mods and names.       *)
LEMMA PlacesBefore ==
    ASSUME CatalogIInv, walk = "idle",
           NEW x \in Places, NEW y \in Places, IdAt(x) = IdAt(y)
    PROVE  Precede(y, x) <=> Before(PackageAt(y), PackageAt(x))
<1> DEFINE p == PackageAt(x)[2]
           q == PackageAt(y)[2]
           l == catalog[x[1]].packages
<1>1. PackageAt(x) = <<catalog[x[1]].id, p>> /\ PackageAt(y) = <<catalog[y[1]].id, q>>
    BY DEF PackageAt
<1>2. /\ catalog[x[1]].id \in Nat /\ catalog[y[1]].id \in Nat
      /\ y[1] < x[1] <=> catalog[y[1]].id < catalog[x[1]].id
      /\ x[1] \in Nat /\ y[1] \in Nat /\ x[2] \in Nat /\ y[2] \in Nat
    BY ModsInOrder, PlacesOrdered
<1>3. x[1] < y[1] <=> catalog[x[1]].id < catalog[y[1]].id
    BY ModsInOrder
<1>4. p.id = q.id
    BY DEF IdAt
<1>5. /\ \A z \in Places : PackageAt(z)[2].name \in Nat /\ PackageAt(z)[2].id \in Nat
    <2> SUFFICES ASSUME NEW z \in Places
                 PROVE  PackageAt(z)[2].name \in Nat /\ PackageAt(z)[2].id \in Nat
        OBVIOUS
    <2> DEFINE m == catalog[z[1]].id
    <2>1. WellFormed(tree) /\ catalog \in Seq(Records) /\ z[1] \in DOMAIN catalog
        BY PlacesOrdered DEF CatalogIInv, CatalogTypeOK
    <2>2. m \in Mods
        <3>1. catalog[z[1]] \in Records
            BY <2>1, LenProperties
        <3> QED
            BY <3>1 DEF Records
    <2>3. PackageAt(z)[2] \in Readable(m)
        BY ModsInOrder
    <2> HIDE DEF m
    <2>4. PICK n \in DOMAIN tree[m] : IsReadable(m, n) /\ PackageAt(z)[2] = Package(m, n)
        BY <2>3, ReadableAt
    <2>5. n \in Nat /\ tree[m][n].id \in Nat
        BY <2>1, <2>2, <2>4 DEF Mods, WellFormed, IsReadable
    <2>6. Package(m, n).name = n /\ Package(m, n).id = tree[m][n].id
        BY DEF Package
    <2> QED
        BY <2>4, <2>5, <2>6
<1>6. p.name \in Nat /\ q.name \in Nat /\ p.id \in Nat
    BY <1>5
<1>7. ASSUME x[1] = y[1]
      PROVE  y[2] < x[2] <=> q.name < p.name
    <2>1. SortedList(l)
        BY ModsInOrder DEF CatalogIInv, ListedOnce, OfItsMod
    <2>2. x[2] \in DOMAIN l /\ y[2] \in DOMAIN l /\ p = l[x[2]] /\ q = l[y[2]]
        BY <1>7, PlacesOrdered DEF PackageAt
    <2> HIDE DEF l, p, q
    <2>3. y[2] < x[2] => Precedes(q, p)
        BY <2>1, <2>2 DEF SortedList
    <2>4. x[2] < y[2] => Precedes(p, q)
        BY <2>1, <2>2 DEF SortedList
    <2>5. Precedes(q, p) => q.name < p.name
        BY <1>4, <1>6 DEF Precedes
    <2>6. Precedes(p, q) => p.name < q.name
        BY <1>4, <1>6 DEF Precedes
    <2>7. x[2] = y[2] => p.name = q.name
        BY <2>2
    <2> QED
        BY <1>2, <1>6, <2>3, <2>4, <2>5, <2>6, <2>7
<1> HIDE DEF p, q, l
<1>8. Precede(y, x) <=> y[1] < x[1] \/ (y[1] = x[1] /\ y[2] < x[2])
    BY DEF Precede
<1>9. Before(PackageAt(y), PackageAt(x))
          <=> \/ catalog[y[1]].id < catalog[x[1]].id
              \/ catalog[y[1]].id = catalog[x[1]].id /\ q.name < p.name
    BY <1>1 DEF Before
<1>10. catalog[y[1]].id = catalog[x[1]].id <=> x[1] = y[1]
    BY <1>2, <1>3
<1> QED
    BY <1>2, <1>7, <1>8, <1>9, <1>10

(* Where nothing failed, the places of the catalog hold what the directory *)
(* holds.                                                                  *)
LEMMA PlacesHoldTheTree ==
    ASSUME CatalogIInv, walk = "idle", hurt = {}, ~cut
    PROVE  InTree = {PackageAt(x) : x \in Places}
<1>1. InTree = UNION {{<<m, p>> : p \in Readable(m)} : m \in Mods}
    BY DEF InTree, Mods
<1>2. ASSUME NEW m \in Mods, NEW p \in Readable(m)
      PROVE  \E x \in Places : PackageAt(x) = <<m, p>>
    <2>1. Complete(m)
        BY DEF CatalogIInv, CatalogTypeOK, Accounted
    <2>2. PICK i \in DOMAIN catalog : catalog[i].id = m /\ p \in ToSet(catalog[i].packages)
        BY <2>1 DEF Complete, ToSet
    <2>3. PICK j \in DOMAIN catalog[i].packages : p = catalog[i].packages[j]
        BY <2>2 DEF ToSet
    <2>4. <<i, j>> \in Places
        BY PlacesOrdered
    <2>5. PackageAt(<<i, j>>) = <<m, p>>
        BY <2>2, <2>3 DEF PackageAt
    <2> QED
        BY <2>4, <2>5
<1>3. ASSUME NEW x \in Places
      PROVE  \E m \in Mods : \E p \in Readable(m) : PackageAt(x) = <<m, p>>
    <2>1. catalog[x[1]].id \in Mods
        <3>1. catalog \in Seq(Records) /\ x[1] \in DOMAIN catalog
            BY PlacesOrdered DEF CatalogIInv, CatalogTypeOK
        <3>2. catalog[x[1]] \in Records
            BY <3>1, LenProperties
        <3> QED
            BY <3>2 DEF Records
    <2>2. PackageAt(x)[2] \in Readable(catalog[x[1]].id)
        BY ModsInOrder
    <2>3. PackageAt(x) = <<catalog[x[1]].id, PackageAt(x)[2]>>
        BY DEF PackageAt
    <2> QED
        BY <2>1, <2>2, <2>3
<1> QED
    BY <1>1, <1>2, <1>3

(* When the walk is over, the places passed are all that the directory     *)
(* holds, and the first of an identity is its first by mod and name.       *)
LEMMA RegistrationCorrect == CatalogIInv /\ RegistrationIInv => RegistersTheChosen
<1> SUFFICES ASSUME CatalogIInv, RegistrationIInv, activation = "submitting", todo = {}
             PROVE  RegistersTheChosen
    BY DEF RegistersTheChosen
<1>1. /\ walk = "idle" /\ Passed = Places
      /\ ToSet(registered) = {PackageAt(z) : z \in {y \in Passed : FitsAt(y) /\ FirstOfItsId(y)}}
      /\ \A i, j \in DOMAIN registered :
             /\ registered[i][2].id = registered[j][2].id => i = j
             /\ i < j => registered[i][1] <= registered[j][1]
    BY DEF RegistrationIInv, RegistrationTypeOK, AsPassed, EachOnceModByMod, Passed
<1>2. ASSUME hurt = {}, ~cut
      PROVE  ToSet(registered) = Chosen
    <2>1. InTree = {PackageAt(x) : x \in Places}
        BY <1>1, <1>2, PlacesHoldTheTree
    <2>2. ASSUME NEW x \in Places
          PROVE  FirstOfItsId(x) <=> \A y \in InTree : y[2].id = PackageAt(x)[2].id
                                                        => ~Before(y, PackageAt(x))
        <3>1. \A y \in Places : IdAt(y) = IdAt(x)
                                    => (Precede(y, x) <=> Before(PackageAt(y), PackageAt(x)))
            BY <1>1, PlacesBefore
        <3>2. FirstOfItsId(x) <=> \A y \in Places : IdAt(y) = IdAt(x)
                                                        => ~Before(PackageAt(y), PackageAt(x))
            BY <1>1, <3>1 DEF FirstOfItsId
        <3> QED
            BY <2>1, <3>2 DEF IdAt
    <2>3. Chosen = {PackageAt(z) : z \in {y \in Places : FitsAt(y) /\ FirstOfItsId(y)}}
        BY <2>1, <2>2 DEF Chosen, FitsAt
    <2> QED
        BY <1>1, <2>3
<1> QED
    BY <1>1, <1>2 DEF RegistersTheChosen

(* A step of the activation keeps what the search and the walk know.       *)
LEMMA StepKeeps ==
    ASSUME NativeIInv, CatalogIInv, RegistrationIInv, [Next]_vars
    PROVE  NativeIInv' /\ CatalogIInv' /\ RegistrationIInv'
<1>1. CASE Rescan
    <2>1. UNCHANGED nativeVars /\ UNCHANGED <<activation, todo, submitted, registered>>
          /\ activation = "never" /\ ScanMods
        BY <1>1 DEF Rescan, registrationVars
    <2> QED
        BY <2>1, NativeStepKeeps, ScanModsKeeps, BeforeSubmittingKeeps
<1>2. ASSUME NEW im \in Images, ActivateDiscovered(im)
      PROVE  NativeIInv' /\ CatalogIInv' /\ RegistrationIInv'
    <2>1. /\ UNCHANGED <<catalogVars>> /\ UNCHANGED <<walk, todo, submitted, registered>>
          /\ activation = "never" /\ walk = "idle" /\ activation' \in {"resolving", "over"}
          /\ UNCHANGED nativeVars \/ ScanUnique(im)
        BY <1>2 DEF ActivateDiscovered, catalogVars, cursor
    <2> QED
        BY <2>1, NativeStepKeeps, CatalogSame, BeforeSubmittingKeeps DEF NativeNext
<1>3. CASE Resolve
    <2>1. /\ UNCHANGED <<catalogVars>>
          /\ UNCHANGED <<walk, activation, todo, submitted, registered>>
          /\ activation = "resolving" /\ Search
        BY <1>3 DEF Resolve, catalogVars, cursor, registrationVars
    <2>2. walk = "idle"
        BY <2>1 DEF RegistrationIInv, RegistrationTypeOK
    <2> QED
        BY <2>1, <2>2, NativeStepKeeps, CatalogSame, BeforeSubmittingKeeps DEF NativeNext
<1>4. CASE Resolved
    <2>1. UNCHANGED <<catalogVars>> /\ Answered
        BY <1>4 DEF Resolved
    <2> QED
        BY <1>4, <2>1, NativeStepKeeps, CatalogSame, ResolvedKeeps DEF NativeNext
<1>5. CASE Submit
    <2>1. UNCHANGED <<catalogVars>> /\ UNCHANGED nativeVars
        BY <1>5 DEF Submit
    <2> QED
        BY <1>5, <2>1, NativeStepKeeps, CatalogSame, SubmitKeeps
<1>6. CASE Submitted
    <2>1. /\ UNCHANGED <<catalogVars>> /\ UNCHANGED nativeVars /\ UNCHANGED walk
          /\ activation = "submitting" /\ activation' = "over"
        BY <1>6 DEF Submitted, catalogVars, cursor
    <2>2. walk = "idle"
        BY <2>1 DEF RegistrationIInv, RegistrationTypeOK
    <2> QED
        BY <2>1, <2>2, NativeStepKeeps, CatalogSame, BeforeSubmittingKeeps
<1>7. CASE UNCHANGED vars
    <2>1. /\ UNCHANGED <<catalogVars>> /\ UNCHANGED nativeVars
          /\ UNCHANGED <<catalog, walk, activation, todo, submitted, registered>>
        BY <1>7 DEF vars, catalogVars, contents, cursor, registrationVars
    <2>2. RegistrationIInv'
        BY <2>1, SameCatalog DEF RegistrationIInv, RegistrationTypeOK, InOrder, AsPassed,
                                 EachOnceModByMod, Passed, FirstOfItsId
    <2> QED
        BY <2>1, <2>2, NativeStepKeeps, CatalogSame
<1> QED
    BY <1>1, <1>2, <1>3, <1>4, <1>5, <1>6, <1>7 DEF Next

(* The three invariants hold together.                                     *)
LEMMA InvariantHolds == Spec => [](NativeIInv /\ CatalogIInv /\ RegistrationIInv)
<1>1. Init => NativeIInv /\ CatalogIInv /\ RegistrationIInv
    BY NativeInitHolds, CatalogInitHolds, RegistrationInitHolds DEF Init
<1>2. NativeIInv /\ CatalogIInv /\ RegistrationIInv /\ [Next]_vars
          => (NativeIInv /\ CatalogIInv /\ RegistrationIInv)'
    BY StepKeeps
<1> QED
    BY <1>1, <1>2, PTL DEF Spec

(* The activation, too, resolves the engine's function at the only match.  *)
THEOREM ActivationFindsTheOnlyMatch == Spec => []ResolvesTheOnlyMatch
<1>1. NativeIInv => ResolvesTheOnlyMatch
    BY DEF NativeIInv
<1> QED
    BY <1>1, InvariantHolds, PTL

(* Whatever the directory holds, in whatever order it is enumerated and    *)
(* however many calls of the file system fail: a scan loses only what the  *)
(* failures were about.                                                    *)
THEOREM FailuresStayLocal == Spec => []ErrorsStayLocal
<1> QED
    BY CatalogCorrect, InvariantHolds, PTL

(* Whatever the directory holds: what the engine is given is a function of *)
(* the directory, each identity once and mod by mod.                       *)
THEOREM RegistersWhatItShould == Spec => []RegistersTheChosen
<1> QED
    BY RegistrationCorrect, InvariantHolds, PTL
================================================================================
