------------------------------ MODULE GameLogProofs ------------------------------
(***************************************************************************)
(* The thresholds are given back, for every number of categories, blocks,   *)
(* levels, sessions and writes of the engine.                               *)
(***************************************************************************)
EXTENDS GameLog, TLAPS

(* The loader's hold on the thresholds: a block that is being saved is not *)
(* the one that is saved, so the loader has not written it yet.            *)
NotYetHeld == pc = "save" => savedBlock # block

Held == slot # None /\ savedBlock = slot

(* What the loop in progress has behind it.                                *)
Passed == {c \in Category : c < i}

(* The original of a threshold that the loader has written is kept until   *)
(* the threshold is given back.                                            *)
Kept ==
    \A c \in Category \ alike :
        level[c] # own[c] =>
            /\ Held /\ level[c] = verbosity /\ saved[c] = own[c]
            /\ pc = "give back" => c \notin Passed
            /\ pc # "save"

(* A stop ends with every threshold given back.                            *)
Ended ==
    ~capture => \/ pc \in {"restore", "give back"}
                \/ \A c \in Category \ alike : level[c] = own[c]

(* A threshold that was at a verbosity from the beginning looks like one   *)
(* that the loader has written: its original is kept all the same.         *)
Lookalikes ==
    \A c \in Category \ alike :
        /\ Held /\ pc # "save" /\ own[c] \in Verbosities => saved[c] = own[c]
        /\ pc = "save" /\ block = slot /\ c \in Passed /\ own[c] \in Verbosities =>
              saved[c] = own[c]

IInv == TypeOK /\ NotYetHeld /\ Kept /\ Lookalikes /\ Ended

(* The loops run from the first category to the last.                      *)
LEMMA NothingPassed == i' = 1 => Passed' = {}
BY GameLogAssumption DEF Passed, Category

LEMMA OnePassed ==
    ASSUME i \in Category, i < Count, i' = i + 1
    PROVE  i # Count /\ Passed' = Passed \cup {i}
BY GameLogAssumption DEF Passed, Category

LEMMA AllPassed ==
    ASSUME i \in Category, ~(i < Count)
    PROVE  i = Count /\ Category = Passed \cup {i}
BY GameLogAssumption DEF Passed, Category

--------------------------------------------------------------------------------
(* Every variable keeps its type, and thresholds runs only as far as the   *)
(* call that started it has got.                                           *)
THEOREM TypeCorrect == Spec => []TypeOK
<1>1. Init => TypeOK
  <2> SUFFICES ASSUME Init PROVE TypeOK
      OBVIOUS
  <2>1. i \in Category /\ sessions \in 0 .. MaxSessions /\ writes \in 0 .. MaxWrites
      BY GameLogAssumption DEF Init, Category
  <2>2. 0 \in Levels
      BY GameLogAssumption DEF Levels
  <2> QED
      BY <2>1, <2>2, GameLogAssumption DEF Init, TypeOK
<1>2. TypeOK /\ [Next]_vars => TypeOK'
  <2> SUFFICES ASSUME TypeOK, [Next]_vars PROVE TypeOK'
      OBVIOUS
  <2>b. i \in Category /\ sessions \in 0 .. MaxSessions /\ writes \in 0 .. MaxWrites
      BY DEF TypeOK
  <2>0. /\ i \in Category /\ sessions \in 0 .. MaxSessions /\ writes \in 0 .. MaxWrites
        /\ 1 \in Category
        /\ i < Count => i + 1 \in Category /\ i # Count
        /\ sessions > 0 => sessions - 1 \in 0 .. MaxSessions
        /\ writes > 0 => writes - 1 \in 0 .. MaxWrites
      BY <2>b, GameLogAssumption DEF Category
  <2>a. Verbosities \subseteq Levels /\ EngineLevels \subseteq Levels
      BY DEF Levels
  <2> USE DEF TypeOK, theirs, engineVars, globals, locals, Loop
  <2>1. CASE Start
      BY <2>0, <2>1 DEF Start
  <2>2. CASE Update \/ Stop
      BY <2>2 DEF Update, Stop
  <2>3. CASE Look
      BY <2>0, <2>3 DEF Look
  <2>4. CASE Except
      BY <2>4 DEF Except
  <2>5. CASE Save
      BY <2>0, <2>5 DEF Save, Found
  <2>6. CASE Exchange
    <3>1. level' \in [Category -> Levels] /\ saved' \in [Category -> Levels]
        BY <2>0, <2>a, <2>6 DEF Exchange, Found, Put
    <3> QED
        BY <2>0, <2>6, <3>1 DEF Exchange, Advance
  <2>7. CASE GiveBack
    <3>1. level' \in [Category -> Levels]
        BY <2>0, <2>7 DEF GiveBack, Put
    <3> QED
        BY <2>0, <2>7, <3>1 DEF GiveBack, Advance
  <2>8. CASE Configure
      BY <2>0, <2>a, <2>8 DEF Configure
  <2>9. CASE Reallocate
    <3>1. level' \in [Category -> Levels]
        BY <2>a, <2>9 DEF Reallocate
    <3> QED
        BY <2>0, <2>9, <3>1 DEF Reallocate
  <2>10. CASE UNCHANGED vars
      BY <2>10 DEF vars
  <2> QED
      BY <2>1, <2>2, <2>3, <2>4, <2>5, <2>6, <2>7, <2>8, <2>9, <2>10 DEF Next, Thresholds
<1> QED
    BY <1>1, <1>2, PTL DEF Spec

(* Every access keeps the originals of what the loader has written.        *)
LEMMA HeldStep ==
    TypeOK /\ NotYetHeld /\ Kept /\ Lookalikes /\ Ended /\ [Next]_vars =>
        NotYetHeld' /\ Kept' /\ Lookalikes'
<1> SUFFICES ASSUME TypeOK, NotYetHeld, Kept, Lookalikes, Ended, [Next]_vars
             PROVE  NotYetHeld' /\ Kept' /\ Lookalikes'
    OBVIOUS
<1>0. /\ level \in [Category -> Levels] /\ own \in [Category -> Levels]
      /\ saved \in [Category -> Levels] /\ alike \subseteq Category /\ i \in Category
      /\ pc \in {"save", "exchange", "give back"} => block # None
      /\ pc \in {"exchange", "give back"} => savedBlock = block
      /\ verbosity \in Verbosities
    BY DEF TypeOK
<1>a. ASSUME i' = i PROVE Passed' = Passed
    BY <1>a DEF Passed
<1> USE DEF NotYetHeld, Kept, Lookalikes, Held, theirs, engineVars, globals, locals, Loop
<1>1. CASE Start
  <2>1. \A c \in Category \ alike : level[c] = own[c]
      BY <1>1 DEF Start, Ended
  <2> QED
      BY <1>a, <1>1, <2>1 DEF Start
<1>2. CASE Update
    BY <1>a, <1>2 DEF Update
<1>3. CASE Stop
    BY <1>a, <1>3 DEF Stop
<1>4. CASE Look
  <2>1. CASE pc' = "idle"
      BY <1>a, <1>4, <2>1 DEF Look
  <2>2. CASE pc' # "idle"
    <3>1. Passed' = {}
        BY <1>4, <2>2, NothingPassed DEF Look
    <3>2. /\ UNCHANGED <<level, own, alike, saved, verbosity, savedBlock, slot>>
          /\ block' = slot /\ slot # None
          /\ pc # "save" /\ pc' \in {"save", "exchange", "give back"}
          /\ pc' = "save" => slot # savedBlock
        BY <1>4, <2>2 DEF Look
    <3> QED
        BY <1>0, <3>1, <3>2
  <2> QED
      BY <2>1, <2>2
<1>5. CASE Except
    BY <1>0, <1>a, <1>5 DEF Except
<1>6. CASE Save
  <2>1. \A c \in Category \ alike : level[c] = own[c]
      BY <1>6 DEF Save
  <2>2. /\ saved' \in [Category -> Levels]
        /\ \A c \in Category : c # i => saved'[c] = saved[c]
        /\ block = slot => saved'[i] = level[i]
      BY <1>0, <1>6 DEF Save, Found
  <2>3. CASE i < Count
    <3>1. Passed' = Passed \cup {i}
        BY <1>0, <1>6, <2>3, OnePassed DEF Save
    <3>2. /\ UNCHANGED <<level, own, alike, verbosity, savedBlock, slot, block>>
          /\ pc = "save" /\ pc' = "save"
        BY <1>6, <2>3 DEF Save
    <3> QED
        BY <1>0, <2>1, <2>2, <3>1, <3>2
  <2>4. CASE ~(i < Count)
      BY <1>0, <1>6, <2>1, <2>2, <2>4, AllPassed DEF Save
  <2> QED
      BY <2>3, <2>4
<1>7. CASE Exchange
  <2>1. /\ saved' \in [Category -> Levels] /\ level' \in [Category -> Levels]
        /\ \A c \in Category : c # i => saved'[c] = saved[c] /\ level'[c] = level[c]
        /\ block = slot => /\ level'[i] = verbosity
                           /\ saved'[i] = IF level[i] = verbosity THEN saved[i] ELSE level[i]
        /\ block # slot => level' = level
      BY <1>0, <1>7 DEF Exchange, Found, Put, Levels
  <2>2. pc' \in {"exchange", "idle"}
      BY <1>7 DEF Exchange, Advance
  <2>3. UNCHANGED <<slot, own, alike, verbosity, savedBlock, block>> /\ pc = "exchange"
      BY <1>7 DEF Exchange
  <2> QED
      BY <1>0, <2>1, <2>2, <2>3
<1>8. CASE GiveBack
  <2>1. /\ level' \in [Category -> Levels]
        /\ \A c \in Category : c # i => level'[c] = level[c]
        /\ block = slot => level'[i] = IF level[i] = verbosity THEN saved[i] ELSE level[i]
        /\ block # slot => level' = level
      BY <1>0, <1>8 DEF GiveBack, Put
  <2>2. UNCHANGED <<slot, own, alike, saved, verbosity, block>> /\ pc = "give back"
      BY <1>8 DEF GiveBack
  <2>3. block = slot /\ i \notin alike => level'[i] = own[i]
      BY <1>0, <2>1, <2>2
  <2>4. CASE i < Count
    <3>1. i # Count /\ Passed' = Passed \cup {i} /\ pc' = "give back"
        BY <1>0, <1>8, <2>4, OnePassed DEF GiveBack, Advance
    <3>2. savedBlock' = savedBlock
        BY <1>8, <3>1 DEF GiveBack
    <3> QED
        BY <1>0, <2>1, <2>2, <2>3, <3>1, <3>2
  <2>5. CASE ~(i < Count)
    <3>1. savedBlock' = None /\ pc' = "idle" /\ Category = Passed \cup {i}
        BY <1>0, <1>8, <2>5, AllPassed DEF GiveBack, Advance
    <3> QED
        BY <1>0, <2>1, <2>2, <2>3, <3>1
  <2> QED
      BY <2>4, <2>5
<1>9. CASE Configure
    BY <1>0, <1>a, <1>9 DEF Configure
<1>10. CASE Reallocate
    BY <1>0, <1>a, <1>10 DEF Reallocate
<1>11. CASE UNCHANGED vars
    BY <1>a, <1>11 DEF vars
<1> QED
    BY <1>1, <1>2, <1>3, <1>4, <1>5, <1>6, <1>7, <1>8, <1>9, <1>10, <1>11 DEF Next, Thresholds

(* The last access of a stop gives the last threshold back.                *)
LEMMA EndedStep ==
    TypeOK /\ Kept /\ Lookalikes /\ Ended /\ [Next]_vars => Ended'
<1> SUFFICES ASSUME TypeOK, Kept, Lookalikes, Ended, [Next]_vars PROVE Ended'
    OBVIOUS
<1>0. /\ level \in [Category -> Levels] /\ i \in Category
      /\ pc = "give back" => savedBlock = block /\ block # None
      /\ pc \in {"apply", "save", "exchange"} => capture
    BY DEF TypeOK
<1> DEFINE AllBack == \A c \in Category \ alike : level[c] = own[c]
<1>a. ASSUME UNCHANGED <<level, own, alike, capture, pc>> PROVE Ended'
    BY <1>a DEF Ended
<1> USE DEF theirs, engineVars, globals, locals, Loop
<1>1. CASE Start
  <2>1. AllBack
      BY <1>1 DEF Start, Ended
  <2> QED
      BY <1>1, <2>1 DEF Start, Ended
<1>2. CASE Update
    BY <1>2 DEF Update, Ended
<1>3. CASE Stop
    BY <1>3 DEF Stop, Ended
<1>4. CASE Look
  <2>1. CASE pc = "apply"
      BY <1>0, <1>4, <2>1 DEF Look, Ended
  <2>2. CASE pc = "restore" /\ pc' = "idle"
    <3>1. ~Held
        BY <1>4, <2>2 DEF Look, Held
    <3>2. AllBack
        BY <3>1 DEF Kept
    <3>3. UNCHANGED <<level, own, alike>>
        BY <1>4 DEF Look
    <3> QED
        BY <3>2, <3>3 DEF Ended
  <2>3. CASE pc = "restore" /\ pc' # "idle"
    <3>1. pc' = "give back"
        BY <1>4, <2>3 DEF Look
    <3> QED
        BY <3>1 DEF Ended
  <2> QED
      BY <1>4, <2>1, <2>2, <2>3 DEF Look
<1>5. CASE Except
  <2>1. CASE pc = "give back"
    <3>1. ~Held
        BY <1>0, <1>5, <2>1 DEF Except, Held
    <3>2. AllBack
        BY <3>1 DEF Kept
    <3>3. UNCHANGED <<level, own, alike>>
        BY <1>5 DEF Except
    <3> QED
        BY <3>2, <3>3 DEF Ended
  <2>2. CASE pc # "give back"
      BY <1>0, <1>5, <2>2 DEF Except, Ended
  <2> QED
      BY <2>1, <2>2
<1>6. CASE Save \/ Exchange
  <2>1. pc \in {"save", "exchange"} /\ capture' = capture
      BY <1>6 DEF Save, Exchange
  <2> QED
      BY <1>0, <2>1 DEF Ended
<1>7. CASE GiveBack
  <2>1. CASE i < Count
    <3>1. pc' = "give back"
        BY <1>7, <2>1 DEF GiveBack, Advance
    <3> QED
        BY <3>1 DEF Ended
  <2>2. CASE ~(i < Count)
    <3>1. /\ level' \in [Category -> Levels]
          /\ \A c \in Category : c # i => level'[c] = level[c]
          /\ block = slot => level'[i] = IF level[i] = verbosity THEN saved[i] ELSE level[i]
          /\ block # slot => level' = level
        BY <1>0, <1>7 DEF GiveBack, Put, TypeOK
    <3>2. /\ UNCHANGED <<own, alike, slot>> /\ pc = "give back"
          /\ Category = Passed \cup {i} /\ savedBlock = block
        BY <1>0, <1>7, <2>2, AllPassed DEF GiveBack
    <3>v. verbosity \in Verbosities
        BY DEF TypeOK
    <3>3. AllBack'
        BY <1>0, <3>1, <3>2, <3>v DEF Kept, Lookalikes, Held
    <3> QED
        BY <3>3 DEF Ended
  <2> QED
      BY <2>1, <2>2
<1>8. CASE Configure
  <2>1. \A c \in Category : level[c] = own[c] => level'[c] = own'[c]
      BY <1>8 DEF Configure, TypeOK
  <2>2. \A c \in Category \ alike' : c \in alike => level'[c] = own'[c]
      BY <1>8 DEF Configure, TypeOK
  <2>3. capture' = capture /\ pc' = pc
      BY <1>8 DEF Configure
  <2> QED
      BY <2>1, <2>2, <2>3 DEF Ended
<1>9. CASE Reallocate
  <2>1. level' = own'
      BY <1>9 DEF Reallocate
  <2> QED
      BY <2>1 DEF Ended
<1>10. CASE UNCHANGED vars
    BY <1>a, <1>10 DEF vars
<1> QED
    BY <1>1, <1>2, <1>3, <1>4, <1>5, <1>6, <1>7, <1>8, <1>9, <1>10 DEF Next, Thresholds

(* At the start the loader holds nothing and owes nothing.                 *)
LEMMA Invariance == Spec => []IInv
<1>1. Init => NotYetHeld /\ Kept /\ Lookalikes /\ Ended
  <2> SUFFICES ASSUME Init PROVE NotYetHeld /\ Kept /\ Lookalikes /\ Ended
      OBVIOUS
  <2>1. own = level /\ pc = "idle" /\ ~Held
      BY GameLogAssumption DEF Init, Held
  <2> QED
      BY <2>1 DEF NotYetHeld, Kept, Lookalikes, Ended
<1>2. TypeOK /\ NotYetHeld /\ Kept /\ Lookalikes /\ Ended /\ [Next]_vars =>
          (NotYetHeld /\ Kept /\ Lookalikes /\ Ended)'
    BY HeldStep, EndedStep
<1> QED
    BY <1>1, <1>2, TypeCorrect, PTL DEF Spec, IInv

(* After a stop every threshold is the engine's, but for those where it    *)
(* wrote a verbosity itself.                                               *)
THEOREM ThresholdsComeBack == Spec => []GivenBack
<1>1. IInv => GivenBack
    BY DEF IInv, Ended, GivenBack
<1> QED
    BY <1>1, Invariance, PTL

(* No threshold is ever anything but the engine's or the loader's.         *)
THEOREM NoThirdValue == Spec => []OnlyTwoValues
<1>1. IInv => OnlyTwoValues
    BY DEF IInv, Kept, OnlyTwoValues
<1> QED
    BY <1>1, Invariance, PTL
================================================================================
