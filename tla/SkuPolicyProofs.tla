---------------------------- MODULE SkuPolicyProofs ----------------------------
(***************************************************************************)
(* What SkuPolicy promises, for every number of calls and of writes of the  *)
(* engine, and what it still promises among the starts, deaths and edits of *)
(* SkuStart.                                                                *)
(***************************************************************************)
EXTENDS SkuStart, TLAPS

(* Where the protection of the page stands during a call: while set_gate   *)
(* has the page writable, or still owes its protection, it knows the       *)
(* game's own.                                                             *)
Owing ==
    /\ restore = "stock"
    /\ ~pending => protection = "stock"
    /\ pending => known
    /\ pc \in {"exchange", "restore"} => pending
    /\ pc = "look" => ~known /\ ~pending
    /\ active => ~pending

(* The byte while the loader holds it: it is the engine's, or the engine   *)
(* asks for signatures and the loader has put 0 there and will put 1 back. *)
Held ==
    /\ engine = 0 => original = 0
    /\ gate = engine \/ (gate = 0 /\ engine = 1 /\ original = 1)

Holding ==
    /\ known => Held
    /\ ~known => gate = engine
    /\ pc = "restore" /\ purpose # "install" => gate = engine

(* What the exchange has done, or the engine has undone since.             *)
Opened ==
    /\ active /\ ~disturbed => gate = 0
    /\ pc = "restore" /\ purpose = "install" /\ ~disturbed => gate = 0
    /\ pc \in {"protect", "exchange"} /\ purpose = "install" /\ ~disturbed =>
            gate = original

--------------------------------------------------------------------------------
LEMMA TypeStep == TypeOK /\ [Next]_vars => TypeOK'
<1> SUFFICES ASSUME TypeOK, [Next]_vars PROVE TypeOK'
    OBVIOUS
<1> USE SkuPolicyAssumption DEF TypeOK, memory, globals, history
<1>1. CASE Install
  <2>1. CASE active
      BY <1>1, <2>1 DEF Install, Return
  <2>2. CASE ~active /\ known
      BY <1>1, <2>2 DEF Install, SetGate, Return
  <2>3. CASE ~active /\ ~known
      BY <1>1, <2>3 DEF Install, SetGate, Return
  <2> QED
      BY <2>1, <2>2, <2>3
<1>2. CASE Look
    BY <1>2 DEF Look, Return, SetGate
<1>3. CASE Uninstall
  <2>1. CASE known
    <3>1. /\ pc' = "protect" /\ purpose' = "uninstall" /\ active' = FALSE
          /\ calls' \in Nat
          /\ UNCHANGED <<memory, known, original, pending, restore, answer, history,
                         writes>>
        BY <1>3, <2>1, SMTT(30) DEF Uninstall, SetGate
    <3> QED
        BY <2>1, <3>1
  <2>2. CASE ~known
      BY <1>3, <2>2 DEF Uninstall, Return
  <2> QED
      BY <2>1, <2>2
<1>4. CASE Protect
  <2>1. CASE pc' = "exchange"
      BY <1>4, <2>1 DEF Protect, Fail, Return, SetGate
  <2>2. CASE pc' # "exchange"
      BY <1>4, <2>2 DEF Protect, Fail, Return, SetGate
  <2> QED
      BY <2>1, <2>2
<1>5. CASE Exchange
    BY <1>5 DEF Exchange
<1>6. CASE Restore
  <2>1. CASE Succeed
    <3>1. CASE purpose = "install"
        BY <1>6, <2>1, <3>1 DEF Restore, Succeed, Return
    <3>2. CASE purpose = "retry"
        BY <1>6, <2>1, <3>2 DEF Restore, Succeed, Fail, Return, SetGate
    <3>3. CASE purpose \in {"undo", "uninstall"}
        BY <1>6, <2>1, <3>3 DEF Restore, Succeed, Fail, Return, SetGate
    <3> QED
        BY <3>1, <3>2, <3>3
  <2>2. CASE Fail
    <3>1. CASE purpose = "install"
        BY <1>6, <2>2, <3>1 DEF Restore, Fail, SetGate
    <3>2. CASE purpose # "install"
        BY <1>6, <2>2, <3>2 DEF Restore, Fail, Return
    <3> QED
        BY <3>1, <3>2
  <2> QED
      BY <1>6, <2>1, <2>2 DEF Restore
<1>7. CASE EngineWrite
    BY <1>7 DEF EngineWrite
<1>8. CASE UNCHANGED vars
    BY <1>8 DEF vars
<1> QED
    BY <1>1, <1>2, <1>3, <1>4, <1>5, <1>6, <1>7, <1>8 DEF Next

(* Every variable keeps its type, and set_gate is only ever applied to a   *)
(* byte that install has found.                                            *)
THEOREM TypeCorrect == Spec => []TypeOK
<1>1. Init => TypeOK
    BY SkuPolicyAssumption DEF Init, TypeOK
<1>2. TypeOK /\ [Next]_vars => TypeOK'
    BY TypeStep
<1> QED
    BY <1>1, <1>2, PTL DEF Spec

LEMMA OwingStep == TypeOK /\ Owing /\ [Next]_vars => Owing'
<1> SUFFICES ASSUME TypeOK, Owing, [Next]_vars PROVE Owing'
    OBVIOUS
<1> USE DEF TypeOK, Owing, memory, globals, history
<1>1. CASE Install
    BY <1>1 DEF Install, Return, SetGate
<1>2. CASE Look
    BY <1>2 DEF Look, Return, SetGate
<1>3. CASE Uninstall
    BY <1>3 DEF Uninstall, Return, SetGate
<1>4. CASE Protect
  <2>1. CASE pc' = "exchange"
      BY <1>4, <2>1 DEF Protect, Fail, Return, SetGate
  <2>2. CASE pc' # "exchange"
      BY <1>4, <2>2 DEF Protect, Fail, Return, SetGate
  <2> QED
      BY <2>1, <2>2
<1>5. CASE Exchange
    BY <1>5 DEF Exchange
<1>6. CASE Restore
    BY <1>6 DEF Restore, Succeed, Fail, Return, SetGate
<1>7. CASE EngineWrite
    BY <1>7 DEF EngineWrite
<1>8. CASE UNCHANGED vars
    BY <1>8 DEF vars
<1> QED
    BY <1>1, <1>2, <1>3, <1>4, <1>5, <1>6, <1>7, <1>8 DEF Next

LEMMA OwingHolds == Spec => []Owing
<1>1. Init => Owing
    BY DEF Init, Owing
<1>2. TypeOK /\ Owing /\ [Next]_vars => Owing'
    BY OwingStep
<1> QED
    BY <1>1, <1>2, TypeCorrect, PTL DEF Spec

(* The page gets back the protection that the game gave it, or the loader  *)
(* remembers that it owes it.                                              *)
THEOREM ProtectionComesBack == Spec => []ProtectionIsOwed
<1>1. Owing => ProtectionIsOwed
    BY DEF Owing, ProtectionIsOwed
<1> QED
    BY <1>1, OwingHolds, PTL

LEMMA HoldingStep ==
    ASSUME EngineValues \subseteq {1}
    PROVE  TypeOK /\ Owing /\ Holding /\ [Next]_vars => Holding'
<1> SUFFICES ASSUME TypeOK, Owing, Holding, [Next]_vars PROVE Holding'
    OBVIOUS
<1> USE DEF TypeOK, Holding, Held, memory, globals, history
<1>1. CASE Install
    BY <1>1 DEF Install, Return, SetGate
<1>2. CASE Look
  <2>1. CASE pc' = "idle"
      BY <1>2, <2>1 DEF Look, Return, SetGate
  <2>2. CASE pc' = "protect"
      BY <1>2, <2>2 DEF Look, Return, SetGate, Owing
  <2> QED
      BY <1>2, <2>1, <2>2 DEF Look, Return, SetGate
<1>3. CASE Uninstall
    BY <1>3 DEF Uninstall, Return, SetGate
<1>4. CASE Protect
    BY <1>4 DEF Protect, Fail, Return, SetGate
<1>5. CASE Exchange
    BY <1>5 DEF Exchange, Owing
<1>6. CASE Restore
    BY <1>6 DEF Restore, Succeed, Fail, Return, SetGate
<1>7. CASE EngineWrite
    BY <1>7 DEF EngineWrite
<1>8. CASE UNCHANGED vars
    BY <1>8 DEF vars
<1> QED
    BY <1>1, <1>2, <1>3, <1>4, <1>5, <1>6, <1>7, <1>8 DEF Next

(* As long as the engine itself only ever asks for signatures, what the    *)
(* loader lets go of is the engine's own value.                            *)
THEOREM GateComesBack ==
    ASSUME EngineValues \subseteq {1}
    PROVE  Spec => []GateIsGivenBack
<1>1. Init => Holding
    BY DEF Init, Holding
<1>2. TypeOK /\ Owing /\ Holding /\ [Next]_vars => Holding'
    BY HoldingStep
<1>3. Holding => GateIsGivenBack
    BY DEF Holding, GateIsGivenBack
<1> QED
    BY <1>1, <1>2, <1>3, TypeCorrect, OwingHolds, PTL DEF Spec

LEMMA OpenedStep == TypeOK /\ Owing /\ Opened /\ [Next]_vars => Opened'
<1> SUFFICES ASSUME TypeOK, Owing, Opened, [Next]_vars PROVE Opened'
    OBVIOUS
<1> USE DEF TypeOK, Opened, memory, globals, history
<1>1. CASE Install
    BY <1>1 DEF Install, Return, SetGate
<1>2. CASE Look
    BY <1>2 DEF Look, Return, SetGate
<1>3. CASE Uninstall
    BY <1>3 DEF Uninstall, Return, SetGate
<1>4. CASE Protect
  <2>1. CASE pc' = "exchange"
      BY <1>4, <2>1 DEF Protect, Fail, Return, SetGate
  <2>2. CASE pc' # "exchange"
      BY <1>4, <2>2 DEF Protect, Fail, Return, SetGate
  <2> QED
      BY <2>1, <2>2
<1>5. CASE Exchange
    BY <1>5 DEF Exchange
<1>6. CASE Restore
    BY <1>6 DEF Restore, Succeed, Fail, Return, SetGate
<1>7. CASE EngineWrite
    BY <1>7 DEF EngineWrite
<1>8. CASE UNCHANGED vars
    BY <1>8 DEF vars
<1> QED
    BY <1>1, <1>2, <1>3, <1>4, <1>5, <1>6, <1>7, <1>8 DEF Next

(* An active policy means an open gate, unless the engine closes it.       *)
THEOREM OpenWhileActive == Spec => []ActiveMeansOpen
<1>1. Init => Opened
    BY DEF Init, Opened
<1>2. TypeOK /\ Owing /\ Opened /\ [Next]_vars => Opened'
    BY OpenedStep
<1>3. Opened => ActiveMeansOpen
    BY DEF Opened, ActiveMeansOpen
<1> QED
    BY <1>1, <1>2, <1>3, TypeCorrect, OwingHolds, PTL DEF Spec

--------------------------------------------------------------------------------
(* The same among starts, deaths and edits: every step of SkuStart is one   *)
(* of the policy's, or leaves it alone, or begins it anew in another        *)
(* process.                                                                *)

Places == {"down", "create", "write", "delete", "policy", "opening", "auto",
           "unsigned", "convert", "up", "close", "closing"}

Sound == TypeOK /\ Owing /\ Opened

LEMMA PolicyMoves == [StartNext]_startVars => [Next]_vars \/ FreshProcess
<1> SUFFICES ASSUME [StartNext]_startVars, ~FreshProcess PROVE [Next]_vars
    OBVIOUS
<1> USE DEF policyVars
<1>1. CASE UNCHANGED startVars
    BY <1>1 DEF startVars
<1>2. ASSUME NEW l \in Loaders,
             Begin(l) \/ Create(l) \/ WriteDefaults(l) \/ DeletePartial(l) \/ Die(l)
      PROVE  [Next]_vars
    BY <1>2 DEF Begin, Create, WriteDefaults, DeletePartial, Die
<1>3. CASE InstallPolicy \/ UninstallPolicy
    BY <1>3 DEF InstallPolicy, UninstallPolicy, Next
<1>4. CASE LookAsConfigured \/ SetGateStep
    BY <1>4 DEF LookAsConfigured, SetGateStep, Next
<1>5. CASE PolicyReturned \/ OtherPartFails \/ ReadAutoDecrypt \/ ReadAllowUnsigned
    BY <1>5 DEF PolicyReturned, OtherPartFails, ReadAutoDecrypt, ReadAllowUnsigned
<1>6. CASE Convert \/ Shutdown \/ Closed \/ OtherConverts \/ Edit
    BY <1>6 DEF Convert, Shutdown, Closed, OtherConverts, Edit
<1>7. CASE \E l \in Others : OtherEnds(l)
    BY <1>7 DEF OtherEnds
<1>8. CASE EngineWrites
    BY <1>8 DEF EngineWrites, Next
<1> QED
    BY <1>1, <1>2, <1>3, <1>4, <1>5, <1>6, <1>7, <1>8 DEF StartNext

LEMMA SoundHolds == StartSpec => []Sound
<1>1. StartInit => Sound
    BY SkuPolicyAssumption DEF StartInit, Init, Sound, TypeOK, Owing, Opened
<1>2. Sound /\ [StartNext]_startVars => Sound'
  <2>1. ASSUME Sound, [Next]_vars PROVE Sound'
      BY <2>1, TypeStep, OwingStep, OpenedStep DEF Sound
  <2>2. ASSUME Sound, FreshProcess PROVE Sound'
      BY <2>2 DEF Sound, FreshProcess, TypeOK, Owing, Opened
  <2> QED
      BY <2>1, <2>2, PolicyMoves
<1> QED
    BY <1>1, <1>2, PTL DEF StartSpec

(* However many loaders start, die and meet edits of modloader.ini, between *)
(* two calls the page has the game's protection or the loader knows which  *)
(* one it owes, and an active policy means an open gate.                   *)
THEOREM PolicyHoldsAmongStarts == StartSpec => [](ProtectionIsOwed /\ ActiveMeansOpen)
<1>1. Sound => ProtectionIsOwed /\ ActiveMeansOpen
    BY DEF Sound, Owing, Opened, ProtectionIsOwed, ActiveMeansOpen
<1> QED
    BY <1>1, SoundHolds, PTL

(* And what the loader lets go of is the engine's own value, in each of the *)
(* processes.                                                              *)
THEOREM GateComesBackAmongStarts ==
    ASSUME EngineValues \subseteq {1}
    PROVE  StartSpec => []GateIsGivenBack
<1>1. StartInit => Holding
    BY DEF StartInit, Init, Holding
<1>2. Sound /\ Holding /\ [StartNext]_startVars => Holding'
  <2>1. ASSUME Sound, Holding, [Next]_vars PROVE Holding'
      BY <2>1, HoldingStep DEF Sound
  <2>2. ASSUME FreshProcess PROVE Holding'
      BY <2>2 DEF FreshProcess, Holding
  <2> QED
      BY <2>1, <2>2, PolicyMoves
<1>3. Holding => GateIsGivenBack
    BY DEF Holding, GateIsGivenBack
<1> QED
    BY <1>1, <1>2, <1>3, SoundHolds, PTL DEF StartSpec

--------------------------------------------------------------------------------
(* Where the loader may be while a call of the policy is in progress, and   *)
(* which one.                                                              *)
Calling ==
    /\ place \in [Loaders -> Places]
    /\ pc # "idle" => At(Us, "opening") \/ At(Us, "closing")
    /\ At(Us, "opening") => pc \in {"idle", "look"} \/ purpose # "uninstall"
    /\ At(Us, "opening") /\ active => answer
    /\ At(Us, "closing") => pc \in {"idle", "protect", "exchange", "restore"}
    /\ At(Us, "closing") /\ pc # "idle" => purpose = "uninstall"
    /\ active => place[Us] \in {"opening", "auto", "unsigned", "convert", "up", "close"}

Wanted == Setting("unsigned") # 0

(* Unless what is read has changed, a loader past the policy has it active  *)
(* or would read that it is not wanted.                                    *)
Agreed ==
    ~changed =>
        /\ At(Us, "opening") /\ pc = "idle" /\ answer => active \/ ~Wanted
        /\ At(Us, "auto") \/ At(Us, "unsigned") => active \/ ~Wanted
        /\ At(Us, "convert") => active

LEMMA CallingStep == Sound /\ Calling /\ [StartNext]_startVars => Calling'
<1> SUFFICES ASSUME Sound, Calling, [StartNext]_startVars PROVE Calling'
    OBVIOUS
<1> USE SkuStartAssumption DEF Calling, At, To, Loaders, Places, policyVars, vars, memory, globals,
        history, Sound, TypeOK
<1>1. CASE UNCHANGED startVars
    BY <1>1 DEF startVars
<1>2. ASSUME NEW l \in Loaders, Begin(l) \/ Create(l) \/ WriteDefaults(l) \/ DeletePartial(l)
      PROVE  Calling'
  <2>1. CASE Begin(l)
      BY <2>1 DEF Begin
  <2>2. CASE Create(l)
      BY <2>2 DEF Create, Ready
  <2>3. CASE WriteDefaults(l)
      BY <2>3 DEF WriteDefaults, Ready
  <2>4. CASE DeletePartial(l)
      BY <2>4 DEF DeletePartial
  <2> QED
      BY <1>2, <2>1, <2>2, <2>3, <2>4
<1>3. ASSUME NEW l \in Loaders, Die(l) PROVE Calling'
  <2>1. CASE l = Us
      BY <1>3, <2>1 DEF Die, FreshProcess
  <2>2. CASE l # Us
      BY <1>3, <2>2 DEF Die
  <2> QED
      BY <2>1, <2>2
<1>4. CASE InstallPolicy
    BY <1>4 DEF InstallPolicy, Install, SetGate, Return
<1>5. CASE LookAsConfigured
    BY <1>5 DEF LookAsConfigured, Look, SetGate, Return
<1>6. CASE SetGateStep
  <2>1. CASE Protect
      BY <1>6, <2>1 DEF SetGateStep, Protect, Fail, SetGate, Return
  <2>2. CASE Exchange
      BY <1>6, <2>2 DEF SetGateStep, Exchange
  <2>3. CASE Restore
      BY <1>6, <2>3 DEF SetGateStep, Restore, Succeed, Fail, SetGate, Return
  <2> QED
      BY <1>6, <2>1, <2>2, <2>3 DEF SetGateStep
<1>7. CASE PolicyReturned
  <2>1. CASE answer
      BY <1>7, <2>1 DEF PolicyReturned
  <2>2. CASE ~answer
      BY <1>7, <2>2 DEF PolicyReturned
  <2> QED
      BY <2>1, <2>2
<1>8. CASE OtherPartFails \/ ReadAutoDecrypt \/ ReadAllowUnsigned \/ Convert \/ Shutdown
    BY <1>8 DEF OtherPartFails, ReadAutoDecrypt, ReadAllowUnsigned, Convert, Shutdown
<1>9. CASE UninstallPolicy
    BY <1>9 DEF UninstallPolicy, Uninstall, SetGate, Return
<1>10. CASE Closed
    BY <1>10 DEF Closed
<1>11. CASE OtherConverts \/ Edit
    BY <1>11 DEF OtherConverts, Edit
<1>12. ASSUME NEW l \in Others, OtherEnds(l) PROVE Calling'
    BY <1>12 DEF OtherEnds
<1>13. CASE EngineWrites
    BY <1>13 DEF EngineWrites, EngineWrite
<1> QED
    BY <1>1, <1>2, <1>3, <1>4, <1>5, <1>6, <1>7, <1>8, <1>9, <1>10, <1>11, <1>12, <1>13
    DEF StartNext

LEMMA AgreedStep == Sound /\ Calling /\ Agreed /\ [StartNext]_startVars => Agreed'
<1> SUFFICES ASSUME Sound, Calling, Agreed, [StartNext]_startVars PROVE Agreed'
    OBVIOUS
<1> USE SkuStartAssumption DEF Agreed, Wanted, Setting, At, To, Loaders, Places, policyVars, vars,
        memory, globals, history, files
<1>1. CASE UNCHANGED startVars
    BY <1>1 DEF startVars
<1>2. ASSUME NEW l \in Loaders, Begin(l) \/ Create(l) \/ WriteDefaults(l) \/ DeletePartial(l)
      PROVE  Agreed'
  <2>1. CASE Begin(l)
      BY <2>1 DEF Begin, Calling
  <2>2. CASE Create(l)
      BY <2>2 DEF Create, Ready, Calling
  <2>3. CASE WriteDefaults(l)
      BY <2>3 DEF WriteDefaults, Ready
  <2>4. CASE DeletePartial(l)
      BY <2>4 DEF DeletePartial, Calling
  <2> QED
      BY <1>2, <2>1, <2>2, <2>3, <2>4
<1>3. ASSUME NEW l \in Loaders, Die(l) PROVE Agreed'
  <2>1. CASE l = Us
      BY <1>3, <2>1 DEF Die, FreshProcess, Calling
  <2>2. CASE l # Us
      BY <1>3, <2>2 DEF Die, Calling
  <2> QED
      BY <2>1, <2>2
<1>4. CASE InstallPolicy
    BY <1>4 DEF InstallPolicy, Install, SetGate, Return, Calling
<1>5. CASE LookAsConfigured
    BY <1>5 DEF LookAsConfigured, Look, SetGate, Return, Calling
<1>6. CASE SetGateStep
  <2> USE DEF Calling
  <2>1. CASE Protect
      BY <1>6, <2>1 DEF SetGateStep, Protect, Fail, SetGate, Return
  <2>2. CASE Exchange
      BY <1>6, <2>2 DEF SetGateStep, Exchange
  <2>3. CASE Restore /\ Fail
      BY <1>6, <2>3 DEF SetGateStep, Restore, Fail, SetGate, Return, Sound, TypeOK
  <2>4. CASE Restore /\ Succeed
    <3>1. CASE purpose = "install"
        BY <1>6, <2>4, <3>1 DEF SetGateStep, Restore, Succeed, Return
    <3>2. CASE purpose = "retry"
        BY <1>6, <2>4, <3>2 DEF SetGateStep, Restore, Succeed
    <3>3. CASE purpose = "undo"
        BY <1>6, <2>4, <3>3 DEF SetGateStep, Restore, Succeed, Return
    <3>4. CASE purpose = "uninstall"
        BY <1>6, <2>4, <3>4 DEF SetGateStep, Restore, Succeed, Return
    <3> QED
        BY <3>1, <3>2, <3>3, <3>4 DEF Sound, TypeOK
  <2> QED
      BY <1>6, <2>1, <2>2, <2>3, <2>4 DEF SetGateStep, Restore
<1>7. CASE PolicyReturned
    BY <1>7 DEF PolicyReturned, Calling
<1>8. CASE OtherPartFails \/ ReadAutoDecrypt \/ ReadAllowUnsigned \/ Convert \/ Shutdown
    BY <1>8 DEF OtherPartFails, ReadAutoDecrypt, ReadAllowUnsigned, Convert, Shutdown, Calling
<1>9. CASE UninstallPolicy
    BY <1>9 DEF UninstallPolicy, Uninstall, SetGate, Return, Calling
<1>10. CASE Closed
    BY <1>10 DEF Closed, Calling
<1>11. CASE OtherConverts \/ Edit
    BY <1>11 DEF OtherConverts, Edit
<1>12. ASSUME NEW l \in Others, OtherEnds(l) PROVE Agreed'
    BY <1>12 DEF OtherEnds, Calling
<1>13. CASE EngineWrites
    BY <1>13 DEF EngineWrites, EngineWrite
<1> QED
    BY <1>1, <1>2, <1>3, <1>4, <1>5, <1>6, <1>7, <1>8, <1>9, <1>10, <1>11, <1>12, <1>13
    DEF StartNext

(* For any number of loaders, failures, deaths and edits, sku_config.txt is *)
(* not converted without the policy, unless what modloader.ini reads has    *)
(* changed since the policy looked.                                        *)
THEOREM ConvertsWithThePolicy == StartSpec => []ConvertsAsConfigured
<1>1. StartInit => Calling /\ Agreed
    BY SkuStartAssumption DEF StartInit, Init, Calling, Agreed, Places, At, Loaders
<1>2. Sound /\ Calling /\ [StartNext]_startVars => Calling'
    BY CallingStep
<1>3. Sound /\ Calling /\ Agreed /\ [StartNext]_startVars => Agreed'
    BY AgreedStep
<1>4. Sound /\ Calling /\ Agreed => ConvertsAsConfigured
    BY DEF Sound, Opened, Calling, Agreed, ConvertsAsConfigured, At
<1> QED
    BY <1>1, <1>2, <1>3, <1>4, SoundHolds, PTL DEF StartSpec
================================================================================
