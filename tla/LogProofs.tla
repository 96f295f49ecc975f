------------------------------- MODULE LogProofs -------------------------------
(***************************************************************************)
(* Theorems about Log for every set of writers, every queue capacity and   *)
(* every number of lines and sessions.                                     *)
(***************************************************************************)
EXTENDS Log, SequenceTheorems, TLAPS

--------------------------------------------------------------------------------
(* Arithmetic of the ring.                                                 *)

(* A wrapped index is an index of the queue.                               *)
LEMMA WrapRange ==
    ASSUME NEW i \in Nat
    PROVE  Wrap(i) \in 0 .. Capacity - 1
  BY LogAssumption DEF Wrap

(* An index below the capacity is not changed by wrapping.                 *)
LEMMA WrapSmall ==
    ASSUME NEW i \in 0 .. Capacity - 1
    PROVE  Wrap(i) = i
  BY LogAssumption DEF Wrap

(* An index that passes the end once starts again at 0.                    *)
LEMMA WrapLarge ==
    ASSUME NEW i \in Capacity .. 2 * Capacity - 1
    PROVE  Wrap(i) = i - Capacity
  BY LogAssumption DEF Wrap

(* Advancing g_head and then counting i slots from it is counting i + 1    *)
(* slots from the old g_head.                                              *)
LEMMA WrapAdvance ==
    ASSUME NEW h \in 0 .. Capacity - 1, NEW i \in 0 .. Capacity - 1
    PROVE  Wrap(Wrap(h + 1) + i) = Wrap(h + 1 + i)
  <1>1. CASE h + 1 = Capacity
    <2>1. Wrap(h + 1) = 0  BY <1>1, LogAssumption, WrapLarge
    <2>2. Wrap(i) = i  BY WrapSmall
    <2>3. Wrap(Capacity + i) = i  BY LogAssumption, WrapLarge
    <2> QED  BY <1>1, <2>1, <2>2, <2>3
  <1>2. CASE h + 1 < Capacity
    BY <1>2, LogAssumption, WrapSmall
  <1> QED  BY <1>1, <1>2, LogAssumption

(* Slots at different distances from g_head are different.                 *)
LEMMA WrapInjective ==
    ASSUME NEW h \in 0 .. Capacity - 1,
           NEW i \in 0 .. Capacity - 1, NEW j \in 0 .. Capacity - 1,
           Wrap(h + i) = Wrap(h + j)
    PROVE  i = j
  <1>1. Wrap(h + i) = IF h + i < Capacity THEN h + i ELSE h + i - Capacity
    BY LogAssumption, WrapSmall, WrapLarge
  <1>2. Wrap(h + j) = IF h + j < Capacity THEN h + j ELSE h + j - Capacity
    BY LogAssumption, WrapSmall, WrapLarge
  <1> QED  BY <1>1, <1>2, LogAssumption

--------------------------------------------------------------------------------
(* The inductive invariant.                                                *)

(* How far the handshake between shutdown and the writer thread has come.  *)
Handshake ==
    /\ thread <=> drainPc # "none"
    /\ controlPc = "join" => thread /\ stopping
    /\ controlPc = "close" => stopping /\ drainPc \in {"none", "done"}
    /\ drainPc = "done" => stopping /\ count = 0
    /\ thread /\ stopping => controlPc # "idle"
    /\ ~thread => count = 0

(* Losses exist only while the ring is full or in the hands of the writer  *)
(* thread, which names them before it looks at the ring again.             *)
Losses ==
    /\ lost = reported + drainDropped + dropped
    /\ dropped > 0 => count = Capacity
    /\ drainDropped > 0 => drainPc \in {"emit", "notice"}

(* The accepted lines, one by one: first those written, then the one in    *)
(* the hands of the writer thread, then the ring.                          *)
Ahead == IF drainPc = "emit" THEN 1 ELSE 0

Places ==
    /\ Len(accepted) = Len(emitted) + Ahead + count
    /\ \A i \in 1 .. Len(emitted) : accepted[i] = emitted[i]
    /\ drainPc = "emit" => accepted[Len(emitted) + 1] = drainLine
    /\ \A i \in 0 .. count - 1 :
           accepted[Len(emitted) + Ahead + 1 + i] = queue[Wrap(head + i)]

IInv == TypeOK /\ Handshake /\ Losses /\ Places

--------------------------------------------------------------------------------
(* The initial state satisfies the inductive invariant.                    *)
LEMMA InitIInv == Init => IInv
  <1> SUFFICES ASSUME Init PROVE IInv
    OBVIOUS
  <1> USE LogAssumption
  <1>1. TypeOK
    BY DEF Init, TypeOK, Outputs, Callers, MaxWarnings
  <1>2. Handshake /\ Losses
    BY DEF Init, Handshake, Losses
  <1>3. Places
    BY DEF Init, Places, Ahead
  <1> QED  BY <1>1, <1>2, <1>3 DEF IInv

(* What initialize changes, whichever outputs opened.                      *)
LEMMA InitializeEffect ==
    ASSUME Initialize
    PROVE  /\ ~thread /\ controlPc = "idle"
           /\ head' = 0 /\ count' = 0 /\ dropped' = 0 /\ stopping' = FALSE
           /\ sessions > 0 /\ sessions' = sessions - 1
           /\ UNCHANGED <<queue, drainLine, drainDropped, held, controlPc>>
           /\ thread' \in BOOLEAN
           /\ drainPc' = IF thread' THEN "loop" ELSE "none"
           /\ outputs' \in SUBSET Outputs
           /\ \E n \in {0, 1, MaxWarnings} :
                  budget' = [budget EXCEPT ![Control] = n]
           /\ IF thread'
                THEN /\ accepted' = <<>> /\ emitted' = <<>>
                     /\ lost' = 0 /\ reported' = 0
                ELSE UNCHANGED history
  <1>1. PICK opened \in SUBSET Outputs, failed \in SUBSET Outputs,
             started \in BOOLEAN : Opening(opened, failed, started)
    BY Zenon DEF Initialize
  <1>2. /\ ~thread /\ controlPc = "idle"
        /\ head' = 0 /\ count' = 0 /\ dropped' = 0 /\ stopping' = FALSE
        /\ sessions > 0 /\ sessions' = sessions - 1
        /\ UNCHANGED <<queue, drainLine, drainDropped, held, controlPc>>
    BY Zenon DEF Initialize
  <1>3. /\ thread' \in BOOLEAN
        /\ drainPc' = IF thread' THEN "loop" ELSE "none"
        /\ \E n \in {0, 1, MaxWarnings} :
               budget' = [budget EXCEPT ![Control] = n]
        /\ IF thread'
             THEN /\ accepted' = <<>> /\ emitted' = <<>>
                  /\ lost' = 0 /\ reported' = 0
             ELSE UNCHANGED history
    BY <1>1, Zenon DEF Opening
  <1>4. outputs' \in SUBSET Outputs
    BY <1>1, Zenon DEF Opening
  <1> QED  BY <1>2, <1>3, <1>4, Zenon

(* The types of all variables are preserved by every step.                 *)
LEMMA TypeStep == IInv /\ [Next]_vars => TypeOK'
  <1> SUFFICES ASSUME IInv, [Next]_vars PROVE TypeOK'
    OBVIOUS
  <1> USE LogAssumption
  <1>0. TypeOK  BY DEF IInv
  <1>1. ASSUME NEW c \in Callers, Format(c) PROVE TypeOK'
    <2>1. held[c] = NoLine /\ budget[c] \in 1 .. MaxLines + MaxWarnings
      BY <1>0, <1>1 DEF Format, TypeOK, MaxWarnings
    <2>2. <<c, budget[c]>> \in Line  BY <2>1 DEF Line
    <2> QED
      BY <1>0, <1>1, <2>1, <2>2 DEF Format, TypeOK, ring, drainVars, controlVars, history, MaxWarnings
  <1>2. ASSUME NEW c \in Callers, Enqueue(c) PROVE TypeOK'
    <2>1. held[c] \in Line
      BY <1>0, <1>2 DEF Enqueue, TypeOK
    <2>2. /\ held' \in [Callers -> Line \cup {NoLine}]
          /\ UNCHANGED <<stopping, thread, outputs, drainLine, drainDropped,
                         budget, controlPc, sessions, emitted, reported>>
      BY <1>0, <1>2 DEF Enqueue, TypeOK, controlVars
    <2>3. CASE Accept(c)
      <3>0. head + count \in Nat
        BY <1>0 DEF TypeOK
      <3>1. Wrap(head + count) \in 0 .. Capacity - 1
        BY <3>0, WrapRange
      <3>2. queue' \in [0 .. Capacity - 1 -> Line \cup {NoLine}]
        BY <1>0, <2>1, <2>3, <3>1 DEF Accept, FreeSlot, TypeOK
      <3>3. accepted' \in Seq(Line)
        BY <1>0, <2>1, <2>3 DEF Accept, TypeOK
      <3>4. drainPc' \in {"none", "loop", "asleep", "emit", "notice", "done"}
        BY <1>0, <2>3 DEF Accept, Wake, TypeOK
      <3> QED  BY <1>0, <2>2, <2>3, <3>2, <3>3, <3>4 DEF Accept, HasRoom, TypeOK
    <2>4. CASE Drop
      BY <1>0, <2>2, <2>4 DEF Drop, TypeOK
    <2>5. CASE Ignore
      BY <1>0, <2>2, <2>5 DEF Ignore, TypeOK
    <2> QED  BY <1>2, <2>3, <2>4, <2>5 DEF Enqueue
  <1>3. CASE Sleep
    BY <1>0, <1>3 DEF Sleep, TypeOK, ring, callerVars, controlVars, history
  <1>4. CASE SpuriousWake
    BY <1>0, <1>4 DEF SpuriousWake, TypeOK, ring, callerVars, controlVars, history
  <1>5. CASE Take
    <2>1. head' \in 0 .. Capacity - 1
      BY <1>0, <1>5, WrapRange DEF Take, TypeOK
    <2>2. count' \in 0 .. Capacity
      BY <1>0, <1>5 DEF Take, TypeOK
    <2>3. drainLine' \in Line \cup {NoLine}
      BY <1>0, <1>5 DEF Take, TypeOK
    <2> QED
      BY <1>0, <1>5, <2>1, <2>2, <2>3 DEF Take, TypeOK, callerVars, controlVars, history
  <1>6. CASE Emit
    <2>1. drainLine \in Line
      <3>1. drainLine = accepted[Len(emitted) + 1]
        BY <1>6 DEF Emit, IInv, Places
      <3>2. Len(emitted) + 1 \in 1 .. Len(accepted)
        BY <1>0, <1>6 DEF Emit, IInv, Places, Ahead, TypeOK
      <3> QED  BY <1>0, <3>1, <3>2 DEF TypeOK
    <2>2. emitted' \in Seq(Line)
      BY <1>0, <1>6, <2>1 DEF Emit, TypeOK
    <2> QED  BY <1>0, <1>6, <2>2 DEF Emit, TypeOK, ring, callerVars, controlVars
  <1>7. CASE Notice
    BY <1>0, <1>7 DEF Notice, TypeOK, ring, callerVars, controlVars
  <1>8. CASE Exit
    BY <1>0, <1>8 DEF Exit, TypeOK, ring, callerVars, controlVars, history
  <1>9. CASE Initialize
    <2>1. budget' \in [Callers -> 0 .. MaxLines + MaxWarnings]
      <3>1. PICK n \in {0, 1, MaxWarnings} :
                budget' = [budget EXCEPT ![Control] = n]
        BY <1>9, InitializeEffect
      <3>2. n \in 0 .. MaxLines + MaxWarnings
        BY DEF MaxWarnings
      <3>3. budget \in [Callers -> 0 .. MaxLines + MaxWarnings]
        BY <1>0 DEF TypeOK
      <3> QED  BY <3>1, <3>2, <3>3
    <2>2. /\ accepted' \in Seq(Line) /\ emitted' \in Seq(Line)
          /\ lost' \in Nat /\ reported' \in Nat
      <3>1. \/ accepted' = <<>> /\ emitted' = <<>> /\ lost' = 0 /\ reported' = 0
            \/ UNCHANGED <<accepted, emitted, lost, reported>>
        BY <1>9, InitializeEffect, Zenon DEF history
      <3>2. CASE accepted' = <<>> /\ emitted' = <<>> /\ lost' = 0 /\ reported' = 0
        BY <3>2
      <3>3. CASE UNCHANGED <<accepted, emitted, lost, reported>>
        BY <1>0, <3>3 DEF TypeOK
      <3> QED  BY <3>1, <3>2, <3>3
    <2> QED  BY <1>0, <1>9, <2>1, <2>2, InitializeEffect DEF TypeOK
  <1>10. CASE Shutdown
    BY <1>0, <1>10 DEF Shutdown, TypeOK, Wake, callerVars, history
  <1>11. CASE Join
    BY <1>0, <1>11 DEF Join, TypeOK, ring, drainVars, callerVars, history
  <1>12. CASE Close
    BY <1>0, <1>12 DEF Close, TypeOK, callerVars, history
  <1>13. CASE UNCHANGED vars
    BY <1>0, <1>13 DEF vars, TypeOK, ring, drainVars, callerVars, controlVars, history
  <1> QED
    BY <1>1, <1>2, <1>3, <1>4, <1>5, <1>6, <1>7, <1>8, <1>9, <1>10, <1>11,
       <1>12, <1>13 DEF Next, Drain

(* The handshake: the writer thread lives exactly as long as g_thread is   *)
(* set, and leaves only when shutdown has been called and the ring is      *)
(* empty.                                                                  *)
LEMMA HandshakeStep == IInv /\ [Next]_vars => Handshake'
  <1> SUFFICES ASSUME IInv, [Next]_vars PROVE Handshake'
    OBVIOUS
  <1>0. TypeOK /\ Handshake  BY DEF IInv
  <1>1. ASSUME NEW c \in Callers, Format(c) PROVE Handshake'
    BY <1>0, <1>1 DEF Format, Handshake, ring, drainVars, controlVars
  <1>2. ASSUME NEW c \in Callers, Enqueue(c) PROVE Handshake'
    <2>1. UNCHANGED <<stopping, thread, controlPc>>
      BY <1>2 DEF Enqueue, controlVars
    <2>2. CASE Accept(c)
      BY <1>0, <2>1, <2>2 DEF Accept, Accepting, Wake, Handshake
    <2>3. CASE Drop
      BY <1>0, <2>1, <2>3 DEF Drop, Handshake
    <2>4. CASE Ignore
      BY <1>0, <2>1, <2>4 DEF Ignore, Handshake
    <2> QED  BY <1>2, <2>2, <2>3, <2>4 DEF Enqueue
  <1>3. CASE Sleep
    BY <1>0, <1>3 DEF Sleep, Handshake, ring, controlVars
  <1>4. CASE SpuriousWake
    BY <1>0, <1>4 DEF SpuriousWake, Handshake, ring, controlVars
  <1>5. CASE Take
    BY <1>0, <1>5 DEF Take, Handshake, controlVars
  <1>6. CASE Emit
    BY <1>0, <1>6 DEF Emit, Handshake, ring, controlVars
  <1>7. CASE Notice
    BY <1>0, <1>7 DEF Notice, Handshake, ring, controlVars
  <1>8. CASE Exit
    BY <1>0, <1>8 DEF Exit, Handshake, ring, controlVars
  <1>9. CASE Initialize
    BY <1>0, <1>9, InitializeEffect DEF Handshake
  <1>10. CASE Shutdown
    BY <1>0, <1>10 DEF Shutdown, Wake, Handshake, TypeOK
  <1>11. CASE Join
    BY <1>0, <1>11 DEF Join, Handshake, ring, drainVars
  <1>12. CASE Close
    BY <1>0, <1>12 DEF Close, Handshake
  <1>13. CASE UNCHANGED vars
    BY <1>0, <1>13 DEF vars, Handshake, ring, drainVars, controlVars
  <1> QED
    BY <1>1, <1>2, <1>3, <1>4, <1>5, <1>6, <1>7, <1>8, <1>9, <1>10, <1>11,
       <1>12, <1>13 DEF Next, Drain

(* The accounts of the losses balance after every step.                    *)
LEMMA LossesStep == IInv /\ [Next]_vars => Losses'
  <1> SUFFICES ASSUME IInv, [Next]_vars PROVE Losses'
    OBVIOUS
  <1> USE LogAssumption
  <1>0. TypeOK /\ Handshake /\ Losses  BY DEF IInv
  <1>1. ASSUME NEW c \in Callers, Format(c) PROVE Losses'
    BY <1>0, <1>1 DEF Format, Losses, ring, drainVars, history
  <1>2. ASSUME NEW c \in Callers, Enqueue(c) PROVE Losses'
    <2>1. UNCHANGED <<drainDropped, reported>>
      BY <1>2 DEF Enqueue
    <2>2. CASE Accept(c)
      BY <1>0, <2>1, <2>2 DEF Accept, HasRoom, Wake, Losses, TypeOK
    <2>3. CASE Drop
      BY <1>0, <2>1, <2>3 DEF Drop, HasRoom, Losses, TypeOK
    <2>4. CASE Ignore
      BY <1>0, <2>1, <2>4 DEF Ignore, Losses
    <2> QED  BY <1>2, <2>2, <2>3, <2>4 DEF Enqueue
  <1>3. CASE Sleep
    BY <1>0, <1>3 DEF Sleep, Losses, ring, history, TypeOK
  <1>4. CASE SpuriousWake
    BY <1>0, <1>4 DEF SpuriousWake, Losses, ring, history, TypeOK
  <1>5. CASE Take
    BY <1>0, <1>5 DEF Take, Losses, history, TypeOK
  <1>6. CASE Emit
    BY <1>0, <1>6 DEF Emit, Losses, ring, TypeOK
  <1>7. CASE Notice
    BY <1>0, <1>7 DEF Notice, Losses, ring, TypeOK
  <1>8. CASE Exit
    BY <1>0, <1>8 DEF Exit, Losses, ring, history, TypeOK
  <1>9. CASE Initialize
    \* Without a writer thread nothing is in its hands and the ring is empty.
    <2>1. drainDropped = 0 /\ dropped = 0 /\ lost = reported
      BY <1>0, <1>9, InitializeEffect DEF Handshake, Losses, TypeOK
    <2>2. /\ drainDropped' = 0 /\ dropped' = 0
          /\ \/ lost' = 0 /\ reported' = 0
             \/ UNCHANGED <<lost, reported>>
      BY <1>9, <2>1, InitializeEffect DEF history
    <2> QED  BY <1>0, <2>1, <2>2 DEF Losses, TypeOK
  <1>10. CASE Shutdown
    BY <1>0, <1>10 DEF Shutdown, Wake, Losses, history, TypeOK
  <1>11. CASE Join
    BY <1>0, <1>11 DEF Join, Losses, ring, drainVars, history
  <1>12. CASE Close
    BY <1>0, <1>12 DEF Close, Handshake, Losses, history, TypeOK
  <1>13. CASE UNCHANGED vars
    BY <1>0, <1>13 DEF vars, Losses, ring, drainVars, history
  <1> QED
    BY <1>1, <1>2, <1>3, <1>4, <1>5, <1>6, <1>7, <1>8, <1>9, <1>10, <1>11,
       <1>12, <1>13 DEF Next, Drain

(* Every accepted line keeps its place while it moves from the ring to the *)
(* writer thread and to the outputs.                                       *)
LEMMA PlacesStep == IInv /\ [Next]_vars => Places'
  <1> SUFFICES ASSUME IInv, [Next]_vars PROVE Places'
    OBVIOUS
  <1> USE LogAssumption
  <1>0. TypeOK /\ Handshake /\ Places  BY DEF IInv
  <1>1. ASSUME UNCHANGED <<queue, head, count, drainLine, accepted, emitted>>,
               drainPc' = "emit" <=> drainPc = "emit"
        PROVE Places'
    BY <1>0, <1>1 DEF Places, Ahead
  <1>2. ASSUME NEW c \in Callers, Format(c) PROVE Places'
    BY <1>1, <1>2 DEF Format, ring, drainVars, history
  <1>3. ASSUME NEW c \in Callers, Enqueue(c) PROVE Places'
    <2>1. UNCHANGED <<drainLine, emitted>>
      BY <1>3 DEF Enqueue
    <2>2. CASE Accept(c)
      <3>1. /\ queue' = [queue EXCEPT ![Wrap(head + count)] = held[c]]
            /\ count' = count + 1 /\ head' = head
            /\ accepted' = Append(accepted, held[c])
            /\ drainPc' = "emit" <=> drainPc = "emit"
        BY <2>2 DEF Accept, FreeSlot, Wake
      <3>2. held[c] \in Line /\ accepted \in Seq(Line) /\ count \in 0 .. Capacity - 1
        BY <1>0, <1>3, <2>2 DEF Enqueue, Accept, HasRoom, TypeOK
      <3>3. Len(accepted') = Len(accepted) + 1 /\ Ahead' = Ahead
        BY <3>1, <3>2 DEF Ahead
      <3>4. \A i \in 1 .. Len(accepted) : accepted'[i] = accepted[i]
        BY <3>1, <3>2
      <3>5. accepted'[Len(accepted) + 1] = held[c]
        BY <3>1, <3>2
      <3>6. Ahead \in 0 .. 1 /\ Len(emitted) \in Nat
        BY <1>0 DEF Ahead, TypeOK
      <3>7. ASSUME NEW i \in 0 .. count
            PROVE  accepted'[Len(emitted) + Ahead + 1 + i] = queue'[Wrap(head + i)]
        <4>1. head + i \in Nat /\ head + count \in Nat
          BY <1>0 DEF TypeOK
        <4>2. Wrap(head + i) \in 0 .. Capacity - 1
          BY <4>1, WrapRange
        <4>3. CASE i = count
          <5>1. Len(emitted) + Ahead + 1 + i = Len(accepted) + 1
            BY <1>0, <3>2, <3>6, <4>3 DEF Places
          <5>2. queue'[Wrap(head + i)] = held[c]
            BY <1>0, <3>1, <4>2, <4>3 DEF TypeOK
          <5> QED  BY <3>5, <5>1, <5>2
        <4>4. CASE i \in 0 .. count - 1
          <5>1. Wrap(head + i) # Wrap(head + count)
            <6>1. /\ head \in 0 .. Capacity - 1
                  /\ i \in 0 .. Capacity - 1 /\ count \in 0 .. Capacity - 1
                  /\ i # count
              BY <1>0, <3>2, <4>4 DEF TypeOK
            <6> QED  BY <6>1, WrapInjective
          <5>2. queue'[Wrap(head + i)] = queue[Wrap(head + i)]
            BY <1>0, <3>1, <4>2, <5>1 DEF TypeOK
          <5>3. Len(emitted) + Ahead + 1 + i \in 1 .. Len(accepted)
            BY <1>0, <3>2, <3>6, <4>4 DEF Places
          <5> QED  BY <1>0, <3>4, <4>4, <5>2, <5>3 DEF Places
        <4> QED  BY <3>2, <4>3, <4>4
      <3>8. Len(accepted') = Len(emitted') + Ahead' + count'
        BY <1>0, <2>1, <3>1, <3>2, <3>3, <3>6 DEF Places
      <3>9. \A i \in 1 .. Len(emitted') : accepted'[i] = emitted'[i]
        <4>1. Len(emitted) <= Len(accepted)
          BY <1>0, <3>2, <3>6 DEF Places
        <4> QED  BY <1>0, <2>1, <3>2, <3>4, <3>6, <4>1 DEF Places
      <3>10. drainPc' = "emit" => accepted'[Len(emitted') + 1] = drainLine'
        <4> SUFFICES ASSUME drainPc = "emit"
                     PROVE  accepted'[Len(emitted) + 1] = drainLine
          BY <2>1, <3>1
        <4>1. Len(emitted) + 1 \in 1 .. Len(accepted)
          BY <1>0, <3>2, <3>6 DEF Places, Ahead
        <4> QED  BY <1>0, <3>4, <4>1 DEF Places
      <3>11. \A i \in 0 .. count' - 1 :
                 accepted'[Len(emitted') + Ahead' + 1 + i] = queue'[Wrap(head' + i)]
        <4>1. 0 .. count' - 1 = 0 .. count
          BY <3>1, <3>2
        <4>2. head' = head /\ emitted' = emitted /\ Ahead' = Ahead
          BY <2>1, <3>1, <3>3
        <4> QED  BY <3>7, <4>1, <4>2
      <3> QED  BY <3>8, <3>9, <3>10, <3>11 DEF Places
    <2>3. CASE Drop
      BY <1>1, <2>1, <2>3 DEF Drop
    <2>4. CASE Ignore
      BY <1>1, <2>1, <2>4 DEF Ignore
    <2> QED  BY <1>3, <2>2, <2>3, <2>4 DEF Enqueue
  <1>4. CASE Sleep
    BY <1>1, <1>4 DEF Sleep, ring, history
  <1>5. CASE SpuriousWake
    BY <1>1, <1>5 DEF SpuriousWake, ring, history
  <1>6. CASE Take
    <2>1. /\ drainPc = "loop" /\ drainPc' = "emit"
          /\ count > 0 /\ count' = count - 1
          /\ drainLine' = queue[head] /\ head' = Wrap(head + 1)
          /\ UNCHANGED <<queue, accepted, emitted>>
      BY <1>6 DEF Take, history
    <2>2. Ahead = 0 /\ Ahead' = 1
      BY <2>1 DEF Ahead
    <2>3. Len(emitted) \in Nat /\ count \in 1 .. Capacity /\ head \in 0 .. Capacity - 1
      BY <1>0, <2>1 DEF TypeOK
    <2>4. accepted[Len(emitted) + 1] = queue[head]
      <3>1. Wrap(head + 0) = head  BY <2>3, WrapSmall
      <3>2. accepted[Len(emitted) + 0 + 1 + 0] = queue[Wrap(head + 0)]
        BY <1>0, <2>2, <2>3 DEF Places
      <3> QED  BY <2>3, <3>1, <3>2
    <2>5. ASSUME NEW i \in 0 .. count' - 1
          PROVE  accepted[Len(emitted) + 1 + 1 + i] = queue[Wrap(head' + i)]
      <3>1. i \in 0 .. Capacity - 1 /\ i + 1 \in 0 .. count - 1
        BY <2>1, <2>3
      <3>2. Wrap(head' + i) = Wrap(head + (i + 1))
        BY <2>1, <2>3, <3>1, WrapAdvance
      <3>3. accepted[Len(emitted) + 0 + 1 + (i + 1)] = queue[Wrap(head + (i + 1))]
        BY <1>0, <2>2, <3>1 DEF Places
      <3> QED  BY <2>3, <3>1, <3>2, <3>3
    <2> QED  BY <1>0, <2>1, <2>2, <2>3, <2>4, <2>5 DEF Places
  <1>7. CASE Emit
    <2>1. /\ drainPc = "emit" /\ drainPc' # "emit"
          /\ emitted' = Append(emitted, drainLine)
          /\ UNCHANGED <<queue, head, count, accepted>>
      BY <1>7 DEF Emit, ring
    <2>2. Ahead = 1 /\ Ahead' = 0
      BY <2>1 DEF Ahead
    <2>3. drainLine = accepted[Len(emitted) + 1]
      BY <1>0, <2>1 DEF Places
    <2>4. /\ emitted \in Seq(Line) /\ Len(emitted) \in Nat /\ count \in Nat
          /\ drainLine \in Line \cup {NoLine}
      BY <1>0 DEF TypeOK
    <2>5. /\ Len(emitted') = Len(emitted) + 1
          /\ \A i \in 1 .. Len(emitted) : emitted'[i] = emitted[i]
          /\ emitted'[Len(emitted) + 1] = drainLine
      BY <2>1, <2>4
    <2>6. Len(accepted') = Len(emitted') + Ahead' + count'
      BY <1>0, <2>1, <2>2, <2>4, <2>5 DEF Places
    <2>7. \A i \in 1 .. Len(emitted') : accepted'[i] = emitted'[i]
      BY <1>0, <2>1, <2>3, <2>4, <2>5 DEF Places
    <2>8. \A i \in 0 .. count' - 1 :
              accepted'[Len(emitted') + Ahead' + 1 + i] = queue'[Wrap(head' + i)]
      BY <1>0, <2>1, <2>2, <2>4, <2>5 DEF Places
    <2> QED  BY <2>1, <2>6, <2>7, <2>8 DEF Places
  <1>8. CASE Notice
    BY <1>1, <1>8 DEF Notice, ring
  <1>9. CASE Exit
    BY <1>1, <1>9 DEF Exit, ring, history
  <1>10. CASE Initialize
    <2>1. /\ drainPc = "none" /\ count = 0 /\ count' = 0
          /\ drainPc' # "emit" /\ UNCHANGED <<queue, drainLine>>
      BY <1>0, <1>10, InitializeEffect DEF Handshake
    <2>2. CASE accepted' = <<>> /\ emitted' = <<>>
      BY <2>1, <2>2 DEF Places, Ahead
    <2>3. CASE UNCHANGED <<accepted, emitted>>
      BY <1>0, <2>1, <2>3 DEF Places, Ahead
    <2> QED  BY <1>10, <2>2, <2>3, InitializeEffect DEF history
  <1>11. CASE Shutdown
    BY <1>1, <1>11 DEF Shutdown, Wake, history
  <1>12. CASE Join
    BY <1>1, <1>12 DEF Join, ring, drainVars, history
  <1>13. CASE Close
    <2>1. drainPc # "emit" /\ drainPc' # "emit"
      BY <1>0, <1>13 DEF Close, Handshake
    <2> QED  BY <1>1, <1>13, <2>1 DEF Close, history
  <1>14. CASE UNCHANGED vars
    BY <1>1, <1>14 DEF vars, ring, drainVars, history
  <1> QED
    BY <1>2, <1>3, <1>4, <1>5, <1>6, <1>7, <1>8, <1>9, <1>10, <1>11, <1>12,
       <1>13, <1>14 DEF Next, Drain

--------------------------------------------------------------------------------
(* The inductive invariant holds in every reachable state.                 *)
THEOREM Invariance == Spec => []IInv
  <1>1. Init => IInv  BY InitIInv
  <1>2. IInv /\ [Next]_vars => IInv'
    BY TypeStep, HandshakeStep, LossesStep, PlacesStep DEF IInv
  <1> QED  BY <1>1, <1>2, PTL DEF Spec

(* Every variable keeps its type, for every set of writers and every       *)
(* capacity.                                                               *)
THEOREM TypeCorrect == Spec => []TypeOK
  <1>1. IInv => TypeOK  BY DEF IInv
  <1> QED  BY <1>1, Invariance, PTL

(* No loss is forgotten or named twice.                                    *)
THEOREM LossesNeverForgotten == Spec => []LossesAccounted
  <1>1. IInv => LossesAccounted  BY DEF IInv, Losses, LossesAccounted
  <1> QED  BY <1>1, Invariance, PTL

(* The lines that wait are the accepted lines behind the written ones.     *)
Waiting ==
    /\ Pending \in Seq(Line)
    /\ Len(Pending) = Ahead + count
    /\ \A i \in 1 .. Ahead + count : Pending[i] = accepted[Len(emitted) + i]

LEMMA PendingIsTheRest == TypeOK /\ Places => Waiting
  <1> SUFFICES ASSUME TypeOK, Places PROVE Waiting
    OBVIOUS
  <1> USE LogAssumption
  <1>1. /\ accepted \in Seq(Line) /\ emitted \in Seq(Line)
        /\ Len(accepted) \in Nat /\ Len(emitted) \in Nat
        /\ count \in Nat /\ head \in Nat /\ Ahead \in 0 .. 1
    BY DEF TypeOK, Ahead
  <1>2. \A i \in 1 .. count :
            queue[Wrap(head + i - 1)] = accepted[Len(emitted) + Ahead + i]
    <2> TAKE i \in 1 .. count
    <2>1. i - 1 \in 0 .. count - 1
      BY <1>1
    <2>2. accepted[Len(emitted) + Ahead + 1 + (i - 1)] = queue[Wrap(head + (i - 1))]
      BY <2>1 DEF Places
    <2>3. /\ Len(emitted) + Ahead + 1 + (i - 1) = Len(emitted) + Ahead + i
          /\ head + (i - 1) = head + i - 1
      BY <1>1
    <2> QED  BY <2>2, <2>3
  <1>3. \A i \in 1 .. count : accepted[Len(emitted) + Ahead + i] \in Line
    <2> TAKE i \in 1 .. count
    <2>1. Len(emitted) + Ahead + i \in 1 .. Len(accepted)
      BY <1>1 DEF Places
    <2> QED  BY <1>1, <2>1, ElementOfSeq
  <1>4. Queued \in Seq(Line) /\ Len(Queued) = count
    <2>1. \A i \in 1 .. count : queue[Wrap(head + i - 1)] \in Line
      BY <1>2, <1>3
    <2>2. Queued \in [1 .. count -> Line]
      BY <2>1 DEF Queued
    <2> QED  BY <1>1, <2>2
  <1>5. \A i \in 1 .. count : Queued[i] = accepted[Len(emitted) + Ahead + i]
    BY <1>2 DEF Queued
  <1>6. /\ InFlight \in Seq(Line) /\ Len(InFlight) = Ahead
        /\ Ahead = 1 => InFlight[1] = accepted[Len(emitted) + 1]
    <2>1. CASE drainPc = "emit"
      <3>1. InFlight = <<drainLine>> /\ Ahead = 1
        BY <2>1 DEF InFlight, Ahead
      <3>2. accepted[Len(emitted) + 1] = drainLine
        BY <2>1 DEF Places
      <3>3. Len(emitted) + 1 \in 1 .. Len(accepted)
        BY <1>1, <3>1 DEF Places
      <3>4. drainLine \in Line
        BY <1>1, <3>2, <3>3, ElementOfSeq
      <3> QED  BY <3>1, <3>2, <3>4
    <2>2. CASE drainPc # "emit"
      BY <2>2 DEF InFlight, Ahead
    <2> QED  BY <2>1, <2>2
  <1>7. /\ Pending \in Seq(Line)
        /\ Len(Pending) = Ahead + count
        /\ \A i \in 1 .. Ahead + count :
               Pending[i] = IF i <= Ahead THEN InFlight[i] ELSE Queued[i - Ahead]
    <2>1. /\ InFlight \o Queued \in Seq(Line)
          /\ Len(InFlight \o Queued) = Len(InFlight) + Len(Queued)
          /\ \A i \in 1 .. Len(InFlight) + Len(Queued) :
                 (InFlight \o Queued)[i] =
                     IF i <= Len(InFlight) THEN InFlight[i]
                     ELSE Queued[i - Len(InFlight)]
      BY <1>4, <1>6, ConcatProperties
    <2> QED  BY <1>4, <1>6, <2>1 DEF Pending
  <1>8. ASSUME NEW i \in 1 .. Ahead + count
        PROVE  Pending[i] = accepted[Len(emitted) + i]
    <2>1. CASE i <= Ahead
      <3>1. i = 1 /\ Ahead = 1
        BY <1>1, <2>1
      <3> QED  BY <1>6, <1>7, <2>1, <3>1
    <2>2. CASE i > Ahead
      <3>1. i - Ahead \in 1 .. count /\ Len(emitted) + Ahead + (i - Ahead) = Len(emitted) + i
        BY <1>1, <2>2
      <3>2. Pending[i] = Queued[i - Ahead]
        BY <1>1, <1>7, <2>2
      <3> QED  BY <1>5, <3>1, <3>2
    <2> QED  BY <1>1, <2>1, <2>2
  <1> QED  BY <1>7, <1>8 DEF Waiting

(* No accepted line is lost, duplicated or overtaken on its way through    *)
(* the ring and the writer thread.                                         *)
THEOREM LinesKeepTheirPlaces == Spec => []NothingMisplaced
  <1>1. IInv => NothingMisplaced
    <2> SUFFICES ASSUME IInv PROVE accepted = emitted \o Pending
      BY DEF NothingMisplaced
    <2>1. TypeOK /\ Places  BY DEF IInv
    <2>2. /\ accepted \in Seq(Line) /\ emitted \in Seq(Line)
          /\ Len(accepted) \in Nat /\ Len(emitted) \in Nat
          /\ count \in Nat /\ Ahead \in 0 .. 1
      BY <2>1, LogAssumption DEF TypeOK, Ahead
    <2>3. /\ Pending \in Seq(Line) /\ Len(Pending) = Ahead + count
          /\ \A i \in 1 .. Ahead + count : Pending[i] = accepted[Len(emitted) + i]
      BY <2>1, PendingIsTheRest DEF Waiting
    <2> DEFINE whole == emitted \o Pending
    <2>4. /\ whole \in Seq(Line)
          /\ Len(whole) = Len(emitted) + Len(Pending)
          /\ \A i \in 1 .. Len(emitted) + Len(Pending) :
                 whole[i] = IF i <= Len(emitted) THEN emitted[i]
                            ELSE Pending[i - Len(emitted)]
      BY <2>2, <2>3, ConcatProperties
    <2> HIDE DEF whole
    <2>5. Len(accepted) = Len(whole)
      BY <2>1, <2>2, <2>3, <2>4 DEF Places
    <2>6. ASSUME NEW i \in 1 .. Len(accepted) PROVE accepted[i] = whole[i]
      <3>1. CASE i <= Len(emitted)
        BY <2>1, <2>2, <2>4, <2>5, <3>1 DEF Places
      <3>2. CASE i > Len(emitted)
        <4>1. /\ i - Len(emitted) \in 1 .. Ahead + count
              /\ Len(emitted) + (i - Len(emitted)) = i
          BY <2>2, <2>3, <2>4, <2>5, <3>2
        <4>2. whole[i] = Pending[i - Len(emitted)]
          BY <2>2, <2>4, <2>5, <3>2
        <4> QED  BY <2>3, <4>1, <4>2
      <3> QED  BY <2>2, <3>1, <3>2
    <2>7. accepted = whole
      BY <2>2, <2>4, <2>5, <2>6, SeqEqual
    <2> QED  BY <2>7 DEF whole
  <1> QED  BY <1>1, Invariance, PTL

(* When the writer thread has left, shutdown may close the outputs without *)
(* losing a line or a notice.                                              *)
THEOREM NothingIsLeftBehind == Spec => []NothingLeftBehind
  <1>1. IInv /\ NothingMisplaced => NothingLeftBehind
    <2> SUFFICES ASSUME IInv, NothingMisplaced, drainPc = "done"
                 PROVE  count = 0 /\ emitted = accepted /\ reported = lost
      BY DEF NothingLeftBehind
    <2> USE LogAssumption
    <2>1. count = 0  BY DEF IInv, Handshake
    <2>2. reported = lost
      BY <2>1 DEF IInv, Losses, TypeOK
    <2>3. Len(accepted) = Len(emitted)
      BY <2>1 DEF IInv, Places, Ahead, TypeOK
    <2>4. emitted = accepted
      BY <2>3, SeqEqual DEF IInv, Places, TypeOK
    <2> QED  BY <2>1, <2>2, <2>4
  <1> QED  BY <1>1, Invariance, LinesKeepTheirPlaces, PTL

(* initialize and shutdown never change g_file or g_console under the      *)
(* unlocked reads of emit.                                                 *)
THEOREM OutputsStableUnderEmit == Spec => NoOutputChangesUnderEmit
  <1>1. IInv /\ [Next]_vars =>
            [outputs' # outputs => drainPc \notin {"emit", "notice"}]_vars
    <2> SUFFICES ASSUME IInv, Next, outputs' # outputs
                 PROVE  drainPc \notin {"emit", "notice"}
      BY DEF vars
    <2>0. Handshake  BY DEF IInv
    <2>1. CASE Initialize
      BY <2>0, <2>1, InitializeEffect DEF Handshake
    <2>2. CASE Close
      BY <2>0, <2>2 DEF Close, Handshake
    <2>3. CASE \E c \in Callers : Format(c) \/ Enqueue(c)
      BY <2>3 DEF Format, Enqueue
    <2>4. CASE Drain
      BY <2>4 DEF Drain, Sleep, Take, Emit, Notice, Exit
    <2>5. CASE SpuriousWake \/ Shutdown \/ Join
      BY <2>5 DEF SpuriousWake, Shutdown, Join
    <2> QED  BY <2>1, <2>2, <2>3, <2>4, <2>5 DEF Next
  <1> QED  BY <1>1, Invariance, PTL DEF Spec, NoOutputChangesUnderEmit

--------------------------------------------------------------------------------
(* The refinement.                                                         *)

(* A step that changes neither the waiting lines, the written lines, the   *)
(* mode nor the sum of the losses is a stuttering step of the contract.    *)
LEMMA ContractStutters ==
    ASSUME UNCHANGED <<thread, stopping, Pending, emitted>>,
           dropped' + drainDropped' = dropped + drainDropped
    PROVE  UNCHANGED Contract!contractVars
  BY DEF Contract!contractVars

(* Enqueuing a line appends it to the waiting lines.                       *)
LEMMA AcceptAppends ==
    ASSUME NEW c \in Callers, IInv, IInv', Waiting, Waiting', Enqueue(c), Accept(c)
    PROVE  held[c] \in Line /\ Pending' = Append(Pending, held[c])
  <1> USE LogAssumption
  <1>1. /\ held[c] \in Line
        /\ accepted \in Seq(Line) /\ Len(accepted) \in Nat
        /\ emitted \in Seq(Line) /\ Len(emitted) \in Nat
        /\ count \in Nat /\ Ahead \in 0 .. 1
    BY DEF IInv, TypeOK, Enqueue, Ahead
  <1>2. /\ accepted' = Append(accepted, held[c]) /\ emitted' = emitted
        /\ count' = count + 1 /\ Ahead' = Ahead
    BY DEF Enqueue, Accept, Wake, Ahead
  <1>3. Pending \in Seq(Line) /\ Pending' \in Seq(Line) /\ Len(Pending) = Ahead + count
        /\ Len(Pending') = Ahead + count + 1
    BY <1>1, <1>2 DEF Waiting
  <1>4. /\ Append(Pending, held[c]) \in Seq(Line)
        /\ Len(Append(Pending, held[c])) = Ahead + count + 1
    BY <1>1, <1>3, AppendProperties
  <1>5. ASSUME NEW i \in 1 .. Len(Pending')
        PROVE  Pending'[i] = Append(Pending, held[c])[i]
    <2>1. Pending'[i] = accepted'[Len(emitted) + i]
      BY <1>1, <1>2, <1>3 DEF Waiting
    <2>2. Len(accepted) = Len(emitted) + Ahead + count
      BY DEF IInv, Places
    <2>3. CASE i <= Ahead + count
      <3>1. Len(emitted) + i \in 1 .. Len(accepted) /\ i \in 1 .. Len(Pending)
        BY <1>1, <1>3, <2>2, <2>3
      <3>2. accepted'[Len(emitted) + i] = accepted[Len(emitted) + i]
        BY <1>1, <1>2, <3>1
      <3>3. Append(Pending, held[c])[i] = Pending[i]
        BY <1>1, <1>3, <3>1, AppendProperties
      <3>4. Pending[i] = accepted[Len(emitted) + i]
        BY <1>3, <3>1 DEF Waiting
      <3> QED  BY <2>1, <3>2, <3>3, <3>4
    <2>4. CASE i = Ahead + count + 1
      <3>1. Len(emitted) + i = Len(accepted) + 1 /\ i = Len(Pending) + 1
        BY <1>1, <1>3, <2>2, <2>4
      <3>2. accepted'[Len(emitted) + i] = held[c]
        BY <1>1, <1>2, <3>1
      <3>3. Append(Pending, held[c])[i] = held[c]
        BY <1>1, <1>3, <3>1, AppendProperties
      <3> QED  BY <2>1, <3>2, <3>3
    <2> QED  BY <1>1, <1>3, <2>3, <2>4
  <1>6. Pending' = Append(Pending, held[c])
    BY <1>3, <1>4, <1>5, SeqEqual
  <1> QED  BY <1>1, <1>6

(* A step that keeps the accepted and the written lines and the number of  *)
(* the lines that wait keeps the lines that wait.                          *)
LEMMA PendingKept ==
    ASSUME IInv, Waiting, Waiting', UNCHANGED <<accepted, emitted>>,
           Ahead' + count' = Ahead + count
    PROVE  Pending' = Pending
  <1>1. Len(Pending') = Len(Pending)
    BY DEF Waiting
  <1>2. ASSUME NEW i \in 1 .. Len(Pending') PROVE Pending'[i] = Pending[i]
    BY <1>1 DEF Waiting
  <1>3. Pending \in Seq(Line) /\ Pending' \in Seq(Line)
    BY DEF Waiting
  <1> QED  BY <1>1, <1>2, <1>3, SeqEqual

(* Writing a line takes it from the front of the waiting lines.            *)
LEMMA EmitDelivers ==
    ASSUME IInv, IInv', Waiting, Waiting', Emit
    PROVE  /\ Pending # <<>>
           /\ Pending' = Tail(Pending)
           /\ emitted' = Append(emitted, Head(Pending))
  <1> USE LogAssumption
  <1>1. /\ emitted \in Seq(Line) /\ Len(emitted) \in Nat /\ count \in Nat
        /\ accepted \in Seq(Line)
    BY DEF IInv, TypeOK
  <1>2. /\ Ahead = 1 /\ Ahead' = 0 /\ count' = count /\ accepted' = accepted
        /\ emitted' = Append(emitted, drainLine)
    BY DEF Emit, Ahead, ring
  <1>3. /\ Pending \in Seq(Line) /\ Len(Pending) = 1 + count
        /\ Pending' \in Seq(Line) /\ Len(Pending') = count
    BY <1>1, <1>2 DEF Waiting
  <1>4. Pending # <<>>
    BY <1>1, <1>3
  <1>5. Head(Pending) = drainLine
    <2>1. Head(Pending) = Pending[1]
      BY <1>3, <1>4
    <2>2. Pending[1] = accepted[Len(emitted) + 1]
      BY <1>1, <1>2, <1>3 DEF Waiting
    <2>3. accepted[Len(emitted) + 1] = drainLine
      BY DEF IInv, Places, Emit
    <2> QED  BY <2>1, <2>2, <2>3
  <1>6. /\ Tail(Pending) \in Seq(Line) /\ Len(Tail(Pending)) = count
        /\ \A i \in 1 .. count : Tail(Pending)[i] = Pending[i + 1]
    BY <1>1, <1>3, <1>4, HeadTailProperties
  <1>7. ASSUME NEW i \in 1 .. Len(Pending') PROVE Pending'[i] = Tail(Pending)[i]
    <2>1. Len(emitted') = Len(emitted) + 1
      BY <1>1, <1>2 DEF IInv, TypeOK
    <2>2. Pending'[i] = accepted[Len(emitted) + 1 + i]
      BY <1>1, <1>2, <1>3, <2>1 DEF Waiting
    <2>3. Pending[i + 1] = accepted[Len(emitted) + (i + 1)]
      BY <1>1, <1>2, <1>3 DEF Waiting
    <2>4. Len(emitted) + 1 + i = Len(emitted) + (i + 1)
      BY <1>1, <1>3
    <2> QED  BY <1>3, <1>6, <2>2, <2>3, <2>4
  <1>8. Pending' = Tail(Pending)
    BY <1>3, <1>6, <1>7, SeqEqual
  <1> QED  BY <1>2, <1>4, <1>5, <1>8

(* Every step of the logger is a step of the lossy channel or invisible to *)
(* its users.                                                              *)
LEMMA ContractStep ==
    IInv /\ IInv' /\ Waiting /\ Waiting' /\ [Next]_vars
        => [Contract!Next]_(Contract!contractVars)
  <1> SUFFICES ASSUME IInv, IInv', Waiting, Waiting', [Next]_vars
               PROVE  Contract!Next \/ UNCHANGED Contract!contractVars
    OBVIOUS
  <1> USE LogAssumption
  <1>0. TypeOK /\ Handshake /\ Losses  BY DEF IInv
  <1>1. ASSUME NEW c \in Callers, Format(c) PROVE UNCHANGED Contract!contractVars
    <2>1. Pending' = Pending
      BY <1>1, PendingKept DEF Format, ring, drainVars, history, Ahead
    <2> QED  BY <1>1, <2>1, ContractStutters DEF Format, ring, drainVars, history
  <1>2. ASSUME NEW c \in Callers, Enqueue(c)
        PROVE  Contract!Next \/ UNCHANGED Contract!contractVars
    <2>1. UNCHANGED <<stopping, thread, emitted, drainDropped>>
      BY <1>2 DEF Enqueue
    <2>2. CASE Accept(c)
      <3>1. held[c] \in Line /\ Pending' = Append(Pending, held[c])
        BY <1>2, <2>2, AcceptAppends
      <3>2. thread /\ ~stopping /\ dropped' = dropped
        BY <2>2 DEF Accept, Accepting
      <3>3. Len(Pending) <= Capacity
        BY <1>0, <2>2 DEF Waiting, Accept, HasRoom, Ahead, TypeOK
      <3>4. Contract!Accept
        BY <2>1, <3>1, <3>2, <3>3 DEF Contract!Accept
      <3> QED  BY <3>4 DEF Contract!Next
    <2>3. CASE Drop
      <3>1. /\ thread /\ ~stopping /\ count >= Capacity /\ dropped' = dropped + 1
            /\ UNCHANGED <<drainPc, count, accepted>>
        BY <1>0, <2>3 DEF Drop, Accepting, HasRoom, TypeOK
      <3>2. Pending' = Pending
        BY <2>1, <3>1, PendingKept DEF Ahead
      <3>3. Len(Pending) >= Capacity
        BY <1>0, <3>1 DEF Waiting, Ahead, TypeOK
      <3>4. dropped' + drainDropped' = dropped + drainDropped + 1
        BY <1>0, <2>1, <3>1 DEF TypeOK
      <3>5. Contract!Refuse
        BY <2>1, <3>1, <3>2, <3>3, <3>4 DEF Contract!Refuse
      <3> QED  BY <3>5 DEF Contract!Next
    <2>4. CASE Ignore
      <3>1. UNCHANGED <<drainPc, count, accepted, dropped>>
        BY <2>4 DEF Ignore
      <3>2. Pending' = Pending
        BY <2>1, <3>1, PendingKept DEF Ahead
      <3> QED  BY <2>1, <3>1, <3>2, ContractStutters
    <2> QED  BY <1>2, <2>2, <2>3, <2>4 DEF Enqueue
  <1>3. CASE Sleep \/ SpuriousWake \/ Exit
    <2>1. /\ UNCHANGED <<thread, stopping, emitted, accepted, count, dropped, drainDropped>>
          /\ Ahead' = Ahead
      BY <1>3 DEF Sleep, SpuriousWake, Exit, ring, history, Ahead
    <2>2. Pending' = Pending
      BY <2>1, PendingKept
    <2> QED  BY <2>1, <2>2, ContractStutters
  <1>4. CASE Take
    <2>1. /\ UNCHANGED <<thread, stopping, emitted, accepted>>
          /\ drainPc = "loop" /\ drainPc' = "emit" /\ count' = count - 1
          /\ dropped' = 0 /\ drainDropped' = dropped
      BY <1>4 DEF Take, history
    <2>2. drainDropped = 0
      BY <1>0, <2>1 DEF Losses, TypeOK
    <2>3. Ahead' + count' = Ahead + count
      BY <1>0, <2>1 DEF Ahead, TypeOK
    <2>4. Pending' = Pending
      BY <2>1, <2>3, PendingKept
    <2>5. dropped' + drainDropped' = dropped + drainDropped
      BY <1>0, <2>1, <2>2 DEF TypeOK
    <2> QED  BY <2>1, <2>4, <2>5, ContractStutters
  <1>5. CASE Emit
    <2>1. UNCHANGED <<thread, stopping, dropped, drainDropped>>
      BY <1>5 DEF Emit, ring
    <2>2. Contract!Deliver
      BY <1>5, <2>1, EmitDelivers DEF Contract!Deliver
    <2> QED  BY <2>2 DEF Contract!Next
  <1>6. CASE Notice
    <2>1. /\ UNCHANGED <<thread, stopping, dropped, emitted, accepted, count>>
          /\ drainDropped' = 0 /\ Ahead' = Ahead
      BY <1>6 DEF Notice, ring, Ahead
    <2>2. Pending' = Pending
      BY <2>1, PendingKept
    <2>3. CASE drainDropped = 0
      BY <2>1, <2>2, <2>3, ContractStutters
    <2>4. CASE drainDropped > 0
      <3>1. /\ dropped + drainDropped > 0
            /\ dropped' + drainDropped' \in 0 .. dropped + drainDropped - 1
        BY <1>0, <2>1, <2>4 DEF TypeOK
      <3>2. UNCHANGED <<thread, stopping, Pending, emitted>>
        BY <2>1, <2>2
      <3>3. Contract!Report
        BY <1>0, <2>1, <2>4, <3>2 DEF Contract!Report, TypeOK
      <3> QED  BY <3>3 DEF Contract!Next
    <2> QED  BY <1>0, <2>3, <2>4 DEF TypeOK
  <1>7. CASE Initialize
    <2>1. /\ ~thread /\ drainPc = "none" /\ count = 0 /\ count' = 0
          /\ Ahead = 0 /\ Ahead' = 0
      BY <1>0, <1>7, InitializeEffect DEF Handshake, Ahead
    <2>2. Pending = <<>> /\ Pending' = <<>>
      BY <2>1 DEF Waiting
    <2>3. /\ dropped = 0 /\ drainDropped = 0 /\ dropped' = 0 /\ drainDropped' = 0
      BY <1>0, <1>7, <2>1, InitializeEffect DEF Losses, TypeOK
    <2>4. stopping' = FALSE /\ thread' \in BOOLEAN
      BY <1>7, InitializeEffect
    <2>5. CASE thread' = TRUE
      <3>1. emitted' = <<>>
        BY <1>7, <2>5, InitializeEffect
      <3>2. Contract!Open
        BY <2>1, <2>2, <2>3, <2>4, <2>5, <3>1 DEF Contract!Open
      <3> QED  BY <3>2 DEF Contract!Next
    <2>6. CASE thread' = FALSE
      <3>1. emitted' = emitted
        BY <1>7, <2>6, InitializeEffect DEF history
      <3> QED  BY <2>1, <2>2, <2>3, <2>6, <3>1 DEF Contract!contractVars
    <2> QED  BY <2>4, <2>5, <2>6
  <1>8. CASE Shutdown
    <2>1. /\ UNCHANGED <<thread, dropped, drainDropped, emitted, accepted, count>>
          /\ stopping' = TRUE /\ controlPc = "idle" /\ Ahead' = Ahead
      BY <1>8 DEF Shutdown, Wake, history, Ahead
    <2>2. Pending' = Pending
      BY <2>1, PendingKept
    <2>3. CASE thread
      <3>1. ~stopping
        BY <1>0, <2>1, <2>3 DEF Handshake
      <3>2. Contract!BeginClose
        BY <2>1, <2>2, <2>3, <3>1 DEF Contract!BeginClose
      <3> QED  BY <3>2 DEF Contract!Next
    <2>4. CASE ~thread
      BY <2>1, <2>2, <2>4 DEF Contract!contractVars
    <2> QED  BY <2>3, <2>4
  <1>9. CASE Join
    <2>1. /\ UNCHANGED <<thread, stopping, emitted, accepted, count, dropped, drainDropped>>
          /\ Ahead' = Ahead
      BY <1>9 DEF Join, ring, drainVars, history, Ahead
    <2>2. Pending' = Pending
      BY <2>1, PendingKept
    <2> QED  BY <2>1, <2>2, ContractStutters
  <1>10. CASE Close
    <2>1. /\ UNCHANGED <<stopping, emitted, accepted, count, dropped, drainDropped>>
          /\ stopping /\ drainPc \in {"none", "done"}
          /\ count = 0 /\ thread' = FALSE /\ drainPc' = "none"
      BY <1>0, <1>10 DEF Close, Handshake, history
    <2>2. Ahead = 0 /\ Ahead' = 0
      BY <2>1 DEF Ahead
    <2>3. Pending = <<>> /\ Pending' = <<>>
      BY <2>1, <2>2 DEF Waiting
    <2>4. dropped = 0 /\ drainDropped = 0
      BY <1>0, <2>1 DEF Losses, TypeOK
    <2>5. CASE thread
      <3>1. Contract!EndClose
        BY <2>1, <2>3, <2>4, <2>5 DEF Contract!EndClose
      <3> QED  BY <3>1 DEF Contract!Next
    <2>6. CASE ~thread
      BY <2>1, <2>3, <2>6 DEF Contract!contractVars
    <2> QED  BY <2>5, <2>6
  <1>11. CASE UNCHANGED vars
    <2>1. /\ UNCHANGED <<thread, stopping, emitted, accepted, count, dropped, drainDropped>>
          /\ Ahead' = Ahead
      BY <1>11 DEF vars, ring, drainVars, history, Ahead
    <2>2. Pending' = Pending
      BY <2>1, PendingKept
    <2> QED  BY <2>1, <2>2, ContractStutters
  <1> QED
    BY <1>1, <1>2, <1>3, <1>4, <1>5, <1>6, <1>7, <1>8, <1>9, <1>10, <1>11
    DEF Next, Drain

(* The logger implements the lossy first-in first-out channel of           *)
(* LogContract.                                                            *)
THEOREM LoggerKeepsItsContract == Spec => ImplementsContract
  <1>1. Init => Contract!Init
    <2> SUFFICES ASSUME Init PROVE Contract!Init
      OBVIOUS
    <2>1. Waiting
      BY InitIInv, PendingIsTheRest DEF IInv
    <2>2. Pending = <<>>
      BY <2>1 DEF Waiting, Init, Ahead
    <2> QED  BY <2>2 DEF Init, Contract!Init
  <1>2. IInv => Waiting
    BY PendingIsTheRest DEF IInv
  <1> QED
    BY <1>1, <1>2, Invariance, ContractStep, PTL
    DEF Spec, ImplementsContract, Contract!Spec
================================================================================
