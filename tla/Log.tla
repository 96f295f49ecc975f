---------------------------------- MODULE Log ----------------------------------
(***************************************************************************)
(* core/log.cpp: any thread formats a line outside the lock and enqueues it *)
(* in a ring under the lock; one writer thread drains the ring and writes   *)
(* outside the lock; one thread at a time (the runtime lock sees to it)     *)
(* calls initialize and shutdown.                                           *)
(*                                                                          *)
(* Every region that holds g_lock is one action, because nothing else that  *)
(* touches the same globals can run inside it.  emit() and                  *)
(* WaitForSingleObject run without the lock and are actions of their own.   *)
(***************************************************************************)
EXTENDS Integers, Sequences

CONSTANTS
    Writers,        \* threads that call write or write_game
    Control,        \* the thread that calls initialize and shutdown
    Capacity,       \* kQueueCapacity
    MaxLines,       \* bound: lines each writer formats
    MaxSessions,    \* bound: successful or failed calls of initialize
    NoLine          \* an empty Line

Callers == Writers \cup {Control}
Outputs == {"file", "console"}
MaxWarnings == 2    \* initialize warns at most once for each output

Line == Callers \X (1 .. MaxLines + MaxWarnings)

ASSUME LogAssumption ==
    /\ Control \notin Writers
    /\ Capacity \in Nat \ {0}
    /\ MaxLines \in Nat
    /\ MaxSessions \in Nat
    /\ NoLine \notin Line

VARIABLES
    queue,          \* g_queue
    head,           \* g_head
    count,          \* g_count
    dropped,        \* g_dropped
    stopping,       \* g_stopping
    thread,         \* g_thread # nullptr
    outputs,        \* which of g_file and g_console are open
    drainPc,        \* where the writer thread is in drain()
    drainLine,      \* its local line
    drainDropped,   \* its local dropped
    held,           \* the line each caller has formatted but not committed
    budget,         \* how many lines each caller will still format
    controlPc,      \* where the control thread is in shutdown()
    sessions,       \* calls of initialize that may still come
    accepted,       \* history: the lines enqueued since initialize
    emitted,        \* history: the lines written since initialize
    lost,           \* history: the lines refused since initialize
    reported        \* history: the losses a notice named since initialize

ring == <<queue, head, count, dropped, stopping, thread>>
drainVars == <<drainPc, drainLine, drainDropped>>
callerVars == <<held, budget>>
controlVars == <<controlPc, sessions>>
history == <<accepted, emitted, lost, reported>>
vars == <<ring, outputs, drainVars, callerVars, controlVars, history>>

Wrap(i) == i % Capacity

(* WakeConditionVariable wakes the writer thread if it sleeps.             *)
NoWake(pc) == pc    \* fault: WakeConditionVariable forgotten

Wake(pc) == IF pc = "asleep" THEN "loop" ELSE pc

Init ==
    /\ queue = [i \in 0 .. Capacity - 1 |-> NoLine]
    /\ head = 0 /\ count = 0 /\ dropped = 0
    /\ stopping = FALSE
    /\ thread = FALSE
    /\ outputs = {}
    /\ drainPc = "none"
    /\ drainLine = NoLine
    /\ drainDropped = 0
    /\ held = [c \in Callers |-> NoLine]
    /\ budget = [c \in Callers |-> IF c = Control THEN 0 ELSE MaxLines]
    /\ controlPc = "idle"
    /\ sessions = MaxSessions
    /\ accepted = <<>> /\ emitted = <<>>
    /\ lost = 0 /\ reported = 0

--------------------------------------------------------------------------------
(* enqueue, called by write and write_game.                                *)

(* The timestamp and the text are composed before the lock is taken.       *)
Format(c) ==
    /\ held[c] = NoLine
    /\ budget[c] > 0
    /\ held' = [held EXCEPT ![c] = <<c, budget[c]>>]
    /\ budget' = [budget EXCEPT ![c] = @ - 1]
    /\ UNCHANGED <<ring, outputs, drainVars, controlVars, history>>

AcceptingWhileStopping == thread    \* fault: g_stopping not tested

Accepting == thread /\ ~stopping

HasRoom == count < Capacity

FreeSlotFromZero == Wrap(count)     \* fault: g_head forgotten

FreeSlot == Wrap(head + count)

Accept(c) ==
    /\ Accepting /\ HasRoom
    /\ queue' = [queue EXCEPT ![FreeSlot] = held[c]]
    /\ count' = count + 1
    /\ drainPc' = Wake(drainPc)
    /\ accepted' = Append(accepted, held[c])
    /\ UNCHANGED <<head, dropped, lost>>

Drop ==
    /\ Accepting /\ ~HasRoom
    /\ dropped' = dropped + 1
    /\ lost' = lost + 1
    /\ UNCHANGED <<queue, head, count, drainPc, accepted>>

Ignore ==
    /\ ~Accepting
    /\ UNCHANGED <<queue, head, count, dropped, drainPc, accepted, lost>>

Enqueue(c) ==
    /\ held[c] # NoLine
    /\ Accept(c) \/ Drop \/ Ignore
    /\ held' = [held EXCEPT ![c] = NoLine]
    /\ UNCHANGED <<stopping, thread, outputs, drainLine, drainDropped, budget,
                   controlVars, emitted, reported>>

--------------------------------------------------------------------------------
(* drain, the writer thread.                                               *)

Sleep ==
    /\ drainPc = "loop"
    /\ count = 0 /\ ~stopping
    /\ drainPc' = "asleep"
    /\ UNCHANGED <<ring, outputs, drainLine, drainDropped, callerVars,
                   controlVars, history>>

(* SleepConditionVariableSRW may return without a wake.                    *)
SpuriousWake ==
    /\ drainPc = "asleep"
    /\ drainPc' = "loop"
    /\ UNCHANGED <<ring, outputs, drainLine, drainDropped, callerVars,
                   controlVars, history>>

TakeKeepingDropped ==   \* fault: g_dropped = 0 forgotten
    /\ drainPc = "loop"
    /\ count > 0
    /\ drainLine' = queue[head]
    /\ head' = Wrap(head + 1)
    /\ count' = count - 1
    /\ drainDropped' = dropped
    /\ drainPc' = "emit"
    /\ UNCHANGED <<queue, dropped, stopping, thread, outputs, callerVars,
                   controlVars, history>>

Take ==
    /\ drainPc = "loop"
    /\ count > 0
    /\ drainLine' = queue[head]
    /\ head' = Wrap(head + 1)
    /\ count' = count - 1
    /\ drainDropped' = dropped
    /\ dropped' = 0
    /\ drainPc' = "emit"
    /\ UNCHANGED <<queue, stopping, thread, outputs, callerVars, controlVars,
                   history>>

(* emit(line) and, on the way back to the loop, the test of dropped.       *)
Emit ==
    /\ drainPc = "emit"
    /\ emitted' = Append(emitted, drainLine)
    /\ drainLine' = NoLine
    /\ drainPc' = IF drainDropped # 0 THEN "notice" ELSE "loop"
    /\ UNCHANGED <<ring, outputs, drainDropped, callerVars, controlVars,
                   accepted, lost, reported>>

Notice ==
    /\ drainPc = "notice"
    /\ reported' = reported + drainDropped
    /\ drainDropped' = 0
    /\ drainPc' = "loop"
    /\ UNCHANGED <<ring, outputs, drainLine, callerVars, controlVars,
                   accepted, emitted, lost>>

ExitAtOnce ==   \* fault: g_count == 0 not tested
    /\ drainPc = "loop"
    /\ stopping
    /\ drainPc' = "done"
    /\ UNCHANGED <<ring, outputs, drainLine, drainDropped, callerVars,
                   controlVars, history>>

Exit ==
    /\ drainPc = "loop"
    /\ count = 0 /\ stopping
    /\ drainPc' = "done"
    /\ UNCHANGED <<ring, outputs, drainLine, drainDropped, callerVars,
                   controlVars, history>>

Drain == Sleep \/ Take \/ Emit \/ Notice \/ Exit

--------------------------------------------------------------------------------
(* initialize and shutdown.                                                *)

(* Opening the file and the console may fail, each by itself; console=0    *)
(* in the ini file leaves the console closed without a warning.  When      *)
(* CreateThread fails (started is FALSE) the outputs are closed again.     *)
Opening(opened, failed, started) ==
    /\ opened \cap failed = {}
    /\ "file" \in opened \cup failed
    /\ thread' = started
    /\ outputs' = IF started THEN opened ELSE {}
    /\ drainPc' = IF started THEN "loop" ELSE "none"
    /\ budget' = [budget EXCEPT ![Control] =
                    IF failed = {} THEN 0
                    ELSE IF failed = Outputs THEN MaxWarnings ELSE 1]
    /\ IF started
         THEN /\ accepted' = <<>> /\ emitted' = <<>>
              /\ lost' = 0 /\ reported' = 0
         ELSE UNCHANGED history

(* The early return with a thread already there changes nothing and is a   *)
(* stuttering step.                                                        *)
Initialize ==
    /\ controlPc = "idle"
    /\ held[Control] = NoLine /\ budget[Control] = 0
    /\ sessions > 0
    /\ sessions' = sessions - 1
    /\ ~thread
    /\ head' = 0 /\ count' = 0 /\ dropped' = 0
    /\ stopping' = FALSE
    /\ \E opened, failed \in SUBSET Outputs, started \in BOOLEAN :
           Opening(opened, failed, started)
    /\ UNCHANGED <<queue, drainLine, drainDropped, held, controlPc>>

(* The first critical section of shutdown.                                 *)
Shutdown ==
    /\ controlPc = "idle"
    /\ held[Control] = NoLine /\ budget[Control] = 0
    /\ stopping' = TRUE
    /\ drainPc' = Wake(drainPc)
    /\ controlPc' = IF thread THEN "join" ELSE "close"
    /\ UNCHANGED <<queue, head, count, dropped, thread, outputs, drainLine,
                   drainDropped, callerVars, sessions, history>>

(* WaitForSingleObject(thread, INFINITE).                                  *)
JoinAtOnce ==   \* fault: the wait is forgotten
    /\ controlPc = "join"
    /\ controlPc' = "close"
    /\ UNCHANGED <<ring, outputs, drainVars, callerVars, sessions, history>>

Join ==
    /\ controlPc = "join"
    /\ drainPc = "done"
    /\ controlPc' = "close"
    /\ UNCHANGED <<ring, outputs, drainVars, callerVars, sessions, history>>

(* The second critical section of shutdown, with close_outputs.            *)
Close ==
    /\ controlPc = "close"
    /\ thread' = FALSE
    /\ outputs' = {}
    /\ drainPc' = "none"
    /\ controlPc' = "idle"
    /\ UNCHANGED <<queue, head, count, dropped, stopping, drainLine,
                   drainDropped, callerVars, sessions, history>>

--------------------------------------------------------------------------------
Next ==
    \/ \E c \in Callers : Format(c) \/ Enqueue(c)
    \/ Drain
    \/ SpuriousWake
    \/ Initialize
    \/ Shutdown
    \/ Join
    \/ Close

Spec == Init /\ [][Next]_vars

(* The writer thread and the thread inside shutdown are scheduled by the   *)
(* operating system and never refuse to run; a formatted line is committed *)
(* by the code that follows.  Nobody is obliged to write, to initialize or *)
(* to shut down, and no spurious wake is assumed.                          *)
Fairness ==
    /\ WF_vars(Drain)
    /\ WF_vars(Join)
    /\ WF_vars(Close)
    /\ \A c \in Callers : WF_vars(Enqueue(c))

FairSpec == Spec /\ Fairness

--------------------------------------------------------------------------------
(* Properties.                                                             *)

(* The ring's contents, oldest first.                                      *)
Queued == [i \in 1 .. count |-> queue[Wrap(head + i - 1)]]

(* The line the writer thread has taken and not yet written.               *)
InFlight == IF drainPc = "emit" THEN <<drainLine>> ELSE <<>>

(* The lines accepted and not yet written, oldest first.                   *)
Pending == InFlight \o Queued

TypeOK ==
    /\ queue \in [0 .. Capacity - 1 -> Line \cup {NoLine}]
    /\ head \in 0 .. Capacity - 1
    /\ count \in 0 .. Capacity
    /\ dropped \in Nat
    /\ stopping \in BOOLEAN
    /\ thread \in BOOLEAN
    /\ outputs \in SUBSET Outputs
    /\ drainPc \in {"none", "loop", "asleep", "emit", "notice", "done"}
    /\ drainLine \in Line \cup {NoLine}
    /\ drainDropped \in Nat
    /\ held \in [Callers -> Line \cup {NoLine}]
    /\ budget \in [Callers -> 0 .. MaxLines + MaxWarnings]
    /\ controlPc \in {"idle", "join", "close"}
    /\ sessions \in 0 .. MaxSessions
    /\ accepted \in Seq(Line)
    /\ emitted \in Seq(Line)
    /\ lost \in Nat
    /\ reported \in Nat

(* Every line the queue accepted has been written, is being written or is  *)
(* waiting in the ring, in the order of acceptance: enqueue and drain      *)
(* share the ring through g_head and g_count and never lose, duplicate or  *)
(* reorder a line, even when the ring wraps around.                        *)
NothingMisplaced == accepted = emitted \o Pending

(* Every loss is either already named by a notice, in the hands of the     *)
(* writer thread, or counted in g_dropped: the swap of g_dropped with 0 in *)
(* drain neither loses nor repeats a loss that comes in meanwhile.         *)
LossesAccounted == lost = reported + drainDropped + dropped

(* When the writer thread has left, nothing is left behind: the drain test *)
(* of g_count alone, which ignores g_dropped, is enough for the last       *)
(* notice to come out before shutdown returns.                             *)
NothingLeftBehind ==
    drainPc = "done" =>
        /\ count = 0
        /\ emitted = accepted
        /\ reported = lost

(* emit reads g_file and g_console without the lock: initialize and        *)
(* close_outputs may not change them while the writer thread is in emit.   *)
NoOutputChangesUnderEmit ==
    [][outputs' # outputs => drainPc \notin {"emit", "notice"}]_vars

(* What log.h promises: the ring, the writer thread and the handshake      *)
(* implement the lossy channel of LogContract.                             *)
Contract == INSTANCE LogContract WITH
    Lines <- Line,
    mode <- IF ~thread THEN "closed" ELSE IF stopping THEN "closing" ELSE "open",
    pending <- Pending,
    written <- emitted,
    owed <- dropped + drainDropped

ImplementsContract == Contract!Spec

(* A line that was accepted is written in the end: the wake-up in enqueue  *)
(* and the wait loop in drain lose no wake-up.                             *)
AcceptedIsWritten ==
    \A line \in Line :
        (\E i \in 1 .. Len(accepted) : accepted[i] = line)
            ~> (\E i \in 1 .. Len(emitted) : emitted[i] = line)

(* shutdown always returns: the writer thread wakes up, empties the ring   *)
(* and leaves, whatever it was doing when shutdown was called.             *)
ShutdownReturns == controlPc # "idle" ~> controlPc = "idle"
================================================================================
