------------------------------ MODULE LogContract ------------------------------
(***************************************************************************)
(* What core/log.h promises its callers, without the ring buffer, the      *)
(* writer thread or the shutdown handshake: a first-in first-out channel    *)
(* of bounded capacity that may refuse a line when it is full, that owes a  *)
(* notice for every line it refused, and that never closes while it still   *)
(* holds a line or owes a notice.                                           *)
(***************************************************************************)
EXTENDS Integers, Sequences

CONSTANTS
    Lines,      \* the lines that callers may write
    Capacity    \* the lines that may wait for the writer

VARIABLES
    mode,       \* "closed", "open" or "closing"
    pending,    \* accepted, not yet written, oldest first
    written,    \* written since the channel was opened
    owed        \* refused lines no notice has reported yet

contractVars == <<mode, pending, written, owed>>

Init ==
    /\ mode = "closed"
    /\ pending = <<>>
    /\ written = <<>>
    /\ owed = 0

Open ==
    /\ mode = "closed"
    /\ mode' = "open"
    /\ written' = <<>>
    /\ UNCHANGED <<pending, owed>>

Accept ==
    /\ mode = "open"
    /\ Len(pending) <= Capacity     \* one line may be in the writer's hands
    /\ \E line \in Lines : pending' = Append(pending, line)
    /\ UNCHANGED <<mode, written, owed>>

Refuse ==
    /\ mode = "open"
    /\ Len(pending) >= Capacity
    /\ owed' = owed + 1
    /\ UNCHANGED <<mode, pending, written>>

Deliver ==
    /\ pending # <<>>
    /\ written' = Append(written, Head(pending))
    /\ pending' = Tail(pending)
    /\ UNCHANGED <<mode, owed>>

Report ==
    /\ owed > 0
    /\ owed' \in 0 .. owed - 1
    /\ UNCHANGED <<mode, pending, written>>

BeginClose ==
    /\ mode = "open"
    /\ mode' = "closing"
    /\ UNCHANGED <<pending, written, owed>>

EndClose ==
    /\ mode = "closing"
    /\ pending = <<>>
    /\ owed = 0
    /\ mode' = "closed"
    /\ UNCHANGED <<pending, written, owed>>

Next ==
    \/ Open
    \/ Accept
    \/ Refuse
    \/ Deliver
    \/ Report
    \/ BeginClose
    \/ EndClose

Spec == Init /\ [][Next]_contractVars
================================================================================
