------------------------------- MODULE CodePatch -------------------------------
(***************************************************************************)
(* What package_trust.cpp and tls_policy.cpp have in common: both put       *)
(* patches into the game's code one after the other, roll them back when    *)
(* one is refused, and take them out again.  Each write is one step.  The   *)
(* bytes of a site are reduced to whose they are, and write_code's changes  *)
(* of the protection to whether Windows refuses one of them.                *)
(***************************************************************************)
EXTENDS Naturals, Sequences

CONSTANT MaxRefusals    \* bound: changes of protection that Windows refuses

ASSUME CodePatchAssumption == MaxRefusals \in Nat

Bytes == {"stock", "patched"}
SavedBytes == Bytes \cup {"unset"}

VARIABLES
    site,           \* the bytes of each site
    known,          \* the sites whose addresses are set (g_headerBranch, ...)
    saved,          \* the originals (g_headerBranchOriginal, ...)
    pc,             \* where the call in progress is
    todo,           \* the sites it has still to write
    ok,             \* whether its writes succeeded so far; then what it returned
    owing,          \* history: the sites whose last write was refused to an install
    refusals        \* what is left of the bound

Go(label, list) == pc' = label /\ todo' = list

Return(value) == pc' = "returned" /\ ok' = value

(* A site that is written back only if its address is set.                 *)
When(s) == IF s \in known THEN <<s>> ELSE <<>>

Restoring == {"trust restore", "tls restore"}

(* write_code.  A refusal comes before the copy or after it: the answer    *)
(* does not tell.                                                          *)
Write(s, new, done) ==
    /\ IF done THEN UNCHANGED refusals ELSE refusals > 0 /\ refusals' = refusals - 1
    /\ \E bytes \in (IF done THEN {new} ELSE {site[s], new}) :
           site' = [site EXCEPT ![s] = bytes]
    /\ owing' = IF done THEN owing \ {s}
                ELSE IF pc \in Restoring THEN owing ELSE owing \cup {s}

(* The next patch of an install; when it is refused, back is written back. *)
PutInRegardless(here, undo, back) ==    \* fault: the answer is ignored
    /\ pc = here /\ todo # <<>>
    /\ \E done \in BOOLEAN : Write(Head(todo), "patched", done)
    /\ Go(here, Tail(todo))
    /\ UNCHANGED <<known, saved, ok>>

PutIn(here, undo, back) ==
    /\ pc = here /\ todo # <<>>
    /\ \E done \in BOOLEAN :
        /\ Write(Head(todo), "patched", done)
        /\ IF done THEN Go(here, Tail(todo)) ELSE Go(undo, back)
    /\ UNCHANGED <<known, saved, ok>>

AllIn(here) ==
    /\ pc = here /\ todo = <<>>
    /\ Return(TRUE)
    /\ UNCHANGED <<site, known, saved, todo, owing, refusals>>

(* The next write of a roll-back, whose answer is ignored.                 *)
RollBack(here) ==
    /\ pc = here /\ todo # <<>>
    /\ \E done \in BOOLEAN : Write(Head(todo), saved[Head(todo)], done)
    /\ Go(here, Tail(todo))
    /\ UNCHANGED <<known, saved, ok>>

(* clear_state, and the install has failed.                                *)
RolledBack(here, mine) ==
    /\ pc = here /\ todo = <<>>
    /\ known' = known \ mine
    /\ Return(FALSE)
    /\ UNCHANGED <<site, saved, todo, owing, refusals>>

(* The next write of an uninstall, which goes on after a refusal.          *)
TakeOut(here) ==
    /\ pc = here /\ todo # <<>>
    /\ \E done \in BOOLEAN :
        /\ Write(Head(todo), saved[Head(todo)], done)
        /\ ok' = (done /\ ok)
    /\ Go(here, Tail(todo))
    /\ UNCHANGED <<known, saved>>

(* The addresses are kept until every write has succeeded.                 *)
AllOut(here, mine) ==
    /\ pc = here /\ todo = <<>>
    /\ known' = IF ok THEN known \ mine ELSE known
    /\ Return(ok)
    /\ UNCHANGED <<site, saved, todo, owing, refusals>>
================================================================================
