------------------------------- MODULE EditLog -------------------------------
(***************************************************************************)
(* What the edit events of a story promise.  The effect of an edit on the  *)
(* rows appears in the step that records its success, or never.  Later     *)
(* edits may supersede an effect and deletions may remove it; it does not  *)
(* come back while the edit is on record.  A success that can be seen no   *)
(* more may yet be recorded as a failure.                                  *)
(***************************************************************************)
CONSTANT Edits

VARIABLES
    outcome,    \* of an edit: none, pending, succeeded, failed
    standing    \* edits whose effect can be seen in the rows

Init == outcome = [e \in Edits |-> "none"] /\ standing = {}

Open(e) ==
    /\ outcome[e] = "none"
    /\ outcome' = [outcome EXCEPT ![e] = "pending"]
    /\ UNCHANGED standing

\* Takes effect, in place of any set of earlier edits.
Succeed(e) ==
    /\ outcome[e] \in {"none", "pending"}
    /\ outcome' = [outcome EXCEPT ![e] = "succeeded"]
    /\ \E superseded \in SUBSET standing : standing' = (standing \ superseded) \cup {e}

\* What it was for has been deleted meanwhile.
SucceedInVain(e) ==
    /\ outcome[e] \in {"none", "pending"}
    /\ outcome' = [outcome EXCEPT ![e] = "succeeded"]
    /\ UNCHANGED standing

\* Recorded as failed: it has no effect, or what it had effect on has been deleted.
Fail(e) ==
    /\ outcome[e] \in {"pending", "succeeded"}
    /\ e \notin standing
    /\ outcome' = [outcome EXCEPT ![e] = "failed"]
    /\ UNCHANGED standing

\* Effects are removed, and with a project the record of the edits themselves.
Erase ==
    /\ \E kept \in SUBSET standing : standing' = kept
    /\ \E forgotten \in SUBSET (Edits \ standing') :
        outcome' = [e \in Edits |-> IF e \in forgotten THEN "none" ELSE outcome[e]]

Next == Erase \/ \E e \in Edits : Open(e) \/ Succeed(e) \/ SucceedInVain(e) \/ Fail(e)

Spec == Init /\ [][Next]_<<outcome, standing>>
=============================================================================
