--------------------------- MODULE SequenceLease ---------------------------
(***************************************************************************)
(* What a lock directory of the mesh sequence store promises its callers,  *)
(* whatever protocol implements it: of all the attempts ever made to take  *)
(* the lease, at most one holds it, each holds it at most once, and an     *)
(* attempt that is over (released, timed out, aborted or dead) never comes *)
(* back.  SequenceLock implements this module.                             *)
(***************************************************************************)

CONSTANT Token          \* the attempts ever made, each named by a fresh UUID

VARIABLE status         \* status[t]: "trying", "held" or "over"

Init == status = [t \in Token |-> "trying"]

(* A caller gets the lease only while nobody else holds it. *)
Acquire(t) ==
    /\ status[t] = "trying"
    /\ \A u \in Token : status[u] # "held"
    /\ status' = [status EXCEPT ![t] = "held"]

(* Attempts end together when the process that made them dies. *)
Finish(T) ==
    status' = [t \in Token |-> IF t \in T THEN "over" ELSE status[t]]

Next ==
    \/ \E t \in Token : Acquire(t)
    \/ \E T \in SUBSET Token : Finish(T)

Spec == Init /\ [][Next]_status
=============================================================================
