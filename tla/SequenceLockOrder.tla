-------------------------- MODULE SequenceLockOrder --------------------------
(***************************************************************************)
(* SequenceLock with the history that is needed to say who came first.     *)
(***************************************************************************)
EXTENDS SequenceLock

VARIABLE ahead      \* ahead[t]: who had a published ticket when t registered

orderVars == <<vars, ahead>>

OrderInit == Init /\ ahead = [t \in Token |-> {}]

OrderNext ==
    /\ Next
    /\ ahead' = [t \in Token |->
                    IF pc[t] = "idle" /\ pc'[t] = "published"
                    THEN {u \in Token : pc[u] \in InLine}
                    ELSE ahead[t]]

OrderSpec == OrderInit /\ [][OrderNext]_orderVars /\ Fairness

(* Serving order: a call whose ticket was published before another call    *)
(* registered is never overtaken by it.                                    *)
FirstComeFirstServed ==
    \A t \in Token : pc[t] = "held" =>
        \A u \in ahead[t] : pc[u] \notin {"polling", "waiting"}
=============================================================================
