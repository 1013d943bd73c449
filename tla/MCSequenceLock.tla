--------------------------- MODULE MCSequenceLock ---------------------------
(***************************************************************************)
(* SequenceLock for TLC: who made which call, and on which machine.        *)
(***************************************************************************)
EXTENDS SequenceLockOrder, TLC

(* Two processes share a machine, the third is on another. *)
ThreeProcesses == 1 :> "p" @@ 2 :> "q" @@ 3 :> "r"
TwoHosts == "p" :> "here" @@ "q" :> "here" @@ "r" :> "there"
=============================================================================
