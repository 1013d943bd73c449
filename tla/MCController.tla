---------------------------- MODULE MCController ----------------------------
(***************************************************************************)
(* Controller for TLC.                                                     *)
(***************************************************************************)
EXTENDS Controller

CONSTANTS l1, l2
=============================================================================
