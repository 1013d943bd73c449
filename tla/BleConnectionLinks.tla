-------------------------- MODULE BleConnectionLinks --------------------------
(***************************************************************************)
(* BleConnection with the history that is needed to say which connection   *)
(* may be left behind.                                                     *)
(***************************************************************************)
EXTENDS BleConnection

VARIABLES
    handed,     \* the connection that is up is that of a writer that was handed out
    refused     \* a disconnect of the connection that is up was rejected

linkVars == <<vars, handed, refused>>

HandsOut(o) == kind[o] = "writer" /\ Gen(o) = link' /\ pc'[o] = "ready"
Rejected == \E g \in Generation : <<"disconnect", g>> \in tasks \ tasks'

LinkInit == Init /\ handed = FALSE /\ refused = FALSE

LinkNext ==
    /\ Next
    /\ handed' = /\ link' # None
                 /\ (handed /\ link' = link) \/ \E o \in Op : HandsOut(o)
    /\ refused' = /\ link' # None
                  /\ (refused /\ link' = link) \/ Rejected

LinkSpec == LinkInit /\ [][LinkNext]_linkVars

FairLinkSpec == LinkSpec /\ Fairness

(* A connection that is up and has its address is being closed, or is that *)
(* of a handle that knows of it and is still to be closed.  The exception  *)
(* is one whose disconnect was rejected, where the finalizer of a profile, *)
(* the cleanup of a late connect and a connectProxyWriter that has failed  *)
(* swallow the error; but a writer that was handed out is never given up.  *)
NoLinkLost ==
    link # None /\ addressOwner = link /\ <<"disconnect", link>> \notin tasks =>
        \/ owned[link[1]] /\ Gen(link[1]) = link /\ pc[link[1]] # "over"
        \/ refused /\ ~handed
=============================================================================
