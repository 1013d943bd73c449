--------------------------- MODULE MCBleConnection ---------------------------
(***************************************************************************)
(* BleConnection for TLC: three operations on one light.                   *)
(***************************************************************************)
EXTENDS BleConnectionLinks, TLC

CONSTANTS o1, o2, o3

(* A writer, a profile and a scan of each meet; and two writers, which may *)
(* both be handed out, meet a profile.                                     *)
Casts ==
    {o1 :> "writer" @@ o2 :> "profile" @@ o3 :> "scan",
     o1 :> "writer" @@ o2 :> "writer" @@ o3 :> "profile"}
=============================================================================
