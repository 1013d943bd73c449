--------------------------- MODULE MCReservation ---------------------------
(***************************************************************************)
(* Reservation for TLC: who knows and asks for what.  State files are 1, 2 *)
(* and 3, directories 11, 12 and 13.                                       *)
(***************************************************************************)
EXTENDS Reservation, TLC

Knows(path, legacy, option, default) ==
    [path |-> path, legacy |-> legacy, option |-> option, default |-> default,
     migrate |-> FALSE]
Moves(k) == [k EXCEPT !.migrate = TRUE]

Legacy(iv, seq) == [iv |-> iv, seq |-> seq, dir |-> None]
NewLights == [s \in Path |-> Legacy(0, 0)]

(* First use of new states: Homebridge knows both lights and keeps its     *)
(* store beside its registry, the CLI works with the second light only and *)
(* has another default.  The second light's file may be restored.          *)
Bootstrap ==
    [file |-> NewLights, backup |-> 2 :> Legacy(0, 0), count |-> {1, 2},
     caller |-> "homebridge" :> Knows(1, {1, 2}, 11, 11) @@ "cli" :> Knows(2, {2}, None, 12)]

(* The same with every light known to both, as the documentation asks when *)
(* the light files disagree about the last number used or the IV index.    *)
Disagreeing(file) ==
    [file |-> file, backup |-> <<>>, count |-> {1, 2},
     caller |-> "homebridge" :> Knows(1, {1, 2}, None, 11) @@ "cli" :> Knows(2, {1, 2}, None, 12)]

(* One light, whose file may be restored to a copy from before an IV update. *)
Rollback ==
    [file |-> 2 :> Legacy(1, 0) @@ NewLights, backup |-> 2 :> Legacy(0, 0), count |-> {1, 2},
     caller |-> "homebridge" :> Knows(2, {2}, None, 11) @@ "cli" :> Knows(2, {2}, None, 12)]

(* Two controllers that know one light each and share directory 11, and    *)
(* somebody who moves both lights to directory 12.                         *)
Move ==
    [file |-> NewLights, backup |-> <<>>, count |-> {1, 2},
     caller |-> "homebridge" :> Knows(1, {1}, 11, 11) @@ "cli" :> Knows(2, {2}, 11, 11)
                  @@ "third" :> Moves(Knows(1, {1, 2}, 12, 11))]

(* Three controllers with three defaults; every two share a light.         *)
Ring ==
    [file |-> NewLights, backup |-> <<>>, count |-> {2},
     caller |-> "homebridge" :> Knows(1, {1, 2}, None, 11) @@ "cli" :> Knows(2, {2, 3}, None, 12)
                  @@ "third" :> Knows(3, {1, 3}, None, 13)]

AllSetups ==
    {Bootstrap, Rollback, Move, Ring,
     Disagreeing(1 :> Legacy(0, 1) @@ NewLights),
     Disagreeing(2 :> Legacy(1, 0) @@ NewLights)}
ASSUME SetupsLinked == \A s \in AllSetups : Linked(s) /\ KnowsLast(s)

BootstrapOnly == {Bootstrap}
MoveOnly == {[Move EXCEPT !.count = {1}]}
=============================================================================
