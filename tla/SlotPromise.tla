----------------------------- MODULE SlotPromise -----------------------------
(***************************************************************************)
(* What specs/backdrop-transitions.md and the comments on the two image    *)
(* slots of src/src/core/simulation.h promise of one slot: it changes      *)
(* occupant in one step, the change runs for exactly the length it was     *)
(* started with and in the manner it was started with, and only another    *)
(* change of occupant interrupts it.                                       *)
(***************************************************************************)
EXTENDS Integers

CONSTANTS
  Images,         (* the occupants, Nobody among them                       *)
  Nobody,         (* no image                                               *)
  Manners,        (* [shape, ticks]: how a change may be made               *)
  LeavesNobody    (* whether a change that replaces Nobody is a transition  *)

VARIABLES
  showing,        (* the occupant                                           *)
  leaving,        (* the one it replaces, while left > 0                    *)
  manner,         (* of the change under way, or the last one               *)
  left            (* ticks until it has finished                            *)

vars == <<showing, leaving, manner, left>>

Init == showing = Nobody /\ leaving = Nobody /\ left = 0 /\ manner \in Manners

(* The first tick of a change is part of it.                               *)
Change ==
  \E image \in Images \ {showing}, m \in Manners :
    LET runs == IF showing = Nobody /\ ~LeavesNobody THEN 0 ELSE m.ticks
    IN /\ showing' = image
       /\ manner' = m
       /\ left' = IF runs > 0 THEN runs - 1 ELSE 0
       /\ leaving' = IF left' > 0 THEN showing ELSE Nobody

Advance ==
  /\ left > 0
  /\ left' = left - 1
  /\ leaving' = IF left' > 0 THEN leaving ELSE Nobody
  /\ UNCHANGED <<showing, manner>>

Next == Change \/ Advance

(* An occupant that is not leaving any more can only be changed.           *)
Spec == Init /\ [][Next]_vars
=============================================================================
