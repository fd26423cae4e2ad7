----------------------------- MODULE MCSimulation -----------------------------
EXTENDS Simulation

CONSTANTS ripples, deep, choir, empty

Lattice(columns, rows, depth, extentX, extentY) ==
  [kind |-> "field", columns |-> columns, rows |-> rows, depth |-> depth,
   topology |-> "grid", extentX |-> extentX, extentY |-> extentY, wave |-> FALSE]

Entity(template) == [kind |-> "entity", template |-> template]

(* A gated lattice with a root in its middle and an emitter that brings
   emitters with it, near the limit of the particles; a lattice of even rows
   that loses its last cell to the room, leaves none for the field after it,
   and whose root the extent can leave outside; a ring beside a field that waves cross; nothing.      *)
MCModules ==
  (ripples :> [room |-> 20, particles |-> 24,
               scene |-> <<Lattice(4, 3, 1, TRUE, TRUE), Entity("fountain")>>]) @@
  (deep :> [room |-> 11, particles |-> 11,
            scene |-> <<Lattice(3, 2, 2, TRUE, FALSE), Lattice(3, 3, 1, TRUE, TRUE)>>]) @@
  (choir :> [room |-> 12, particles |-> 12,
             scene |-> <<[Lattice(5, 1, 1, TRUE, FALSE) EXCEPT !.topology = "nearest"],
                         [Lattice(3, 2, 1, FALSE, TRUE) EXCEPT !.wave = TRUE],
                         [Lattice(2, 2, 1, FALSE, FALSE) EXCEPT !.topology = "none"]>>]) @@
  (empty :> [room |-> 12, particles |-> 12, scene |-> <<>>])

Spark == [renders |-> TRUE, emits |-> NoEmitter]
MCTemplates ==
  [spark |-> <<Spark, Spark>>,
   fountain |-> <<[renders |-> FALSE,
                   emits |-> <<[template |-> "jet", burst |-> 1, maximum |-> 2]>>]>>,
   jet |-> <<Spark, [renders |-> TRUE,
                     emits |-> <<[template |-> "spark", burst |-> 2, maximum |-> 3]>>]>>]
===============================================================================
