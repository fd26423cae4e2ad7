--------------------------- MODULE MCConfigClient ---------------------------
EXTENDS ConfigClient

(* The configurations the dashboard switches between: an image moves from
   the centre to the backdrop, one is shown by no entry, one names no
   module.                                                                 *)
Doc(centres, backdrops, library) ==
  [named |-> TRUE, centres |-> centres, backdrops |-> backdrops, library |-> library]

MCDocuments ==
  LET a == CHOOSE u \in Urls : TRUE
      b == CHOOSE u \in Urls : u # a
  IN {Doc({a}, {b}, {a, b}), Doc({a}, {}, {a}), Doc({b}, {b}, {a, b}), NoDocument}
=============================================================================
