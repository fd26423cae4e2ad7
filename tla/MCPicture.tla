------------------------------ MODULE MCPicture ------------------------------
EXTENDS Picture

CONSTANTS e1, e2, i1, i2, shown, other, flip, plain

MCIds == {e1, e2}
MCImages == {Nobody, i1, i2}
MCManners == {[shape |-> flip, ticks |-> 3], [shape |-> plain, ticks |-> 0]}
MCDefaultManner == [shape |-> plain, ticks |-> 2]

Col(c, b) == [centre |-> c, backdrop |-> b]

(* One entry with both images and another alternative, one with only a
   backdrop; no entry of the second links an alternative.                  *)
First == [id |-> e1, own |-> Col(i1, i1), alt |-> Col(i2, Nobody)]
Second == [id |-> e2, own |-> Col(Nobody, i2), alt |-> Col(Nobody, i2)]

(* Another entry with the first one's id.                                  *)
Twin == [id |-> e1, own |-> Col(i2, Nobody), alt |-> Col(i1, i1)]

Held(entries, pinned, message) ==
  [entries |-> entries, group |-> shown, pinned |-> pinned, message |-> message]

MCRotations ==
  {Held(<<First, Second>>, NoId, FALSE), Held(<<Second, First>>, NoId, FALSE),
   Held(<<First>>, NoId, FALSE), Held(<<First, Second>>, e2, FALSE),
   Held(<<First, Second>>, NoId, TRUE), Held(<<Twin, First>>, NoId, FALSE),
   Held(<<>>, NoId, FALSE)}

Selection(e, group, alt, paused, ticks) ==
  LET m == CHOOSE m \in MCManners : m.ticks = ticks
  IN [entry |-> e, group |-> group, alt |-> alt,
      paused |-> paused, centre |-> m, backdrop |-> m]

MCSelections ==
  UNION {{Selection(e, shown, FALSE, FALSE, 3), Selection(e, shown, TRUE, FALSE, 0),
          Selection(e, shown, FALSE, TRUE, 3), Selection(e, other, TRUE, FALSE, 3)} : e \in MCIds}
=============================================================================
