-------------------------------- MODULE Wire --------------------------------
(***************************************************************************)
(* What a caller makes of an HTTP answer that was cut: the client of       *)
(* src/src/net/http_client.cpp, which reads until the peer closes and      *)
(* checks no length, and the recursive-descent parser of                   *)
(* src/src/core/json.cpp, which ignores what follows the value it read.    *)
(*                                                                         *)
(* A document is a sequence of marks: the six of JSON's structure, "quote" *)
(* for each of the two that enclose a string, and "atom" for a number or a *)
(* word.  Spelling, escapes and white space are left out.                  *)
(***************************************************************************)
EXTENDS Integers, Sequences, FiniteSets

At(text, p) == IF p \in DOMAIN text THEN text[p] ELSE "end"

(* Mutant: the end of the text closes whatever is open.                    *)
ContinuesAtEnd(text, p, close, more) ==
  CASE At(text, p) = "," -> more
    [] At(text, p) \in {close, "end"} -> p + 1
    [] OTHER -> 0

(* After a member or an item: another one, or the end of what holds them.  *)
Continues(text, p, close, more) ==
  CASE At(text, p) = "," -> more
    [] At(text, p) = close -> p + 1
    [] OTHER -> 0

(* Where each thing that could start at a position would end: the position
   after it, or 0 when the parser fails.                                   *)
EndOf(text) ==
  LET end[at \in {"value", "string", "members", "items"} \X (1..(Len(text) + 1))] ==
        LET p == at[2]
            key == end[<<"string", p>>]
            value == end[<<"value", key + 1>>]
            item == end[<<"value", p>>]
        IN CASE at[1] = "value" ->
                  (CASE At(text, p) = "{" ->
                          IF At(text, p + 1) = "}" THEN p + 2 ELSE end[<<"members", p + 1>>]
                     [] At(text, p) = "[" ->
                          IF At(text, p + 1) = "]" THEN p + 2 ELSE end[<<"items", p + 1>>]
                     [] At(text, p) = "quote" -> end[<<"string", p>>]
                     [] At(text, p) = "atom" -> p + 1
                     [] OTHER -> 0)
             [] at[1] = "string" ->
                  IF At(text, p) = "quote" /\ At(text, p + 1) = "quote" THEN p + 2 ELSE 0
             [] at[1] = "members" ->
                  IF key = 0 \/ At(text, key) # ":" \/ value = 0 THEN 0
                  ELSE Continues(text, value, "}", end[<<"members", value + 1>>])
             [] at[1] = "items" ->
                  IF item = 0 THEN 0
                  ELSE Continues(text, item, "]", end[<<"items", item + 1>>])
  IN end

Parses(text) == EndOf(text)[<<"value", 1>>] # 0

(* The body a caller gets of an answer of which so much was received: whole
   chunks only when it is chunked, or what came; nothing when the headers did
   not.  A missing last chunk is not noticed.                              *)
Body(document, chunks, received) ==
  LET whole == {e \in chunks : e <= received}
      last == IF whole = {} THEN 0 ELSE CHOOSE e \in whole : \A x \in whole : x <= e
  IN SubSeq(document, 1, last)
=============================================================================
