--------------------------- MODULE MCStreamServer ---------------------------
EXTENDS StreamServer, TLC

Symmetry == Permutations(Clients)

Drained == \A c \in Clients : queue[c] = <<>>
Present == {c \in Clients : wpc[c] \notin {"none", "gone"}}

(* Bound: a report reaches the server while one connection at most is alive,
   with nothing queued for it and nothing being broadcast.  What becomes of
   the presentation delay depends on neither.                              *)
ReportsWhileQuiet ==
  delay # 0 \/ (\E c \in Clients : rpc[c] = "smoothing") =>
    cast.pc = "idle" /\ Drained /\ Cardinality(Present) <= 1

(* Bound: the server is stopped with nothing queued.  Who is connected and
   who is counted afterwards does not depend on what is queued.            *)
StopsDrained == stopper.pc \in {"new", "run"} \/ Drained
=============================================================================
