---------------------------- MODULE MCEngineRun ----------------------------
EXTENDS EngineRun

(* Before its rung is told to stop, or a member is gone, nothing depends on a
   client's thread: one that was there all along is as one that comes then. *)
ViewersWhenStopped ==
  \A c \in Viewers \cap alive : RungOf(c) \in told \/ gone # {}
=============================================================================
