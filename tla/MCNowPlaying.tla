---------------------------- MODULE MCNowPlaying ----------------------------
EXTENDS NowPlaying, TLC

CONSTANTS a, b

(* One song has beat times, the other none.                                *)
MCBeatTimes == (a :> <<1, 2, 4>>) @@ (b :> <<>>)
=============================================================================
