------------------------------ MODULE MCPlayback ------------------------------
(***************************************************************************)
(* A file of three frames; four calls are enough to open it, start it and  *)
(* disturb it twice.                                                       *)
(***************************************************************************)
EXTENDS Playback

===============================================================================
