------------------------------- MODULE MCUpload -------------------------------
(***************************************************************************)
(* One file of a device that is lost and comes back, with a buffer for     *)
(* three messages: the calls of all clients come in any order, and an      *)
(* upload of one chunk overflows the buffer if the worker is late.         *)
(***************************************************************************)
EXTENDS Upload

===============================================================================
