---------------------------- MODULE MCClientStream ----------------------------
(***************************************************************************)
(* Two clients, so that one takes a device's answers from the other, and   *)
(* two hosts, so that a stop for one meets a start for the other.          *)
(***************************************************************************)
EXTENDS ClientStream

===============================================================================
