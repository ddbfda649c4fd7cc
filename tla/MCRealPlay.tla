------------------------------ MODULE MCRealPlay ------------------------------
(***************************************************************************)
(* Two clients and one channel: two views of one stream, which is where    *)
(* the counting of references and the reconnection of views meet.  Or one  *)
(* client and two hosts, where the announcement of one host opens a view   *)
(* of the other again.                                                     *)
(***************************************************************************)
EXTENDS RealPlay, TLC

Symmetry == {p @@ q : p \in Permutations(Clients), q \in Permutations(Hosts)}

===============================================================================
