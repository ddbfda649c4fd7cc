------------------------------- MODULE MCLogin --------------------------------
(***************************************************************************)
(* Three connections for two users and two handles: one session, a login   *)
(* that forces it out, and a third that meets both or gets a handle again. *)
(***************************************************************************)
EXTENDS Login, TLC

Symmetry == Permutations(Users) \cup Permutations(Conns) \cup Permutations(Handles)

===============================================================================
