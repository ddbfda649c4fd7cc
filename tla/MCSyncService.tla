----------------------------- MODULE MCSyncService -----------------------------
(***************************************************************************)
(* Two recorders with a file each, and room for one of them.               *)
(***************************************************************************)
EXTENDS SyncService

MCOwner == [f \in Files |-> IF f = 2 THEN 2 ELSE 1]

===============================================================================
