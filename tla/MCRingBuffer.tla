----------------------------- MODULE MCRingBuffer -----------------------------
(***************************************************************************)
(* Three frames, one of them empty (the upload terminator has no payload), *)
(* in a buffer that holds at most two of them.  A node of two bytes can    *)
(* itself wrap; the sizes make every part of a frame wrap at some time.    *)
(***************************************************************************)
EXTENDS RingBuffer

CONSTANTS f1, f2, f3

MCFrames == {f1, f2, f3}
MCDataLen == [f \in MCFrames |-> CASE f = f1 -> 0 [] f = f2 -> 1 [] f = f3 -> 3]

===============================================================================
