------------------------------ MODULE FrameQueue ------------------------------
(***************************************************************************)
(* What CRingBuffer promises its users: a queue of whole frames that holds *)
(* at most Capacity cells, in arrival order.  A push that does not fit     *)
(* drops frames from the old end, one by one, and no more of them than it  *)
(* needs; it never drops the frame being pushed and never blocks for good. *)
(***************************************************************************)
EXTENDS Naturals, Sequences, SequencesExt

CONSTANTS
    Frames,     \* the frames producers may push
    Cost,       \* Cost[f] is the room frame f takes
    Capacity,   \* the room there is
    NoFrame     \* "no frame": nothing being pushed, nothing taken

VARIABLES
    queue,      \* the frames held, oldest first
    pushing,    \* the frame a producer is storing, or NoFrame
    taken       \* the frame the last take returned, or NoFrame

vars == <<queue, pushing, taken>>

Used == FoldLeft(LAMBDA room, f : room + Cost[f], 0, queue)

Fits(f) == Used + Cost[f] <= Capacity

Init ==
    /\ queue = <<>>
    /\ pushing = NoFrame
    /\ taken = NoFrame

Offer(f) ==
    /\ pushing = NoFrame
    /\ pushing' = f
    /\ UNCHANGED <<queue, taken>>

DropOldest ==
    /\ pushing # NoFrame
    /\ ~ Fits(pushing)
    /\ queue # <<>>
    /\ queue' = Tail(queue)
    /\ UNCHANGED <<pushing, taken>>

Store ==
    /\ pushing # NoFrame
    /\ Fits(pushing)
    /\ queue' = Append(queue, pushing)
    /\ pushing' = NoFrame
    /\ UNCHANGED taken

Take ==
    /\ pushing = NoFrame
    /\ queue # <<>>
    /\ taken' = Head(queue)
    /\ queue' = Tail(queue)
    /\ UNCHANGED pushing

TakeNothing ==
    /\ pushing = NoFrame
    /\ queue = <<>>
    /\ taken' = NoFrame
    /\ UNCHANGED <<queue, pushing>>

Next ==
    \/ \E f \in Frames : Offer(f)
    \/ DropOldest
    \/ Store
    \/ Take
    \/ TakeNothing

Fairness == WF_vars(DropOldest \/ Store)

\* Frames are dropped or stored only for a push.
TurnsOnlyForPushes == [](ENABLED <<DropOldest \/ Store>>_vars => pushing # NoFrame)

Spec ==
    /\ Init
    /\ [][Next]_vars
    /\ Fairness

===============================================================================
