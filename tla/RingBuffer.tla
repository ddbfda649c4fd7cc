------------------------------ MODULE RingBuffer ------------------------------
(***************************************************************************)
(* CRingBuffer (src/src/core/x_ringbuffer.cpp): the circular byte buffer   *)
(* behind every video, alarm, record-info and upload stream of the server. *)
(* A frame is stored as a J_MEMNODE (its length), a J_StreamHeader and the *)
(* payload, each wrapping independently at the end of the buffer.          *)
(*                                                                         *)
(* A byte is abstracted to "byte number off of frame f".  PushBuffer holds *)
(* m_mutex over its erase loop, so the loop is spread over several steps   *)
(* and `pushing' is the frame of the thread that holds the mutex.          *)
(***************************************************************************)
EXTENDS Integers, Sequences

CONSTANTS
    Frames,       \* the frames that may be pushed
    DataLen,      \* DataLen[f]: streamHeader.dataLen of frame f, in bytes
    NodeLen,      \* J_MEMNODE_LEN
    HeaderLen,    \* sizeof(J_StreamHeader)
    BufferSize,   \* m_nBufferSize
    NoFrame       \* "no frame"

\* Bytes a frame takes in the buffer, and the value its node records.
Total(f) == NodeLen + HeaderLen + DataLen[f]
NodeValue(f) == HeaderLen + DataLen[f]

\* The last conjunct is what the callers owe PushBuffer: a frame that is
\* larger than the whole buffer makes the erase loop read dead bytes.
ASSUME RingAssumption ==
    /\ NodeLen \in Nat \ {0}
    /\ HeaderLen \in Nat \ {0}
    /\ BufferSize \in Nat \ {0}
    /\ DataLen \in [Frames -> Nat]
    /\ NoFrame \notin Frames
    /\ \A f \in Frames : Total(f) <= BufferSize

VARIABLES
    mem,          \* the bytes m_pBegin .. m_pEnd - 1
    writePoint,   \* m_pWritePoint - m_pBegin
    readPoint,    \* m_pReadPoint - m_pBegin
    dataLen,      \* m_nDataLen
    pushing,      \* the frame of the PushBuffer call in progress
    popped        \* the bytes the last PopBuffer call copied out, <<>> if none

vars == <<mem, writePoint, readPoint, dataLen, pushing, popped>>

Addr == 0 .. (BufferSize - 1)
Byte(f, i) == [frame |-> f, off |-> i]
Bytes == [frame : Frames \cup {NoFrame}, off : Nat]

-------------------------------------------------------------------------------

(***************************************************************************)
(* Pointer arithmetic and copies.                                          *)
(***************************************************************************)

\* Slip: the pointer may stand on m_pEnd.
AddBufferLate(p, nLen) ==
    IF BufferSize - p < nLen THEN nLen - (BufferSize - p) ELSE p + nLen

\* The address nLen bytes after p: wraps when it reaches m_pEnd.
AddBuffer(p, nLen) ==
    IF BufferSize - p <= nLen THEN nLen - (BufferSize - p) ELSE p + nLen

\* How far behind p the address a lies, going round.
Distance(p, a) == IF p <= a THEN a - p ELSE a + (BufferSize - p)

\* Slip: the second memcpy starts again at the beginning of the source.
WriteRestarting(m, p, f, off, nLen) ==
    [a \in Addr |-> IF Distance(p, a) < nLen
                    THEN Byte(f, off + IF p <= a THEN a - p ELSE a)
                    ELSE m[a]]

\* Memory m after nLen bytes of frame f, from its byte off on, are copied to p
\* (one memcpy, or two when the run passes m_pEnd).
Write(m, p, f, off, nLen) ==
    [a \in Addr |-> IF Distance(p, a) < nLen
                    THEN Byte(f, off + Distance(p, a))
                    ELSE m[a]]

\* The nLen bytes found nOffset bytes after p.
GetData(p, nOffset, nLen) ==
    [i \in 0 .. (nLen - 1) |-> mem[AddBuffer(AddBuffer(p, nOffset), i)]]

\* nLen of the node at p.  Bytes that were never written decode to 0 (any
\* value would do: WholeFrames says they are never read).
NodeLength(p) == IF mem[p].frame \in Frames THEN NodeValue(mem[p].frame) ELSE 0

\* Slips: one byte too much room, one byte too little.
IdleLengthOver == BufferSize - dataLen + 1
IdleLengthUnder == BufferSize - dataLen - 1

GetIdleLength == BufferSize - dataLen

-------------------------------------------------------------------------------

Init ==
    /\ mem = [a \in Addr |-> Byte(NoFrame, 0)]
    /\ writePoint = 0
    /\ readPoint = 0
    /\ dataLen = 0
    /\ pushing = NoFrame
    /\ popped = <<>>

\* PushBuffer takes the mutex.
PushBegin(f) ==
    /\ pushing = NoFrame
    /\ pushing' = f
    /\ UNCHANGED <<mem, writePoint, readPoint, dataLen, popped>>

\* Slip: the erased frame's node stays counted.
EraseBufferButNode ==
    /\ pushing # NoFrame
    /\ GetIdleLength < Total(pushing)
    /\ readPoint' = AddBuffer(readPoint, NodeLength(readPoint) + NodeLen)
    /\ dataLen' = dataLen - NodeLength(readPoint)
    /\ UNCHANGED <<mem, writePoint, pushing, popped>>

\* Slip: the read point moves on, the bytes stay counted.
EraseBufferUncounted ==
    /\ pushing # NoFrame
    /\ GetIdleLength < Total(pushing)
    /\ readPoint' = AddBuffer(readPoint, NodeLength(readPoint) + NodeLen)
    /\ UNCHANGED <<mem, writePoint, dataLen, pushing, popped>>

\* One turn of the loop that makes room: the error exit, or EraseBuffer.
EraseBuffer ==
    /\ pushing # NoFrame
    /\ GetIdleLength < Total(pushing)
    /\ IF dataLen < 0
       THEN /\ pushing' = NoFrame
            /\ UNCHANGED <<readPoint, dataLen>>
       ELSE LET gone == NodeLength(readPoint) + NodeLen
            IN  /\ readPoint' = AddBuffer(readPoint, gone)
                /\ dataLen' = dataLen - gone
                /\ UNCHANGED pushing
    /\ UNCHANGED <<mem, writePoint, popped>>

\* There is room: node, header and payload are written, the mutex released.
PushEnd ==
    /\ pushing # NoFrame
    /\ GetIdleLength >= Total(pushing)
    /\ LET header  == AddBuffer(writePoint, NodeLen)
           payload == AddBuffer(header, HeaderLen)
           n == DataLen[pushing]
           withNode   == Write(mem, writePoint, pushing, 0, NodeLen)
           withHeader == Write(withNode, header, pushing, NodeLen, HeaderLen)
       IN  /\ mem' = Write(withHeader, payload, pushing, NodeLen + HeaderLen, n)
           /\ writePoint' = AddBuffer(payload, n)
           /\ dataLen' = dataLen + NodeLen + HeaderLen + n
    /\ pushing' = NoFrame
    /\ UNCHANGED <<readPoint, popped>>

\* PopBuffer finds a frame: node, header and payload are read in turn.
Pop ==
    /\ pushing = NoFrame
    /\ dataLen > 0
    /\ LET header == AddBuffer(readPoint, NodeLen)
           n == NodeLength(readPoint)
       IN  /\ popped' = GetData(header, 0, n)
           /\ readPoint' = AddBuffer(AddBuffer(header, HeaderLen), n - HeaderLen)
           /\ dataLen' = dataLen - NodeLen - n
    /\ UNCHANGED <<mem, writePoint, pushing>>

\* PopBuffer finds nothing and answers J_NOT_COMPLATE.
PopNothing ==
    /\ pushing = NoFrame
    /\ dataLen <= 0
    /\ popped' = <<>>
    /\ UNCHANGED <<mem, writePoint, readPoint, dataLen, pushing>>

Next ==
    \/ \E f \in Frames : PushBegin(f)
    \/ EraseBuffer
    \/ PushEnd
    \/ Pop
    \/ PopNothing

\* The thread inside PushBuffer keeps running: nothing in the loop blocks.
Spec ==
    /\ Init
    /\ [][Next]_vars
    /\ WF_vars(EraseBuffer \/ PushEnd)

-------------------------------------------------------------------------------

\* Every variable has the values the code can give it.
TypeOK ==
    /\ mem \in [Addr -> Bytes]
    /\ writePoint \in Addr
    /\ readPoint \in Addr
    /\ dataLen \in 0 .. BufferSize
    /\ pushing \in Frames \cup {NoFrame}

\* The write point is always dataLen bytes ahead of the read point, so that
\* the two pointers and the counter describe the same live region.
PointersAgree == writePoint = AddBuffer(readPoint, dataLen)

\* The byte d bytes into the live region.
Live(d) == mem[AddBuffer(readPoint, d)]

\* The live byte d belongs to a frame that lies in the live region as a whole.
InWholeFrame(d) ==
    LET f == Live(d).frame
        start == d - Live(d).off
    IN  /\ f \in Frames
        /\ start >= 0
        /\ Live(d).off < Total(f)
        /\ start + Total(f) <= dataLen
        /\ \A i \in 0 .. (Total(f) - 1) : Live(start + i) = Byte(f, i)

\* However pushes, erasures and pops interleave and wherever a node, a header
\* or a payload wraps, the live region is a sequence of whole frames: no
\* producer ever overwrites part of a frame that can still be popped
\* (PushBuffer, EraseBuffer).
WholeFrames == \A d \in 0 .. (dataLen - 1) : InWholeFrame(d)

FrameBytes(f) == [i \in 0 .. (NodeValue(f) - 1) |-> Byte(f, NodeLen + i)]

\* A pop hands out the header and the payload of one pushed frame, complete
\* and unmixed, or nothing (PopBuffer).
PopIsOneFrame == popped = <<>> \/ \E f \in Frames : popped = FrameBytes(f)

-------------------------------------------------------------------------------

(***************************************************************************)
(* The abstraction: the frames in the live region, oldest first.           *)
(***************************************************************************)

Stored ==
    LET from[d \in 0 .. (2 * BufferSize)] ==
            IF d >= dataLen \/ Live(d).frame \notin Frames
            THEN <<>>
            ELSE <<Live(d).frame>> \o from[d + Total(Live(d).frame)]
    IN  from[0]

Delivered ==
    IF \E f \in Frames : popped = FrameBytes(f)
    THEN CHOOSE f \in Frames : popped = FrameBytes(f)
    ELSE NoFrame

Queue == INSTANCE FrameQueue WITH
             queue <- Stored, taken <- Delivered,
             Cost <- [f \in Frames |-> Total(f)], Capacity <- BufferSize

\* The byte buffer steps as the frame queue does: frames leave in the order in which
\* they came, a pop returns the oldest one, and a push drops frames from the old end
\* only while the new one does not fit (PushBuffer, EraseBuffer, PopBuffer).
ImplementsFrameQueue == Queue!Init /\ [][Queue!Next]_(Queue!vars)

\* Every push completes: the loop that makes room ends (PushBuffer).
EveryPushCompletes == Queue!Fairness

===============================================================================
