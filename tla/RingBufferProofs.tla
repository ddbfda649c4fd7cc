-------------------------- MODULE RingBufferProofs --------------------------
(***************************************************************************)
(* Proofs about RingBuffer for every set of frames, every frame length and *)
(* every buffer size RingAssumption allows.  WholeFrames carries the       *)
(* argument about bytes: it is inductive together with TypeOK and          *)
(* PointersAgree, and the bounds in TypeOK are not inductive without it,   *)
(* because EraseBuffer and Pop move the read point by a length they read   *)
(* from the buffer.  The refinement of FrameQueue rests on one more        *)
(* conjunct, InOrder: some sequence of frames is laid out in the live      *)
(* region.  Stored, which walks over the bytes, is shown to be that        *)
(* sequence, so that each action can be followed on the layout alone.      *)
(***************************************************************************)
EXTENDS RingBuffer, WellFoundedInduction, SequenceTheorems, TLAPS

\* The bytes: pointers and counter in range, in agreement, and whole frames between.
IInv ==
    /\ TypeOK
    /\ PointersAgree
    /\ WholeFrames

-------------------------------------------------------------------------------

(***************************************************************************)
(* Arithmetic of the circular addresses.                                   *)
(***************************************************************************)

\* AddBuffer never leaves the buffer: m_pEnd itself is never returned.
LEMMA AddBufferIsAnAddress ==
    ASSUME NEW p \in Addr, NEW n \in 0 .. BufferSize
    PROVE  AddBuffer(p, n) \in Addr
BY RingAssumption DEF AddBuffer, Addr

\* Two moves in a row are one move (Read and Write call AddBuffer per part).
LEMMA AddBufferTwice ==
    ASSUME NEW p \in Addr, NEW m \in Nat, NEW n \in Nat, m + n <= BufferSize
    PROVE  AddBuffer(AddBuffer(p, m), n) = AddBuffer(p, m + n)
BY RingAssumption DEF AddBuffer, Addr

\* Going n bytes on from p and measuring back to p gives n, inside the buffer.
LEMMA DistanceOfAddBuffer ==
    ASSUME NEW p \in Addr, NEW n \in 0 .. (BufferSize - 1)
    PROVE  Distance(p, AddBuffer(p, n)) = n
BY RingAssumption DEF AddBuffer, Distance, Addr

\* The n bytes after Add(p, m) are the bytes m .. m + n - 1 after p.
LEMMA DistanceFromAddBuffer ==
    ASSUME NEW p \in Addr, NEW a \in Addr,
           NEW m \in Nat, NEW n \in Nat, m + n <= BufferSize
    PROVE  /\ Distance(p, a) \in 0 .. (BufferSize - 1)
           /\ Distance(AddBuffer(p, m), a) < n
                <=> m <= Distance(p, a) /\ Distance(p, a) < m + n
           /\ m <= Distance(p, a)
                => Distance(AddBuffer(p, m), a) = Distance(p, a) - m
BY RingAssumption DEF AddBuffer, Distance, Addr

\* A live byte lies at least a buffer's idle length behind the write point.
LEMMA DistanceToLive ==
    ASSUME NEW p \in Addr, NEW len \in 0 .. BufferSize, NEW d \in 0 .. (len - 1)
    PROVE  Distance(AddBuffer(p, len), AddBuffer(p, d)) = d + (BufferSize - len)
BY RingAssumption DEF AddBuffer, Distance, Addr

\* The three parts of a frame and their sum are natural numbers.
LEMMA Lengths ==
    ASSUME NEW f \in Frames
    PROVE  /\ NodeLen \in Nat \ {0}
           /\ HeaderLen \in Nat \ {0}
           /\ DataLen[f] \in Nat
           /\ Total(f) = NodeLen + HeaderLen + DataLen[f]
           /\ NodeValue(f) = HeaderLen + DataLen[f]
           /\ Total(f) \in 1 .. BufferSize
           /\ BufferSize \in Nat \ {0}
BY RingAssumption DEF Total, NodeValue

\* Writing node, header and payload in turn is one write of the whole frame,
\* wherever the parts wrap (Write, called three times by PushBuffer).
LEMMA ThreeWritesAreOne ==
    ASSUME NEW f \in Frames, NEW p \in Addr, NEW m
    PROVE  LET header  == AddBuffer(p, NodeLen)
               payload == AddBuffer(header, HeaderLen)
               withNode   == Write(m, p, f, 0, NodeLen)
               withHeader == Write(withNode, header, f, NodeLen, HeaderLen)
           IN  Write(withHeader, payload, f, NodeLen + HeaderLen, DataLen[f])
                 = Write(m, p, f, 0, Total(f))
<1> DEFINE header  == AddBuffer(p, NodeLen)
           payload == AddBuffer(header, HeaderLen)
           withNode   == Write(m, p, f, 0, NodeLen)
           withHeader == Write(withNode, header, f, NodeLen, HeaderLen)
           all == Write(withHeader, payload, f, NodeLen + HeaderLen, DataLen[f])
<1>1. payload = AddBuffer(p, NodeLen + HeaderLen)
  BY Lengths, AddBufferTwice
<1>2. ASSUME NEW a \in Addr
      PROVE  all[a] = Write(m, p, f, 0, Total(f))[a]
  <2>1. /\ Distance(p, a) \in 0 .. (BufferSize - 1)
        /\ Distance(header, a) < HeaderLen
             <=> /\ NodeLen <= Distance(p, a)
                 /\ Distance(p, a) < NodeLen + HeaderLen
        /\ NodeLen <= Distance(p, a)
             => Distance(header, a) = Distance(p, a) - NodeLen
    <3>1. NodeLen \in Nat /\ HeaderLen \in Nat /\ NodeLen + HeaderLen <= BufferSize
      BY Lengths
    <3> QED
      BY <3>1, DistanceFromAddBuffer
  <2>2. /\ Distance(payload, a) < DataLen[f]
             <=> /\ NodeLen + HeaderLen <= Distance(p, a)
                 /\ Distance(p, a) < NodeLen + HeaderLen + DataLen[f]
        /\ NodeLen + HeaderLen <= Distance(p, a)
             => Distance(payload, a) = Distance(p, a) - (NodeLen + HeaderLen)
    <3> HIDE DEF payload
    <3>1. NodeLen + HeaderLen \in Nat
      BY Lengths
    <3> QED
      BY <1>1, <3>1, Lengths, DistanceFromAddBuffer
  <2>3. all[a] = IF Distance(payload, a) < DataLen[f]
                 THEN Byte(f, NodeLen + HeaderLen + Distance(payload, a))
                 ELSE IF Distance(header, a) < HeaderLen
                 THEN Byte(f, NodeLen + Distance(header, a))
                 ELSE IF Distance(p, a) < NodeLen
                 THEN Byte(f, 0 + Distance(p, a))
                 ELSE m[a]
    BY DEF Write
  <2>4. Write(m, p, f, 0, Total(f))[a] = IF Distance(p, a) < Total(f)
                                         THEN Byte(f, 0 + Distance(p, a))
                                         ELSE m[a]
    BY DEF Write
  <2> HIDE DEF payload, header, all
  <2> QED
    BY <2>1, <2>2, <2>3, <2>4, Lengths
<1> QED
  BY <1>2 DEF Write

-------------------------------------------------------------------------------

(***************************************************************************)
(* The frame at the read point, and the state without it.                  *)
(***************************************************************************)

\* A non-empty buffer starts with a whole frame, whose node is at the read
\* point: the length EraseBuffer and PopBuffer read there is its own.
LEMMA HeadFrame ==
    ASSUME IInv, dataLen > 0
    PROVE  LET f == Live(0).frame
           IN  /\ f \in Frames
               /\ Total(f) <= dataLen
               /\ \A i \in 0 .. (Total(f) - 1) : Live(i) = Byte(f, i)
               /\ NodeLength(readPoint) = NodeValue(f)
<1> DEFINE f == Live(0).frame
<1>1. dataLen \in 1 .. BufferSize /\ readPoint \in Addr
  BY RingAssumption DEF IInv, TypeOK
<1>2. AddBuffer(readPoint, 0) = readPoint
  BY <1>1, RingAssumption DEF AddBuffer, Addr
<1>3. Live(0) = mem[readPoint] /\ Live(0) \in Bytes
  BY <1>1, <1>2 DEF Live, IInv, TypeOK
<1>4. InWholeFrame(0)
  BY <1>1 DEF IInv, WholeFrames
<1>5. f \in Frames /\ Live(0).off = 0
  BY <1>3, <1>4 DEF InWholeFrame, Bytes
<1>6. \A i \in 0 .. (Total(f) - 1) : Live(0 + i) = Byte(f, i)
  BY <1>4, <1>5 DEF InWholeFrame
<1>7. 0 + Total(f) <= dataLen
  BY <1>4, <1>5 DEF InWholeFrame
<1>8. NodeLength(readPoint) = NodeValue(f)
  BY <1>3, <1>5 DEF NodeLength
<1>9. \A i \in 0 .. (Total(f) - 1) : 0 + i = i
  BY <1>5, Lengths
<1> QED
  BY <1>5, <1>6, <1>7, <1>8, <1>9, Lengths

\* What is still live after the first frame went is where it was.
LEMMA LiveAfterDrop ==
    ASSUME IInv, dataLen > 0,
           mem' = mem, readPoint' = AddBuffer(readPoint, Total(Live(0).frame)),
           dataLen' = dataLen - Total(Live(0).frame)
    PROVE  \A d \in Nat : d < dataLen' => Live(d)' = Live(Total(Live(0).frame) + d)
<1> DEFINE T == Total(Live(0).frame)
<1>1. T \in 1 .. BufferSize /\ T <= dataLen
  BY HeadFrame, Lengths
<1>2. readPoint \in Addr /\ dataLen \in 1 .. BufferSize /\ BufferSize \in Nat
  BY RingAssumption DEF IInv, TypeOK
<1>3. ASSUME NEW d \in Nat, d < dataLen'
      PROVE  Live(d)' = Live(T + d)
  <2>1. AddBuffer(readPoint', d) = AddBuffer(readPoint, T + d)
    BY <1>1, <1>2, <1>3, AddBufferTwice
  <2> QED
    BY <2>1 DEF Live
<1> QED
  BY <1>3

\* Moving the read point over the first frame leaves whole frames.
LEMMA DropHead ==
    ASSUME IInv, dataLen > 0,
           mem' = mem, writePoint' = writePoint, pushing' \in Frames \cup {NoFrame},
           readPoint' = AddBuffer(readPoint, Total(Live(0).frame)),
           dataLen' = dataLen - Total(Live(0).frame)
    PROVE  IInv'
<1> DEFINE f == Live(0).frame
           T == Total(f)
<1>1. /\ f \in Frames
      /\ T \in 1 .. BufferSize
      /\ T <= dataLen
      /\ \A i \in 0 .. (T - 1) : Live(i) = Byte(f, i)
  BY HeadFrame, Lengths
<1>2. /\ readPoint \in Addr
      /\ dataLen \in 1 .. BufferSize
      /\ BufferSize \in Nat
  BY RingAssumption DEF IInv, TypeOK
<1>3. dataLen' = dataLen - T /\ dataLen' \in 0 .. BufferSize
  BY <1>1, <1>2
<1>4. TypeOK'
  BY <1>1, <1>2, <1>3, AddBufferIsAnAddress DEF IInv, TypeOK
<1>5. PointersAgree'
  <2>1. AddBuffer(readPoint', dataLen - T) = AddBuffer(readPoint, T + (dataLen - T))
    BY <1>1, <1>2, AddBufferTwice
  <2> QED
    BY <2>1, <1>1, <1>2, <1>3 DEF IInv, PointersAgree
<1>6. \A d \in Nat : d < dataLen' => Live(d)' = Live(T + d)
  BY LiveAfterDrop
<1>7. ASSUME NEW d \in 0 .. (dataLen' - 1)
      PROVE  InWholeFrame(d)'
  <2> DEFINE g == Live(T + d).frame
             off == Live(T + d).off
             start == (T + d) - off
  <2>1. T + d \in 0 .. (dataLen - 1)
    BY <1>1, <1>2, <1>3
  <2>2. InWholeFrame(T + d)
    BY <2>1 DEF IInv, WholeFrames
  <2>3. Live(T + d) \in Bytes
    BY <2>1, <1>2, AddBufferIsAnAddress DEF IInv, TypeOK, Live
  <2>4. /\ g \in Frames
        /\ off \in Nat
        /\ start >= 0
        /\ off < Total(g)
        /\ start + Total(g) <= dataLen
        /\ \A i \in 0 .. (Total(g) - 1) : Live(start + i) = Byte(g, i)
    BY <2>2, <2>3 DEF InWholeFrame, Bytes
  <2>5. Total(g) \in 1 .. BufferSize
    BY <2>4, Lengths
  <2>6. start >= T
    <3> SUFFICES ASSUME start < T PROVE FALSE
      BY <2>1, <2>4, <1>1
    <3>1. Live(start + 0) = Byte(g, 0)
      BY <2>4, <2>5
    <3>2. start \in 0 .. (T - 1) /\ start + 0 = start
      BY <2>1, <2>4, <1>1
    <3>3. Live(start) = Byte(f, start)
      BY <3>2, <1>1
    <3>4. g = f /\ start = 0
      BY <3>1, <3>2, <3>3 DEF Byte
    <3> QED
      BY <3>4, <2>1, <2>4, <1>1
  <2>7. Live(d)' = Live(T + d)
    BY <1>6, <1>3, <1>2
  <2>8. PICK o \in Nat : o = off
    BY <2>4
  <2>9. ASSUME NEW i \in 0 .. (Total(g) - 1)
        PROVE  Live((d - o) + i)' = Byte(g, i)
    <3>1. (d - o) + i \in Nat /\ (d - o) + i < dataLen'
      BY <2>4, <2>5, <2>6, <2>8, <1>1, <1>2, <1>3
    <3>2. T + ((d - o) + i) = start + i
      BY <2>4, <2>5, <2>8, <1>1
    <3>3. Live((d - o) + i)' = Live(T + ((d - o) + i))
      BY <3>1, <1>6
    <3> QED
      BY <3>2, <3>3, <2>4
  <2>10. d - o >= 0 /\ (d - o) + Total(g) <= dataLen'
    BY <2>4, <2>5, <2>6, <2>8, <1>1, <1>2, <1>3
  <2>11. Live(d)'.frame = g /\ Live(d)'.off = o
    BY <2>7, <2>8
  <2> HIDE DEF g, off, start
  <2> QED
    BY <2>4, <2>8, <2>9, <2>10, <2>11 DEF InWholeFrame
<1> QED
  BY <1>4, <1>5, <1>7 DEF IInv, WholeFrames

-------------------------------------------------------------------------------

(***************************************************************************)
(* Each action preserves the invariant.                                    *)
(***************************************************************************)

\* One turn of PushBuffer's loop drops exactly the oldest frame; the error
\* exit (a negative m_nDataLen) is never taken.
LEMMA EraseBufferStep ==
    ASSUME IInv, EraseBuffer
    PROVE  /\ IInv'
           /\ dataLen > 0
           /\ Live(0).frame \in Frames
           /\ UNCHANGED <<mem, pushing, popped>>
           /\ readPoint' = AddBuffer(readPoint, Total(Live(0).frame))
           /\ dataLen' = dataLen - Total(Live(0).frame)
<1>1. pushing \in Frames /\ dataLen \in 0 .. BufferSize /\ readPoint \in Addr
  BY DEF EraseBuffer, IInv, TypeOK
<1>2. dataLen > 0
  BY <1>1, Lengths DEF EraseBuffer, GetIdleLength
<1> DEFINE f == Live(0).frame
<1>3. f \in Frames /\ NodeLength(readPoint) + NodeLen = Total(f)
  BY <1>2, HeadFrame, Lengths
<1>4. /\ ~ (dataLen < 0)
      /\ mem' = mem
      /\ writePoint' = writePoint
      /\ pushing' = pushing
      /\ popped' = popped
      /\ readPoint' = AddBuffer(readPoint, Total(f))
      /\ dataLen' = dataLen - Total(f)
  BY <1>1, <1>2, <1>3 DEF EraseBuffer
<1>5. IInv'
  BY <1>1, <1>2, <1>4, DropHead
<1> QED
  BY <1>2, <1>3, <1>4, <1>5

\* A pop removes the oldest frame and returns its header and payload.
LEMMA PopStep ==
    ASSUME IInv, Pop
    PROVE  /\ IInv'
           /\ Live(0).frame \in Frames
           /\ mem' = mem
           /\ readPoint' = AddBuffer(readPoint, Total(Live(0).frame))
           /\ dataLen' = dataLen - Total(Live(0).frame)
           /\ popped' = FrameBytes(Live(0).frame)
<1>1. dataLen > 0 /\ dataLen \in 0 .. BufferSize /\ readPoint \in Addr
  BY DEF Pop, IInv, TypeOK
<1> DEFINE f == Live(0).frame
           n == NodeLength(readPoint)
           header == AddBuffer(readPoint, NodeLen)
<1>2. /\ f \in Frames
      /\ Total(f) <= dataLen
      /\ \A i \in 0 .. (Total(f) - 1) : Live(i) = Byte(f, i)
      /\ n = NodeValue(f)
  BY <1>1, HeadFrame
<1>3. /\ NodeLen \in Nat \ {0}
      /\ HeaderLen \in Nat \ {0}
      /\ n - HeaderLen \in Nat
      /\ n \in Nat
      /\ NodeLen + n = Total(f)
      /\ Total(f) \in 1 .. BufferSize
      /\ BufferSize \in Nat
  BY <1>2, Lengths
<1>4. AddBuffer(AddBuffer(header, HeaderLen), n - HeaderLen)
        = AddBuffer(readPoint, Total(f))
  <2>1. AddBuffer(header, HeaderLen) = AddBuffer(readPoint, NodeLen + HeaderLen)
    BY <1>1, <1>3, AddBufferTwice
  <2>2. AddBuffer(AddBuffer(readPoint, NodeLen + HeaderLen), n - HeaderLen)
          = AddBuffer(readPoint, (NodeLen + HeaderLen) + (n - HeaderLen))
    BY <1>1, <1>3, AddBufferTwice
  <2>3. (NodeLen + HeaderLen) + (n - HeaderLen) = Total(f)
    BY <1>3
  <2> QED
    BY <2>1, <2>2, <2>3
<1>a. /\ mem' = mem
      /\ writePoint' = writePoint
      /\ pushing' = pushing
      /\ readPoint' = AddBuffer(readPoint, Total(f))
      /\ dataLen' = dataLen - Total(f)
  <2>1. /\ mem' = mem
        /\ writePoint' = writePoint
        /\ pushing' = pushing
        /\ readPoint' = AddBuffer(readPoint, Total(f))
        /\ dataLen' = dataLen - NodeLen - n
    BY <1>4 DEF Pop
  <2> QED
    BY <2>1, <1>1, <1>3
<1>5. IInv'
  <2>1. pushing' \in Frames \cup {NoFrame}
    BY <1>a DEF IInv, TypeOK
  <2> QED
    BY <2>1, <1>a, <1>1, DropHead
<1>6. popped' = FrameBytes(f)
  <2>1. popped' = GetData(header, 0, n)
    BY DEF Pop
  <2>2. ASSUME NEW i \in 0 .. (n - 1)
        PROVE  mem[AddBuffer(AddBuffer(header, 0), i)] = Byte(f, NodeLen + i)
    <3>1. AddBuffer(header, 0) = AddBuffer(readPoint, NodeLen)
      <4>1. AddBuffer(AddBuffer(readPoint, NodeLen), 0)
              = AddBuffer(readPoint, NodeLen + 0)
        BY <1>1, <1>3, AddBufferTwice
      <4> QED
        BY <4>1, <1>3
    <3>2. AddBuffer(AddBuffer(readPoint, NodeLen), i)
            = AddBuffer(readPoint, NodeLen + i)
      BY <1>1, <1>3, AddBufferTwice
    <3>3. NodeLen + i \in 0 .. (Total(f) - 1)
      BY <1>3
    <3>4. Live(NodeLen + i) = Byte(f, NodeLen + i)
      BY <3>3, <1>2
    <3> QED
      BY <3>1, <3>2, <3>4 DEF Live
  <2>3. FrameBytes(f) = [i \in 0 .. (n - 1) |-> Byte(f, NodeLen + i)]
    BY <1>2 DEF FrameBytes
  <2> QED
    BY <2>1, <2>2, <2>3 DEF GetData
<1> QED
  BY <1>2, <1>5, <1>6, <1>a

\* A push that found room writes one frame behind the newest one, and every
\* byte that was live stays what it was.
LEMMA LiveAfterPush ==
    ASSUME IInv, PushEnd
    PROVE  /\ mem' = Write(mem, writePoint, pushing, 0, Total(pushing))
           /\ writePoint' = AddBuffer(writePoint, Total(pushing))
           /\ dataLen' = dataLen + Total(pushing)
           /\ dataLen' <= BufferSize
           /\ \A d \in Nat : d < dataLen' =>
                Live(d)' = IF d < dataLen THEN Live(d) ELSE Byte(pushing, d - dataLen)
<1> DEFINE f == pushing
           T == Total(f)
<1>1. /\ f \in Frames
      /\ dataLen \in 0 .. BufferSize
      /\ readPoint \in Addr
      /\ writePoint \in Addr
      /\ writePoint = AddBuffer(readPoint, dataLen)
      /\ mem \in [Addr -> Bytes]
  BY DEF PushEnd, IInv, TypeOK, PointersAgree
<1>2. /\ NodeLen \in Nat
      /\ HeaderLen \in Nat
      /\ DataLen[f] \in Nat
      /\ T = NodeLen + HeaderLen + DataLen[f]
      /\ T \in 1 .. BufferSize
      /\ BufferSize \in Nat
  BY <1>1, Lengths
<1>3. dataLen + T <= BufferSize
  BY <1>1, <1>2 DEF PushEnd, GetIdleLength
<1>4. mem' = Write(mem, writePoint, f, 0, T)
  BY <1>1, ThreeWritesAreOne DEF PushEnd
<1>5. writePoint' = AddBuffer(writePoint, T)
  <2>1. AddBuffer(AddBuffer(writePoint, NodeLen), HeaderLen)
          = AddBuffer(writePoint, NodeLen + HeaderLen)
    BY <1>1, <1>2, AddBufferTwice
  <2>2. AddBuffer(AddBuffer(writePoint, NodeLen + HeaderLen), DataLen[f])
          = AddBuffer(writePoint, (NodeLen + HeaderLen) + DataLen[f])
    BY <1>1, <1>2, AddBufferTwice
  <2> QED
    BY <2>1, <2>2, <1>2 DEF PushEnd
<1>6. dataLen' = dataLen + T
  BY <1>1, <1>2 DEF PushEnd
<1>7. readPoint' = readPoint /\ pushing' = NoFrame
  BY DEF PushEnd
<1>8. ASSUME NEW d \in Nat, d < dataLen + T
      PROVE  Live(d)' = IF d < dataLen THEN Live(d) ELSE Byte(f, d - dataLen)
  <2> DEFINE a == AddBuffer(readPoint, d)
  <2>1. a \in Addr /\ a = AddBuffer(readPoint', d)
    BY <1>1, <1>3, <1>7, <1>8, <1>2, AddBufferIsAnAddress
  <2>2. Live(d)' = IF Distance(writePoint, a) < T
                   THEN Byte(f, 0 + Distance(writePoint, a))
                   ELSE mem[a]
    BY <2>1, <1>4 DEF Live, Write
  <2>3. CASE d < dataLen
    <3>1. d \in 0 .. (dataLen - 1)
      BY <2>3, <1>1
    <3>2. Distance(writePoint, a) = d + (BufferSize - dataLen)
      BY <3>1, <1>1, DistanceToLive
    <3>3. ~ (Distance(writePoint, a) < T)
      BY <3>2, <1>1, <1>2, <1>3
    <3> QED
      BY <3>3, <2>2, <2>3 DEF Live
  <2>4. CASE d >= dataLen
    <3>1. d - dataLen \in 0 .. (BufferSize - 1)
      BY <2>4, <1>1, <1>2, <1>3, <1>8
    <3>2. AddBuffer(writePoint, d - dataLen) = AddBuffer(readPoint, dataLen + (d - dataLen))
      BY <3>1, <1>1, <1>2, <1>3, <1>8, AddBufferTwice
    <3>3. dataLen + (d - dataLen) = d
      BY <1>1
    <3>4. Distance(writePoint, a) = d - dataLen
      BY <3>1, <3>2, <3>3, <1>1, DistanceOfAddBuffer
    <3> QED
      BY <3>1, <3>4, <2>2, <2>4, <1>1, <1>2, <1>8
  <2> QED
    BY <2>3, <2>4, <1>1
<1> QED
  BY <1>2, <1>1, <1>3, <1>4, <1>5, <1>6, <1>8

\* A push that found room writes its frame behind the newest one and keeps
\* the live region whole.
LEMMA PushEndStep ==
    ASSUME IInv, PushEnd
    PROVE  IInv'
<1> DEFINE f == pushing
           T == Total(f)
<1>1. /\ f \in Frames
      /\ dataLen \in 0 .. BufferSize
      /\ readPoint \in Addr
      /\ writePoint \in Addr
      /\ writePoint = AddBuffer(readPoint, dataLen)
      /\ mem \in [Addr -> Bytes]
  BY DEF PushEnd, IInv, TypeOK, PointersAgree
<1>2. /\ NodeLen \in Nat
      /\ HeaderLen \in Nat
      /\ DataLen[f] \in Nat
      /\ T = NodeLen + HeaderLen + DataLen[f]
      /\ T \in 1 .. BufferSize
      /\ BufferSize \in Nat
  BY <1>1, Lengths
<1>3. dataLen + T <= BufferSize
  BY <1>1, <1>2 DEF PushEnd, GetIdleLength
<1>4. mem' = Write(mem, writePoint, f, 0, T)
  BY LiveAfterPush
<1>5. writePoint' = AddBuffer(writePoint, T)
  BY LiveAfterPush
<1>6. dataLen' = dataLen + T
  BY LiveAfterPush
<1>7. readPoint' = readPoint /\ pushing' = NoFrame
  BY DEF PushEnd
<1>8. \A d \in Nat : d < dataLen + T =>
        Live(d)' = IF d < dataLen THEN Live(d) ELSE Byte(f, d - dataLen)
  BY <1>6, LiveAfterPush
<1>9. TypeOK'
  <2>1. mem' \in [Addr -> Bytes]
    <3>1. ASSUME NEW a \in Addr
          PROVE  mem'[a] \in Bytes
      <4>1. Distance(writePoint, a) \in Nat
        BY <1>1, <1>2 DEF Distance, Addr
      <4> QED
        BY <4>1, <1>1, <1>4 DEF Write, Byte, Bytes
    <3> QED
      BY <3>1, <1>4 DEF Write
  <2>2. writePoint' \in Addr
    BY <1>1, <1>2, <1>5, AddBufferIsAnAddress
  <2> QED
    BY <2>1, <2>2, <1>1, <1>2, <1>3, <1>6, <1>7 DEF TypeOK
<1>10. PointersAgree'
  BY <1>1, <1>2, <1>3, <1>5, <1>6, <1>7, AddBufferTwice DEF PointersAgree
<1>11. ASSUME NEW d \in 0 .. (dataLen' - 1), d < dataLen
       PROVE  InWholeFrame(d)'
  <2> DEFINE g == Live(d).frame
             start == d - Live(d).off
  <2>1. d \in 0 .. (dataLen - 1)
    BY <1>1, <1>11
  <2>2. Live(d) \in Bytes
    <3>1. AddBuffer(readPoint, d) \in Addr
      BY <2>1, <1>1, <1>2, AddBufferIsAnAddress
    <3> QED
      BY <3>1, <1>1 DEF Live
  <2>3. /\ g \in Frames
        /\ Live(d).off \in Nat
        /\ start >= 0
        /\ Live(d).off < Total(g)
        /\ start + Total(g) <= dataLen
        /\ \A i \in 0 .. (Total(g) - 1) : Live(start + i) = Byte(g, i)
    BY <2>1, <2>2 DEF IInv, WholeFrames, InWholeFrame, Bytes
  <2>4. Total(g) \in 1 .. BufferSize
    BY <2>3, Lengths
  <2>5. Live(d)' = Live(d)
    BY <2>1, <1>1, <1>2, <1>8
  <2>6. PICK o \in Nat : o = Live(d).off
    BY <2>3
  <2>7. ASSUME NEW i \in 0 .. (Total(g) - 1)
        PROVE  Live((d - o) + i)' = Byte(g, i)
    <3>1. (d - o) + i \in Nat /\ (d - o) + i < dataLen /\ d - o = start
      BY <2>1, <2>3, <2>4, <2>6, <1>1
    <3>2. Live((d - o) + i)' = Live((d - o) + i)
      BY <3>1, <1>1, <1>2, <1>8
    <3> QED
      BY <3>1, <3>2, <2>3
  <2>8. d - o >= 0 /\ (d - o) + Total(g) <= dataLen'
    BY <2>1, <2>3, <2>4, <2>6, <1>1, <1>2, <1>6
  <2>9. Live(d)'.frame = g /\ Live(d)'.off = o
    BY <2>5, <2>6
  <2> HIDE DEF g, start
  <2> QED
    BY <2>3, <2>6, <2>7, <2>8, <2>9 DEF InWholeFrame
<1>12. ASSUME NEW d \in 0 .. (dataLen' - 1), d >= dataLen
       PROVE  InWholeFrame(d)'
  <2>1. PICK len \in 0 .. BufferSize, new \in Frames : len = dataLen /\ new = f
    BY <1>1
  <2>2. Live(d)'.frame = new /\ Live(d)'.off = d - len
    BY <2>1, <1>1, <1>2, <1>6, <1>8, <1>12 DEF Byte
  <2>3. d - (d - len) = len
    BY <2>1, <1>1
  <2>4. ASSUME NEW i \in 0 .. (Total(new) - 1)
        PROVE  Live(len + i)' = Byte(new, i)
    <3>1. len + i \in Nat /\ len + i < dataLen + T /\ ~ (len + i < dataLen)
      BY <2>1, <1>1, <1>2
    <3>2. (len + i) - dataLen = i
      BY <2>1, <1>1
    <3>3. Live(len + i)' = Byte(f, (len + i) - dataLen)
      BY <3>1, <1>8
    <3> QED
      BY <3>2, <3>3, <2>1
  <2>5. d - len < Total(new) /\ len + Total(new) <= dataLen' /\ len >= 0
    BY <2>1, <1>1, <1>2, <1>6
  <2> QED
    BY <2>1, <2>2, <2>3, <2>4, <2>5 DEF InWholeFrame
<1>13. WholeFrames'
  <2>1. \A d \in 0 .. (dataLen' - 1) : d < dataLen \/ d >= dataLen
    BY <1>1, <1>2, <1>6
  <2> QED
    BY <2>1, <1>11, <1>12 DEF WholeFrames
<1> QED
  BY <1>9, <1>10, <1>13 DEF IInv

-------------------------------------------------------------------------------

(***************************************************************************)
(* Induction over the natural numbers, and what FoldLeft and a recursive   *)
(* function compute.                                                       *)
(***************************************************************************)

\* The room each frame takes, as a function: the Cost of FrameQueue.
Costs == [f \in Frames |-> Total(f)]

\* g sums c over every set of the places 1 .. n, the last place first: the function
\* FoldLeft computes with.
IsSum(g, n, c) ==
    g = [t \in SUBSET (1 .. n) |->
            IF t = {} THEN 0 ELSE g[t \ {Queue!Max(t)}] + c[Queue!Max(t)]]

\* pos[i] is the sum of c over the places before i.
Accumulates(pos, n, c) ==
    /\ pos \in [1 .. (n + 1) -> Nat]
    /\ pos[1] = 0
    /\ \A i \in 1 .. n : pos[i + 1] = pos[i] + c[i]

\* Used, written out: the sum of the stored frames' costs.
LEMMA UsedIsAFold ==
  Queue!Used = (CHOOSE g : g = [t \in SUBSET DOMAIN Stored |->
            IF t = {} THEN 0 ELSE g[t \ {Queue!Max(t)}] + Costs[Stored[Queue!Max(t)]]])[DOMAIN Stored]
  BY DEF Queue!Used, Queue!FoldLeft, Queue!MapThenFoldSet, Costs

\* A set of numbers that holds 0 and is closed under successor is Nat (from the
\* least number it would lack).
LEMMA Induction ==
    ASSUME NEW T \in SUBSET Nat, 0 \in T, \A n \in T : n + 1 \in T
    PROVE  T = Nat
<1> DEFINE R == OpToRel(<, Nat)
           I == Nat \ T
<1> SUFFICES ASSUME I # {} PROVE FALSE
  OBVIOUS
<1>1. IsWellFoundedOn(R, Nat)
  BY NatLessThanWellFounded
<1>2. I \subseteq Nat
  OBVIOUS
<1>3. PICK x \in I : \A y \in I : ~ (<<y, x>> \in R)
  <2> HIDE DEF R, I
  <2> QED
    BY <1>1, <1>2, WFMin
<1>4. \A y \in I : ~ (y < x)
  BY <1>3 DEF OpToRel
<1>5. x # 0 /\ x - 1 \in Nat
  OBVIOUS
<1>6. x - 1 \in T
  BY <1>4, <1>5
<1>7. (x - 1) + 1 = x
  BY <1>5
<1>8. (x - 1) + 1 \in T
  BY <1>6
<1> QED
  BY <1>7, <1>8

\* Every non-empty set of numbers has a least one.
LEMMA LeastExists ==
    ASSUME NEW I, I \subseteq Nat, I # {}
    PROVE  \E x \in I : \A y \in I : x <= y
<1> DEFINE R == OpToRel(<, Nat)
<1>1. IsWellFoundedOn(R, Nat)
  BY NatLessThanWellFounded
<1>2. \E x \in I : \A y \in I : ~ (<<y, x>> \in R)
  <2> HIDE DEF R
  <2> QED
    BY <1>1, WFMin
<1>3. \A x, y \in Nat : ~ (<<y, x>> \in R) => x <= y
  BY DEF OpToRel
<1> QED
  BY <1>2, <1>3

\* The largest of some numbers up to k + 1, one of them k + 1.
LEMMA LargestOfRange ==
    ASSUME NEW k \in Nat, NEW t \in SUBSET (1 .. (k + 1)), k + 1 \in t
    PROVE  Queue!Max(t) = k + 1
<1>1. \A y \in t : k + 1 >= y
  OBVIOUS
<1>2. \A x \in t : (\A y \in t : x >= y) => x = k + 1
  OBVIOUS
<1> QED
  BY <1>1, <1>2 DEF Queue!Max

\* The recursive sum exists, however long the sequence.
LEMMA SumExists ==
    ASSUME NEW n \in Nat, NEW c
    PROVE  \E g : IsSum(g, n, c)
<1> DEFINE T == {k \in Nat : \E g : IsSum(g, k, c)}
<1>1. 0 \in T
  <2> DEFINE g == [t \in SUBSET (1 .. 0) |-> 0]
  <2>1. \A t \in SUBSET (1 .. 0) : t = {}
    OBVIOUS
  <2>2. IsSum(g, 0, c)
    BY <2>1 DEF IsSum
  <2> QED
    BY <2>2
<1>2. ASSUME NEW k \in T PROVE k + 1 \in T
  <2>1. PICK g : IsSum(g, k, c)
    BY <1>2
  <2> DEFINE h == [t \in SUBSET (1 .. (k + 1)) |->
                      IF k + 1 \in t THEN g[t \ {k + 1}] + c[k + 1] ELSE g[t]]
  <2>2. ASSUME NEW t \in SUBSET (1 .. (k + 1))
        PROVE  h[t] = IF t = {} THEN 0 ELSE h[t \ {Queue!Max(t)}] + c[Queue!Max(t)]
    <3>1. \A r \in SUBSET (1 .. (k + 1)) : k + 1 \notin r => r \in SUBSET (1 .. k)
      OBVIOUS
    <3>2. CASE k + 1 \in t
      <4>1. Queue!Max(t) = k + 1
        BY <1>2, <3>2, LargestOfRange
      <4>2. h[t \ {k + 1}] = g[t \ {k + 1}]
        OBVIOUS
      <4> QED
        BY <3>2, <4>1, <4>2
    <3>3. CASE k + 1 \notin t
      <4> DEFINE m == Queue!Max(t)
      <4>1. t \in SUBSET (1 .. k)
        BY <3>1, <3>3
      <4>2. g[t] = IF t = {} THEN 0 ELSE g[t \ {m}] + c[m]
        BY <2>1, <4>1 DEF IsSum
      <4> HIDE DEF m
      <4>3. h[t \ {m}] = g[t \ {m}] /\ h[t] = g[t]
        BY <3>3
      <4> QED
        BY <4>2, <4>3 DEF m
    <3> QED
      BY <3>2, <3>3
  <2>3. h = [t \in SUBSET (1 .. (k + 1)) |-> h[t]]
    OBVIOUS
  <2> HIDE DEF h
  <2>4. IsSum(h, k + 1, c)
    BY <2>2, <2>3 DEF IsSum
  <2> QED
    BY <1>2, <2>4
<1> HIDE DEF T
<1>3. T = Nat
  <2>1. T \in SUBSET Nat
    BY DEF T
  <2> QED
    BY <1>1, <1>2, <2>1, Induction
<1> QED
  BY <1>3 DEF T

\* The sum over the first n places is where the place n + 1 starts.
LEMMA SumUpTo ==
    ASSUME NEW n \in Nat, NEW c, NEW g, IsSum(g, n, c),
           NEW pos, Accumulates(pos, n, c)
    PROVE  g[1 .. n] = pos[n + 1]
<1>a. /\ pos \in [1 .. (n + 1) -> Nat]
      /\ pos[1] = 0
      /\ \A i \in 1 .. n : pos[i + 1] = pos[i] + c[i]
  BY DEF Accumulates
<1> DEFINE T == {k \in Nat : k <= n => g[1 .. k] = pos[k + 1]}
<1>1. 0 \in T
  <2>1. 1 .. 0 = {} /\ {} \in SUBSET (1 .. n)
    OBVIOUS
  <2>2. g[{}] = 0
    BY <2>1 DEF IsSum
  <2> QED
    BY <1>a, <2>1, <2>2
<1>2. ASSUME NEW k \in T PROVE k + 1 \in T
  <2> SUFFICES ASSUME k + 1 <= n PROVE g[1 .. (k + 1)] = pos[(k + 1) + 1]
    OBVIOUS
  <2> DEFINE t == 1 .. (k + 1)
  <2>0. k \in Nat
    OBVIOUS
  <2>1. t \in SUBSET (1 .. n) /\ t # {} /\ k + 1 \in t /\ t \ {k + 1} = 1 .. k
    <3>1. \A x : x \in t \ {k + 1} <=> x \in 1 .. k
      BY <2>0
    <3>2. t \ {k + 1} = 1 .. k
      BY <3>1
    <3>3. t \in SUBSET (1 .. n) /\ k + 1 \in t
      BY <2>0
    <3> QED
      BY <3>2, <3>3
  <2>2. Queue!Max(t) = k + 1
    BY <2>1, LargestOfRange
  <2>3. g[t] = g[t \ {k + 1}] + c[k + 1]
    BY <2>1, <2>2 DEF IsSum
  <2>4. k + 1 \in 1 .. n /\ g[1 .. k] = pos[k + 1]
    OBVIOUS
  <2> QED
    BY <1>a, <2>0, <2>1, <2>3, <2>4
<1> HIDE DEF T
<1>3. T = Nat
  <2>1. T \in SUBSET Nat
    BY DEF T
  <2> QED
    BY <1>1, <1>2, <2>1, Induction
<1> QED
  BY <1>3 DEF T

\* If frames lie one behind the other from 0 on, their costs add up to the end.
LEMMA FoldOfCosts ==
    ASSUME NEW s \in Seq(Frames), NEW pos \in [1 .. (Len(s) + 1) -> Nat], pos[1] = 0,
           \A i \in 1 .. Len(s) : pos[i + 1] = pos[i] + Total(s[i])
    PROVE  (CHOOSE g : g = [t \in SUBSET DOMAIN s |->
                IF t = {} THEN 0 ELSE g[t \ {Queue!Max(t)}] + Costs[s[Queue!Max(t)]]])[DOMAIN s]
                = pos[Len(s) + 1]
<1> DEFINE n == Len(s)
           c == [i \in 1 .. n |-> Costs[s[i]]]
           P(g) == g = [t \in SUBSET DOMAIN s |->
                          IF t = {} THEN 0 ELSE g[t \ {Queue!Max(t)}] + Costs[s[Queue!Max(t)]]]
<1>1. n \in Nat /\ DOMAIN s = 1 .. n
  OBVIOUS
<1> HIDE DEF n
<1>2. \A t \in SUBSET (1 .. n) : t # {} => Queue!Max(t) \in t
  <2> SUFFICES ASSUME NEW t \in SUBSET (1 .. n), t # {}
               PROVE  \E x \in t : \A y \in t : x >= y
    BY DEF Queue!Max
  <2> DEFINE U == {n - y : y \in t}
  <2>1. \A y \in t : y \in Nat /\ y <= n /\ n - y \in Nat
    BY <1>1
  <2>2. U \subseteq Nat /\ U # {}
    <3>1. \A y \in t : n - y \in U
      OBVIOUS
    <3>2. \A u \in U : u \in Nat
      BY <2>1
    <3> HIDE DEF U
    <3> QED
      BY <3>1, <3>2
  <2>3. PICK u \in U : \A v \in U : u <= v
    <3> HIDE DEF U
    <3> QED
      BY <2>2, LeastExists
  <2>4. PICK x \in t : u = n - x
    OBVIOUS
  <2>5. ASSUME NEW y \in t PROVE x >= y
    <3>1. n - y \in U
      OBVIOUS
    <3>2. n - x <= n - y
      BY <2>3, <2>4, <3>1
    <3> QED
      BY <1>1, <2>1, <3>2
  <2> QED
    BY <2>5
<1>3. \A g : P(g) <=> IsSum(g, n, c)
  <2> TAKE g
  <2>1. [t \in SUBSET DOMAIN s |->
                          IF t = {} THEN 0 ELSE g[t \ {Queue!Max(t)}] + Costs[s[Queue!Max(t)]]]
        = [t \in SUBSET (1 .. n) |-> IF t = {} THEN 0 ELSE g[t \ {Queue!Max(t)}] + c[Queue!Max(t)]]
    BY <1>1, <1>2
  <2> QED
    BY <2>1 DEF IsSum
<1>4. \E g : P(g)
  BY <1>1, <1>3, SumExists
<1> DEFINE h == CHOOSE g : P(g)
<1>5. IsSum(h, n, c)
  <2>1. P(h)
    BY <1>4
  <2> QED
    BY <1>3, <2>1
<1>6. \A i \in 1 .. n : pos[i + 1] = pos[i] + c[i]
  BY <1>1 DEF Costs, n
<1>8. pos \in [1 .. (n + 1) -> Nat]
  BY DEF n
<1> HIDE DEF h, c
<1>7. h[1 .. n] = pos[n + 1]
  <2> HIDE DEF P
  <2>1. Accumulates(pos, n, c)
    BY <1>6, <1>8 DEF Accumulates
  <2> QED
    BY <2>1, <1>1, <1>5, SumUpTo
<1> QED
  BY <1>1, <1>7 DEF h, n

\* g lists the labels met from each place of lo .. M on, to the first stop.
IsChain(g, lo, M, stop, next, label) ==
    g = [d \in lo .. M |-> IF d \in stop THEN <<>> ELSE <<label[d]>> \o g[next[d]]]

\* The recursive list exists when every place leads to a later one.
LEMMA ChainExists ==
    ASSUME NEW M \in Nat, NEW stop, NEW next, NEW label,
           \A d \in 0 .. M : d \notin stop => next[d] \in (d + 1) .. M
    PROVE  \E g : IsChain(g, 0, M, stop, next, label)
<1> DEFINE T == {k \in Nat : k <= M + 1 => \E g : IsChain(g, (M + 1) - k, M, stop, next, label)}
<1>1. 0 \in T
  <2> DEFINE g == [d \in (M + 1) .. M |-> <<>>]
  <2>1. (M + 1) - 0 = M + 1 /\ (M + 1) .. M = {}
    OBVIOUS
  <2>2. \A h : h = [d \in (M + 1) .. M |-> h[d]] => IsChain(h, M + 1, M, stop, next, label)
    BY <2>1 DEF IsChain
  <2>3. g = [d \in (M + 1) .. M |-> g[d]]
    OBVIOUS
  <2> HIDE DEF g
  <2>4. IsChain(g, M + 1, M, stop, next, label)
    BY <2>2, <2>3
  <2> QED
    BY <2>1, <2>4
<1>2. ASSUME NEW k \in T PROVE k + 1 \in T
  <2> SUFFICES ASSUME k + 1 <= M + 1
               PROVE  \E h : IsChain(h, (M + 1) - (k + 1), M, stop, next, label)
    OBVIOUS
  <2> DEFINE lo == M - k
  <2>1. lo \in 0 .. M /\ (M + 1) - k = lo + 1 /\ (M + 1) - (k + 1) = lo
    OBVIOUS
  <2>2. PICK g : IsChain(g, lo + 1, M, stop, next, label)
    BY <2>1
  <2> HIDE DEF lo
  <2> DEFINE h == [d \in lo .. M |->
                     IF d = lo THEN IF d \in stop THEN <<>> ELSE <<label[d]>> \o g[next[d]]
                     ELSE g[d]]
  <2>3. \A d \in (lo + 1) .. M : d \in lo .. M /\ d # lo /\ h[d] = g[d]
    BY <2>1
  <2>4. ASSUME NEW d \in lo .. M
        PROVE  h[d] = IF d \in stop THEN <<>> ELSE <<label[d]>> \o h[next[d]]
    <3>1. d \notin stop => next[d] \in (lo + 1) .. M
      <4>1. d \in 0 .. M
        BY <2>1
      <4>2. d \notin stop => next[d] \in (d + 1) .. M
        BY <4>1
      <4>3. \A e \in (d + 1) .. M : e \in (lo + 1) .. M
        BY <2>1, <4>1
      <4> QED
        BY <4>2, <4>3
    <3>2. d \notin stop => h[next[d]] = g[next[d]]
      <4> HIDE DEF h
      <4> QED
        BY <3>1, <2>3
    <3>3. CASE d = lo
      <4>1. h[d] = IF d \in stop THEN <<>> ELSE <<label[d]>> \o g[next[d]]
        BY <3>3
      <4> HIDE DEF h
      <4> QED
        BY <3>2, <4>1
    <3>4. CASE d # lo
      <4>1. d \in (lo + 1) .. M
        BY <3>4, <2>1
      <4>2. h[d] = g[d]
        BY <4>1, <2>3
      <4>3. g[d] = IF d \in stop THEN <<>> ELSE <<label[d]>> \o g[next[d]]
        BY <2>2, <4>1 DEF IsChain
      <4> HIDE DEF h
      <4> QED
        BY <3>2, <4>2, <4>3
    <3> QED
      BY <3>3, <3>4
  <2>5. h = [d \in lo .. M |-> h[d]]
    OBVIOUS
  <2> HIDE DEF h
  <2>6. IsChain(h, lo, M, stop, next, label)
    BY <2>4, <2>5 DEF IsChain
  <2> QED
    BY <2>1, <2>6
<1> HIDE DEF T
<1>3. T = Nat
  <2>1. T \in SUBSET Nat
    BY DEF T
  <2> QED
    BY <1>1, <1>2, <2>1, Induction
<1>4. M + 1 \in T
  BY <1>3
<1>5. M + 1 <= M + 1 /\ (M + 1) - (M + 1) = 0
  OBVIOUS
<1>6. \E g : IsChain(g, (M + 1) - (M + 1), M, stop, next, label)
  BY <1>4, <1>5 DEF T
<1> QED
  BY <1>5, <1>6

-------------------------------------------------------------------------------

(***************************************************************************)
(* Stored is the sequence of frames laid out in the live region.           *)
(***************************************************************************)

\* The recursive function of Stored.
From(g) ==
    g = [d \in 0 .. (2 * BufferSize) |->
            IF d >= dataLen \/ Live(d).frame \notin Frames
            THEN <<>>
            ELSE <<Live(d).frame>> \o g[d + Total(Live(d).frame)]]

\* Stored is computed by a function that exists: Total is never 0, so the walk over
\* the live region ends.
LEMMA StoredIsAChain ==
    ASSUME TypeOK
    PROVE  \E g : From(g) /\ Stored = g[0]
<1> DEFINE M == 2 * BufferSize
           stop == {d \in 0 .. M : d >= dataLen \/ Live(d).frame \notin Frames}
           next == [d \in 0 .. M |-> d + Total(Live(d).frame)]
           label == [d \in 0 .. M |-> Live(d).frame]
<1>1. M \in Nat /\ BufferSize \in Nat /\ dataLen \in 0 .. BufferSize
  BY RingAssumption DEF TypeOK
<1>2. ASSUME NEW d \in 0 .. M, d \notin stop
      PROVE  next[d] \in (d + 1) .. M
  <2>1. d < dataLen /\ Live(d).frame \in Frames
    BY <1>1, <1>2
  <2>2. Total(Live(d).frame) \in 1 .. BufferSize
    BY <2>1, Lengths
  <2> QED
    BY <1>1, <2>1, <2>2
<1>3. ASSUME NEW g
      PROVE  From(g) <=> IsChain(g, 0, M, stop, next, label)
  <2>1. \A d \in 0 .. M :
          (IF d >= dataLen \/ Live(d).frame \notin Frames
            THEN <<>>
            ELSE <<Live(d).frame>> \o g[d + Total(Live(d).frame)])
          = IF d \in stop THEN <<>> ELSE <<label[d]>> \o g[next[d]]
    OBVIOUS
  <2> HIDE DEF stop, next, label
  <2> QED
    BY <2>1 DEF From, IsChain
<1>4. \E g : From(g)
  <2>1. \E g : IsChain(g, 0, M, stop, next, label)
    <3> HIDE DEF M, stop, next, label
    <3> QED
      BY <1>1, <1>2, ChainExists
  <2> QED
    BY <1>3, <2>1
<1>5. Stored = (CHOOSE g : From(g))[0]
  BY DEF Stored, From
<1> QED
  BY <1>4, <1>5

\* The frames of s lie in the live region one behind the other, frame i at pos[i].
LaidOut(s, pos) ==
    /\ pos \in [1 .. (Len(s) + 1) -> Nat]
    /\ pos[1] = 0
    /\ pos[Len(s) + 1] = dataLen
    /\ \A i, j \in 1 .. (Len(s) + 1) : i <= j => pos[i] <= pos[j]
    /\ \A i \in 1 .. Len(s) : /\ Live(pos[i]).frame = s[i]
                              /\ pos[i + 1] = pos[i] + Total(s[i])

\* The live region is the frames of s.
Holds(s) == s \in Seq(Frames) /\ \E pos : LaidOut(s, pos)

\* Walking over a layout lists its frames.
LEMMA ChainIsLaidOut ==
    ASSUME TypeOK, NEW s \in Seq(Frames), NEW pos, LaidOut(s, pos), NEW g, From(g)
    PROVE  g[0] = s
<1> DEFINE n == Len(s)
           T == {k \in Nat : k <= n => g[pos[(n + 1) - k]] = SubSeq(s, (n + 1) - k, n)}
<1>1. n \in Nat /\ BufferSize \in Nat /\ dataLen \in 0 .. BufferSize
  BY RingAssumption DEF TypeOK
<1>2. /\ pos \in [1 .. (n + 1) -> Nat]
      /\ pos[1] = 0
      /\ pos[n + 1] = dataLen
      /\ \A i \in 1 .. (n + 1) : pos[i] <= dataLen
  BY <1>1 DEF LaidOut
<1>3. \A i \in 1 .. n : /\ Live(pos[i]).frame = s[i]
                        /\ pos[i + 1] = pos[i] + Total(s[i])
                        /\ s[i] \in Frames
  BY DEF LaidOut
<1>4. 0 \in T
  <2>1. g[dataLen] = <<>>
    BY <1>1 DEF From
  <2>2. SubSeq(s, n + 1, n) = <<>>
    BY <1>1, SubSeqEmpty
  <2>3. (n + 1) - 0 = n + 1
    BY <1>1
  <2> QED
    BY <1>2, <2>1, <2>2, <2>3
<1>5. ASSUME NEW k \in T PROVE k + 1 \in T
  <2> SUFFICES ASSUME k + 1 <= n
               PROVE  g[pos[(n + 1) - (k + 1)]] = SubSeq(s, (n + 1) - (k + 1), n)
    OBVIOUS
  <2> DEFINE i == n - k
  <2>1. /\ i \in 1 .. n
        /\ i + 1 \in 1 .. (n + 1)
        /\ (n + 1) - k = i + 1
        /\ (n + 1) - (k + 1) = i
    BY <1>1
  <2>2. g[pos[i + 1]] = SubSeq(s, i + 1, n)
    BY <1>1, <2>1
  <2> HIDE DEF i, n
  <2>3. /\ Total(s[i]) \in 1 .. BufferSize
        /\ pos[i + 1] = pos[i] + Total(s[i])
        /\ Live(pos[i]).frame = s[i]
        /\ s[i] \in Frames
    BY <1>3, <2>1, Lengths
  <2>4. pos[i] \in 0 .. (2 * BufferSize) /\ pos[i] < dataLen
    <3>1. pos[i] \in Nat /\ pos[i + 1] \in Nat /\ pos[i + 1] <= dataLen
      BY <1>1, <1>2, <2>1
    <3> QED
      BY <1>1, <2>3, <3>1
  <2>5. g[pos[i]] = <<s[i]>> \o g[pos[i + 1]]
    <3>1. g[pos[i]] = IF pos[i] >= dataLen \/ Live(pos[i]).frame \notin Frames
                      THEN <<>>
                      ELSE <<Live(pos[i]).frame>> \o g[pos[i] + Total(Live(pos[i]).frame)]
      BY <2>4 DEF From
    <3>2. ~ (pos[i] >= dataLen)
      BY <1>1, <2>4
    <3> QED
      BY <2>3, <3>1, <3>2
  <2>6. SubSeq(s, i, n) = <<s[i]>> \o SubSeq(s, i + 1, n)
    <3>1. n \in i .. n /\ n = Len(s)
      BY <1>1, <2>1 DEF n
    <3> QED
      BY <2>1, <3>1, SubSeqRecursiveFirst
  <2> QED
    BY <2>1, <2>2, <2>5, <2>6
<1> HIDE DEF T
<1>6. T = Nat
  <2>1. T \in SUBSET Nat
    BY DEF T
  <2> QED
    BY <1>4, <1>5, <2>1, Induction
<1>7. n \in T /\ (n + 1) - n = 1
  BY <1>1, <1>6
<1>8. g[pos[1]] = SubSeq(s, 1, n)
  BY <1>1, <1>7 DEF T
<1> QED
  BY <1>2, <1>8, SubSeqFull

\* The mapped queue is the layout, and what it uses is m_nDataLen.
LEMMA HeldIsStored ==
    ASSUME TypeOK, NEW s, Holds(s)
    PROVE  Stored = s /\ Queue!Used = dataLen
<1>1. PICK pos : LaidOut(s, pos)
  BY DEF Holds
<1>2. PICK from : From(from) /\ Stored = from[0]
  BY StoredIsAChain
<1>3. s \in Seq(Frames)
  BY DEF Holds
<1>4. Stored = s
  BY <1>1, <1>2, <1>3, ChainIsLaidOut
<1>5. /\ pos \in [1 .. (Len(s) + 1) -> Nat]
      /\ pos[1] = 0
      /\ \A i \in 1 .. Len(s) : pos[i + 1] = pos[i] + Total(s[i])
      /\ pos[Len(s) + 1] = dataLen
  BY <1>1 DEF LaidOut
<1>6. (CHOOSE g : g = [t \in SUBSET DOMAIN s |->
                IF t = {} THEN 0 ELSE g[t \ {Queue!Max(t)}] + Costs[s[Queue!Max(t)]]])[DOMAIN s]
        = pos[Len(s) + 1]
  BY <1>3, <1>5, FoldOfCosts
<1> QED
  BY <1>4, <1>5, <1>6, UsedIsAFold

-------------------------------------------------------------------------------

(***************************************************************************)
(* Each action moves the layout as the frame queue moves.                  *)
(***************************************************************************)

\* The live region holds one frame after the other and nothing else.
InOrder == \E s : Holds(s)

\* What holding s says of the mapped variables.
StoredFact == \A s : Holds(s) => Stored = s /\ Queue!Used = dataLen

\* A layout of no frame is empty, a layout of some frame is not, and the first
\* frame of a layout is the one at the read point.
LEMMA FirstFrame ==
    ASSUME TypeOK, NEW s, Holds(s)
    PROVE  /\ s \in Seq(Frames)
           /\ dataLen = 0 <=> s = <<>>
           /\ s # <<>> => Live(0).frame = Head(s)
<1>1. PICK pos : LaidOut(s, pos)
  BY DEF Holds
<1>2. s \in Seq(Frames) /\ Len(s) \in Nat
  BY DEF Holds
<1>3. CASE s = <<>>
  <2>1. Len(s) = 0
    BY <1>3
  <2>2. dataLen = 0
    BY <1>1, <2>1 DEF LaidOut
  <2> QED
    BY <1>2, <1>3, <2>2
<1>4. CASE s # <<>>
  <2>1. 1 \in 1 .. Len(s) /\ 2 \in 1 .. (Len(s) + 1) /\ Len(s) + 1 \in 1 .. (Len(s) + 1)
    BY <1>2, <1>4
  <2>2. s[1] \in Frames /\ Head(s) = s[1]
    BY <1>2, <1>4, <2>1
  <2>3. Live(0).frame = s[1] /\ pos[2] = Total(s[1]) /\ pos[2] <= dataLen
    <3>1. pos[1] = 0 /\ Live(pos[1]).frame = s[1] /\ pos[1 + 1] = pos[1] + Total(s[1])
      BY <1>1, <2>1 DEF LaidOut
    <3>2. pos[2] <= pos[Len(s) + 1] /\ pos[Len(s) + 1] = dataLen
      BY <1>1, <1>2, <2>1 DEF LaidOut
    <3>3. Total(s[1]) \in Nat
      BY <2>2, Lengths
    <3> QED
      BY <3>1, <3>2, <3>3
  <2>4. dataLen # 0
    <3>1. Total(s[1]) \in 1 .. BufferSize
      BY <2>2, Lengths
    <3>2. dataLen \in 0 .. BufferSize
      BY DEF TypeOK
    <3> QED
      BY <2>3, <3>1, <3>2
  <2> QED
    BY <1>2, <1>4, <2>2, <2>3, <2>4
<1> QED
  BY <1>3, <1>4

\* A step that touches neither the bytes nor the live region keeps the layout.
LEMMA SameLayout ==
    ASSUME UNCHANGED <<mem, readPoint, dataLen>>, NEW s, Holds(s)
    PROVE  Holds(s)'
<1>1. \A d : Live(d)' = Live(d)
  BY DEF Live
<1>2. \A pos : LaidOut(s, pos) => LaidOut(s, pos)'
  BY <1>1 DEF LaidOut
<1> QED
  BY <1>2 DEF Holds

\* Moving the read point over the first frame leaves the other frames.
LEMMA DropHeadInOrder ==
    ASSUME IInv, dataLen > 0, NEW s, Holds(s),
           mem' = mem, readPoint' = AddBuffer(readPoint, Total(Live(0).frame)),
           dataLen' = dataLen - Total(Live(0).frame)
    PROVE  s # <<>> /\ Live(0).frame = Head(s) /\ Holds(Tail(s))'
<1>0. PICK T, rest : T = Total(Live(0).frame) /\ rest = Tail(s)
  OBVIOUS
<1> DEFINE n == Len(s)
<1>1. T \in 1 .. BufferSize /\ T <= dataLen /\ dataLen \in 0 .. BufferSize
  BY <1>0, HeadFrame, Lengths DEF IInv, TypeOK
<1>2. s \in Seq(Frames) /\ s # <<>> /\ Live(0).frame = Head(s)
  BY <1>1, FirstFrame DEF IInv
<1>3. PICK pos : LaidOut(s, pos)
  BY DEF Holds
<1>4. n \in Nat \ {0} /\ rest \in Seq(Frames) /\ Len(rest) = n - 1 /\ s[1] = Head(s)
  BY <1>0, <1>2
<1>5. \A i \in 1 .. (n - 1) : rest[i] = s[i + 1]
  BY <1>0, <1>2, <1>4
<1>6. \A d \in Nat : d < dataLen' => Live(d)' = Live(T + d)
  BY <1>0, LiveAfterDrop
<1>7. /\ pos \in [1 .. (n + 1) -> Nat]
      /\ pos[n + 1] = dataLen
      /\ \A i, j \in 1 .. (n + 1) : i <= j => pos[i] <= pos[j]
      /\ \A i \in 1 .. n : /\ Live(pos[i]).frame = s[i]
                           /\ pos[i + 1] = pos[i] + Total(s[i])
  BY <1>3 DEF LaidOut
<1>8. \A i \in 1 .. n : Total(s[i]) \in 1 .. BufferSize
  BY <1>2, Lengths
<1> HIDE DEF n
<1>9. pos[2] = T
  <2>1. 1 \in 1 .. n /\ pos[1] = 0
    BY <1>3, <1>4 DEF LaidOut
  <2>2. pos[1 + 1] = pos[1] + T
    BY <1>0, <1>2, <1>4, <1>7, <2>1
  <2> QED
    BY <1>1, <2>1, <2>2
<1>10. \A i \in 2 .. (n + 1) : pos[i] \in Nat /\ pos[i] >= T /\ pos[i] <= dataLen
  BY <1>4, <1>7, <1>9
<1>a. PICK moved : moved = [i \in 1 .. n |-> pos[i + 1] - T]
  OBVIOUS
<1>11. moved \in [1 .. n -> Nat]
  <2>1. \A i \in 1 .. n : i + 1 \in 2 .. (n + 1) /\ pos[i + 1] - T \in Nat
    BY <1>1, <1>4, <1>10
  <2> QED
    BY <1>a, <2>1
<1>12. moved[1] = 0 /\ moved[n] = dataLen'
  <2>1. 1 \in 1 .. n /\ n \in 1 .. n
    BY <1>4
  <2>2. pos[1 + 1] - T = 0
    BY <1>1, <1>9
  <2>3. pos[n + 1] - T = dataLen'
    BY <1>0, <1>7
  <2> QED
    BY <1>a, <2>1, <2>2, <2>3
<1>13. ASSUME NEW i \in 1 .. n, NEW j \in 1 .. n, i <= j
       PROVE  moved[i] <= moved[j]
  <2>1. i + 1 \in 2 .. (n + 1) /\ j + 1 \in 2 .. (n + 1) /\ i + 1 <= j + 1
    BY <1>4, <1>13
  <2>2. pos[i + 1] <= pos[j + 1] /\ pos[i + 1] \in Nat /\ pos[j + 1] \in Nat
    BY <1>4, <1>7, <1>10, <2>1
  <2> QED
    BY <1>1, <1>a, <2>2
<1>14. ASSUME NEW i \in 1 .. (n - 1)
       PROVE  Live(moved[i])'.frame = rest[i] /\ moved[i + 1] = moved[i] + Total(rest[i])
  <2>1. i \in 1 .. n /\ i + 1 \in 1 .. n /\ i + 1 \in 2 .. (n + 1) /\ (i + 1) + 1 \in 2 .. (n + 1)
    BY <1>4
  <2>2. /\ Live(pos[i + 1]).frame = s[i + 1]
        /\ pos[(i + 1) + 1] = pos[i + 1] + Total(s[i + 1])
        /\ Total(s[i + 1]) \in 1 .. BufferSize
        /\ rest[i] = s[i + 1]
    BY <1>5, <1>7, <1>8, <2>1
  <2>3. /\ pos[i + 1] \in Nat /\ pos[i + 1] >= T
        /\ pos[(i + 1) + 1] \in Nat /\ pos[(i + 1) + 1] <= dataLen
    BY <1>10, <2>1
  <2>4. moved[i] = pos[i + 1] - T /\ moved[i + 1] = pos[(i + 1) + 1] - T
    BY <1>a, <2>1
  <2>5. moved[i] \in Nat /\ moved[i] < dataLen' /\ T + moved[i] = pos[i + 1]
    <3>1. dataLen' = dataLen - T
      BY <1>0
    <3> QED
      BY <1>1, <2>2, <2>3, <2>4, <3>1
  <2>6. Live(moved[i])' = Live(pos[i + 1])
    BY <1>6, <2>5
  <2> QED
    BY <1>1, <2>2, <2>3, <2>4, <2>6
<1>15. LaidOut(rest, moved)'
  <2>1. Len(rest) + 1 = n
    BY <1>4
  <2> QED
    BY <1>4, <1>11, <1>12, <1>13, <1>14, <2>1 DEF LaidOut
<1>16. Holds(rest)'
  <2> QED
    BY <1>4, <1>15 DEF Holds
<1> QED
  BY <1>0, <1>2, <1>16

\* The frame PushEnd writes comes after the frames that were there.
LEMMA PushInOrder ==
    ASSUME IInv, PushEnd, NEW s, Holds(s), NEW f \in Frames, pushing = f
    PROVE  Holds(Append(s, f))'
<1> DEFINE n == Len(s)
<1>1. PICK len \in 0 .. BufferSize : f = pushing /\ len = dataLen
  BY DEF IInv, TypeOK
<1>0. PICK T, all : T = Total(f) /\ all = Append(s, f)
  OBVIOUS
<1>2. PICK pos : LaidOut(s, pos)
  BY DEF Holds
<1>3. s \in Seq(Frames) /\ n \in Nat /\ all \in Seq(Frames) /\ Len(all) = n + 1
  BY <1>0 DEF Holds
<1>4. all[n + 1] = f /\ \A i \in 1 .. n : all[i] = s[i]
  BY <1>0, <1>3
<1>5. T \in 1 .. BufferSize /\ len \in 0 .. BufferSize /\ dataLen' = len + T
  BY <1>0, <1>1, LiveAfterPush, Lengths
<1>6. \A d \in Nat : d < dataLen' =>
        Live(d)' = IF d < len THEN Live(d) ELSE Byte(f, d - len)
  BY <1>1, LiveAfterPush
<1>7. /\ pos \in [1 .. (n + 1) -> Nat]
      /\ pos[1] = 0
      /\ pos[n + 1] = len
      /\ \A i, j \in 1 .. (n + 1) : i <= j => pos[i] <= pos[j]
      /\ \A i \in 1 .. n : /\ Live(pos[i]).frame = s[i]
                           /\ pos[i + 1] = pos[i] + Total(s[i])
  BY <1>1, <1>2 DEF LaidOut
<1>8. \A i \in 1 .. n : Total(s[i]) \in 1 .. BufferSize
  BY <1>3, Lengths
<1> HIDE DEF n
<1>a. PICK longer : longer = [i \in 1 .. (n + 2) |-> IF i = n + 2 THEN len + T ELSE pos[i]]
  OBVIOUS
<1>9. \A i \in 1 .. (n + 1) : longer[i] = pos[i] /\ pos[i] \in Nat /\ pos[i] <= len
  <2>1. \A i \in 1 .. (n + 1) : i # n + 2 /\ i \in 1 .. (n + 2)
    BY <1>3
  <2>2. \A i \in 1 .. (n + 1) : pos[i] \in Nat /\ pos[i] <= len
    BY <1>3, <1>7
  <2> QED
    BY <1>a, <2>1, <2>2
<1>10. longer[n + 2] = len + T
  BY <1>3, <1>a
<1>11. longer \in [1 .. (n + 2) -> Nat]
  <2>1. \A i \in 1 .. (n + 2) : i = n + 2 \/ i \in 1 .. (n + 1)
    BY <1>3
  <2>2. \A i \in 1 .. (n + 2) : longer[i] \in Nat
    BY <1>5, <1>9, <1>10, <2>1
  <2> QED
    BY <1>a, <2>2
<1>12. longer[1] = 0 /\ longer[n + 2] = dataLen'
  BY <1>3, <1>5, <1>7, <1>9, <1>10
<1>13. ASSUME NEW i \in 1 .. (n + 2), NEW j \in 1 .. (n + 2), i <= j
       PROVE  longer[i] <= longer[j]
  <2>1. CASE j \in 1 .. (n + 1)
    <3>1. i \in 1 .. (n + 1)
      BY <1>3, <1>13, <2>1
    <3> QED
      BY <1>7, <1>9, <1>13, <2>1, <3>1
  <2>2. CASE j = n + 2
    <3>1. i = n + 2 \/ i \in 1 .. (n + 1)
      BY <1>3
    <3>2. longer[i] <= len + T
      BY <1>5, <1>9, <1>10, <3>1
    <3> QED
      BY <1>10, <2>2, <3>2
  <2> QED
    BY <1>3, <2>1, <2>2
<1>14. ASSUME NEW i \in 1 .. (n + 1)
       PROVE  Live(longer[i])'.frame = all[i] /\ longer[i + 1] = longer[i] + Total(all[i])
  <2>1. CASE i \in 1 .. n
    <3>1. i + 1 \in 1 .. (n + 1)
      BY <1>3, <2>1
    <3>2. /\ Live(pos[i]).frame = s[i]
          /\ pos[i + 1] = pos[i] + Total(s[i])
          /\ Total(s[i]) \in 1 .. BufferSize
          /\ all[i] = s[i]
      BY <1>4, <1>7, <1>8, <2>1
    <3>3. longer[i] = pos[i] /\ longer[i + 1] = pos[i + 1]
      BY <1>9, <3>1
    <3>4. pos[i] \in Nat /\ pos[i] < len /\ pos[i] < dataLen'
      <4>1. pos[i] \in Nat /\ pos[i + 1] \in Nat /\ pos[i + 1] <= len
        BY <1>9, <3>1
      <4> QED
        BY <1>5, <3>2, <4>1
    <3>5. Live(pos[i])' = Live(pos[i])
      BY <1>6, <3>4
    <3> QED
      BY <3>2, <3>3, <3>5
  <2>2. CASE i = n + 1
    <3>1. longer[i] = len /\ longer[i + 1] = len + T /\ all[i] = f
      BY <1>3, <1>4, <1>7, <1>9, <1>10, <2>2
    <3>2. Live(len)' = Byte(f, len - len)
      <4>1. len \in Nat /\ len < dataLen' /\ ~ (len < len)
        BY <1>5
      <4> QED
        BY <1>6, <4>1
    <3> QED
      BY <1>0, <3>1, <3>2 DEF Byte
  <2> QED
    BY <1>3, <2>1, <2>2
<1>15. LaidOut(all, longer)'
  <2>1. Len(all) + 1 = n + 2
    BY <1>3
  <2> QED
    BY <1>3, <1>11, <1>12, <1>13, <1>14, <2>1 DEF LaidOut
<1>16. Holds(all)'
  BY <1>3, <1>15 DEF Holds
<1> QED
  BY <1>0, <1>16

-------------------------------------------------------------------------------

(***************************************************************************)
(* What a pop copies out names its frame.                                  *)
(***************************************************************************)

\* Different frames have different bytes, and no frame is no bytes.
LEMMA FrameBytesDiffer ==
    ASSUME NEW f \in Frames
    PROVE  FrameBytes(f) # <<>> /\ \A g \in Frames : FrameBytes(f) = FrameBytes(g) => f = g
<1>2. ASSUME NEW g \in Frames PROVE 0 \in 0 .. (NodeValue(g) - 1)
  <2>1. NodeValue(g) \in Nat /\ NodeValue(g) >= 1
    BY Lengths
  <2> QED
    BY <2>1
<1>3. \A g \in Frames : 0 \in DOMAIN FrameBytes(g) /\ FrameBytes(g)[0].frame = g
  BY <1>2 DEF FrameBytes, Byte
<1>4. 0 \notin DOMAIN <<>>
  OBVIOUS
<1> QED
  BY <1>3, <1>4

-------------------------------------------------------------------------------

\* The invariant the theorems share: frames are laid out in order in the live
\* region, whole, and between the pointers.
Invariant == IInv /\ PopIsOneFrame /\ InOrder

\* The buffer starts empty.
LEMMA InitInvariant == Init => Invariant /\ Holds(<<>>)
<1> SUFFICES ASSUME Init PROVE Invariant /\ Holds(<<>>)
  OBVIOUS
<1>1. BufferSize \in Nat \ {0}
  BY RingAssumption
<1>2. TypeOK
  BY <1>1 DEF Init, TypeOK, Addr, Bytes, Byte
<1>3. PointersAgree
  BY <1>1 DEF Init, PointersAgree, AddBuffer
<1>4. WholeFrames
  BY DEF Init, WholeFrames
<1>5. Holds(<<>>)
  <2> DEFINE pos == [i \in 1 .. 1 |-> 0]
  <2>1. <<>> \in Seq(Frames) /\ Len(<<>>) = 0
    OBVIOUS
  <2>2. LaidOut(<<>>, pos)
    BY <2>1 DEF LaidOut, Init
  <2> QED
    BY <2>1, <2>2 DEF Holds
<1> QED
  BY <1>2, <1>3, <1>4, <1>5 DEF Invariant, InOrder, IInv, Init, PopIsOneFrame

\* The oldest frame goes when EraseBuffer makes room.
LEMMA EraseBufferLayout ==
    ASSUME IInv, EraseBuffer, NEW s, Holds(s)
    PROVE  s # <<>> /\ Holds(Tail(s))'
BY EraseBufferStep, DropHeadInOrder

\* PopBuffer takes out the oldest frame and copies out its bytes.
LEMMA PopLayout ==
    ASSUME IInv, Pop, NEW s, Holds(s)
    PROVE  /\ s # <<>>
           /\ Holds(Tail(s))'
           /\ Head(s) \in Frames
           /\ popped' = FrameBytes(Head(s))
<1>1. dataLen > 0
  BY DEF Pop
<1> QED
  BY <1>1, PopStep, DropHeadInOrder

\* Every step of a push and every pop preserves the inductive invariant.
LEMMA NextInvariant ==
    ASSUME Invariant, [Next]_vars
    PROVE  Invariant'
<1>0. IInv /\ PopIsOneFrame
  BY DEF Invariant
<1>s. PICK s : Holds(s)
  BY DEF Invariant, InOrder
<1>u. ASSUME UNCHANGED <<mem, writePoint, readPoint, dataLen>>, pushing' \in Frames \cup {NoFrame}
      PROVE  IInv' /\ InOrder'
  <2>1. IInv'
    BY <1>0, <1>u DEF IInv, TypeOK, PointersAgree, WholeFrames, InWholeFrame, Live
  <2>2. Holds(s)'
    BY <1>s, <1>u, SameLayout
  <2> QED
    BY <2>1, <2>2 DEF InOrder
<1>p. popped' = popped => PopIsOneFrame'
  BY <1>0 DEF PopIsOneFrame
<1>1. ASSUME NEW f \in Frames, PushBegin(f)
      PROVE  Invariant'
  BY <1>1, <1>u, <1>p DEF PushBegin, Invariant
<1>2. CASE EraseBuffer
  <2>1. IInv' /\ popped' = popped
    BY <1>0, <1>2, EraseBufferStep
  <2>2. Holds(Tail(s))'
    BY <1>0, <1>2, <1>s, EraseBufferLayout
  <2> QED
    BY <2>1, <2>2, <1>p DEF Invariant, InOrder
<1>3. CASE PushEnd
  <2>1. IInv' /\ popped' = popped
    BY <1>0, <1>3, PushEndStep DEF PushEnd
  <2>2. PICK f \in Frames : pushing = f
    BY <1>0, <1>3 DEF PushEnd, IInv, TypeOK
  <2>3. Holds(Append(s, f))'
    BY <1>0, <1>3, <1>s, <2>2, PushInOrder
  <2> QED
    BY <2>1, <2>3, <1>p DEF Invariant, InOrder
<1>4. CASE Pop
  <2>1. IInv' /\ PopIsOneFrame'
    BY <1>0, <1>4, PopStep DEF PopIsOneFrame
  <2>2. Holds(Tail(s))'
    BY <1>0, <1>4, <1>s, PopLayout
  <2> QED
    BY <2>1, <2>2 DEF Invariant, InOrder
<1>5. CASE PopNothing
  <2>1. PopIsOneFrame'
    BY <1>5 DEF PopNothing, PopIsOneFrame
  <2>2. pushing' \in Frames \cup {NoFrame}
    BY <1>0, <1>5 DEF PopNothing, IInv, TypeOK
  <2> QED
    BY <2>1, <2>2, <1>5, <1>u DEF PopNothing, Invariant
<1>6. CASE UNCHANGED vars
  <2>1. pushing' \in Frames \cup {NoFrame}
    BY <1>0, <1>6 DEF vars, IInv, TypeOK
  <2> QED
    BY <2>1, <1>6, <1>u, <1>p DEF vars, Invariant
<1> QED
  BY <1>1, <1>2, <1>3, <1>4, <1>5, <1>6 DEF Next

\* The invariant holds in every reachable state.
LEMMA Invariance == Spec => []Invariant
<1>1. Init => Invariant
  BY InitInvariant
<1>2. Invariant /\ [Next]_vars => Invariant'
  BY NextInvariant
<1> QED
  BY <1>1, <1>2, PTL DEF Spec

-------------------------------------------------------------------------------

(***************************************************************************)
(* The refinement.                                                         *)
(***************************************************************************)

\* In a state of the invariant the mapped queue is the layout, and the room it
\* uses is m_nDataLen.
LEMMA InvariantStores == Invariant => StoredFact
BY HeldIsStored DEF Invariant, IInv, StoredFact

\* An empty buffer is the empty queue.
LEMMA InitIsQueueInit == Init => Queue!Init
<1> SUFFICES ASSUME Init PROVE Queue!Init
  OBVIOUS
<1>1. Stored = <<>>
  BY InitInvariant, InvariantStores DEF StoredFact
<1>2. Delivered = NoFrame
  BY FrameBytesDiffer DEF Delivered, Init
<1> QED
  BY <1>1, <1>2 DEF Init, Queue!Init

\* Each step of the byte buffer is the step of the same name of the queue.
LEMMA NextIsQueueNext ==
    ASSUME Invariant, StoredFact, StoredFact', [Next]_vars
    PROVE  [Queue!Next]_(Queue!vars)
<1>0. IInv
  BY DEF Invariant
<1>s. PICK s : Holds(s)
  BY DEF Invariant, InOrder
<1>1. Stored = s /\ Queue!Used = dataLen
  BY <1>s DEF StoredFact
<1>2. \A r : Holds(r)' => Stored' = r
  BY DEF StoredFact
<1>3. UNCHANGED <<mem, readPoint, dataLen>> => Stored' = s
  BY <1>s, <1>2, SameLayout
<1>4. popped' = popped => Delivered' = Delivered
  BY DEF Delivered
<1>5. \A f \in Frames : Queue!Fits(f) <=> dataLen + Total(f) <= BufferSize
  BY <1>1 DEF Queue!Fits
<1>6. /\ s \in Seq(Frames)
      /\ dataLen = 0 <=> s = <<>>
  BY <1>0, <1>s, FirstFrame DEF IInv
<1>7. dataLen \in Int /\ BufferSize \in Int /\ \A f \in Frames : Total(f) \in Int
  BY <1>0, RingAssumption, Lengths DEF IInv, TypeOK
<1>8. ASSUME NEW f \in Frames, PushBegin(f)
      PROVE  Queue!Offer(f)
  <2>1. Stored' = Stored /\ Delivered' = Delivered
    BY <1>8, <1>1, <1>3, <1>4 DEF PushBegin
  <2> QED
    BY <1>8, <2>1 DEF PushBegin, Queue!Offer
<1>9. CASE EraseBuffer
  <2>1. s # <<>> /\ Holds(Tail(s))' /\ UNCHANGED <<pushing, popped>>
    BY <1>0, <1>9, <1>s, EraseBufferLayout, EraseBufferStep
  <2>2. pushing \in Frames /\ ~ Queue!Fits(pushing) /\ pushing # NoFrame
    <3>1. pushing \in Frames /\ pushing # NoFrame /\ BufferSize - dataLen < Total(pushing)
      BY <1>0, <1>9 DEF EraseBuffer, GetIdleLength, IInv, TypeOK
    <3> QED
      BY <1>5, <1>7, <3>1
  <2>3. Stored' = Tail(Stored) /\ Delivered' = Delivered
    BY <1>1, <1>2, <1>4, <2>1
  <2>4. Queue!DropOldest
    BY <1>1, <2>1, <2>2, <2>3 DEF Queue!DropOldest
  <2> QED
    BY <2>4 DEF Queue!Next
<1>10. CASE PushEnd
  <2>1. PICK f \in Frames : pushing = f
    BY <1>0, <1>10 DEF PushEnd, IInv, TypeOK
  <2>2. pushing # NoFrame /\ pushing' = NoFrame /\ popped' = popped /\ BufferSize - dataLen >= Total(f)
    BY <1>10, <2>1 DEF PushEnd, GetIdleLength
  <2>3. Queue!Fits(pushing)
    BY <1>5, <1>7, <2>1, <2>2
  <2>4. Holds(Append(s, f))'
    BY <1>0, <1>10, <1>s, <2>1, PushInOrder
  <2>5. Stored' = Append(Stored, pushing) /\ Delivered' = Delivered
    BY <1>1, <1>2, <1>4, <2>1, <2>2, <2>4
  <2>6. Queue!Store
    BY <2>2, <2>3, <2>5 DEF Queue!Store
  <2> QED
    BY <2>6 DEF Queue!Next
<1>11. CASE Pop
  <2>1. /\ s # <<>>
        /\ Holds(Tail(s))'
        /\ Head(s) \in Frames
        /\ popped' = FrameBytes(Head(s))
    BY <1>0, <1>11, <1>s, PopLayout
  <2>2. Delivered' = Head(s)
    BY <2>1, FrameBytesDiffer DEF Delivered
  <2>3. Stored' = Tail(s)
    BY <1>2, <2>1
  <2>4. Queue!Take
    BY <1>1, <1>11, <2>1, <2>2, <2>3 DEF Pop, Queue!Take
  <2> QED
    BY <2>4 DEF Queue!Next
<1>12. CASE PopNothing
  <2>1. s = <<>>
    BY <1>0, <1>6, <1>12 DEF PopNothing, IInv, TypeOK
  <2>2. Delivered' = NoFrame
    BY <1>12, FrameBytesDiffer DEF Delivered, PopNothing
  <2>3. Stored' = s
    BY <1>3, <1>12 DEF PopNothing
  <2>4. Queue!TakeNothing
    BY <1>1, <1>12, <2>1, <2>2, <2>3 DEF PopNothing, Queue!TakeNothing
  <2> QED
    BY <2>4 DEF Queue!Next
<1>13. CASE UNCHANGED vars
  <2>1. Stored' = Stored /\ Delivered' = Delivered /\ pushing' = pushing
    BY <1>1, <1>3, <1>4, <1>13 DEF vars
  <2> QED
    BY <2>1 DEF Queue!vars
<1> QED
  BY <1>8, <1>9, <1>10, <1>11, <1>12, <1>13 DEF Next, Queue!Next

\* A turn of a push's loop, or its end, drops a frame or stores one.
LEMMA TurnIsQueueTurn ==
    ASSUME Invariant, StoredFact, StoredFact', EraseBuffer \/ PushEnd
    PROVE  <<Queue!DropOldest \/ Queue!Store>>_(Queue!vars)
<1>0. IInv
  BY DEF Invariant
<1>s. PICK s : Holds(s)
  BY DEF Invariant, InOrder
<1>1. Stored = s /\ s \in Seq(Frames)
  BY <1>s DEF StoredFact, Holds
<1>2. \A r : Holds(r)' => Stored' = r
  BY DEF StoredFact
<1>3. [Queue!Next]_(Queue!vars)
  BY NextIsQueueNext DEF Next
<1>4. CASE EraseBuffer
  <2>1. s # <<>> /\ Holds(Tail(s))' /\ pushing' = pushing
    BY <1>0, <1>4, <1>s, EraseBufferLayout, EraseBufferStep
  <2>2. Stored' = Tail(Stored) /\ Stored' # Stored /\ pushing # NoFrame
    <3>1. Stored' = Tail(s)
      BY <1>2, <2>1
    <3>2. s \in Seq(Frames) /\ s # <<>>
      BY <1>1, <2>1
    <3>3. Tail(s) # s
      <4>1. Len(Tail(s)) = Len(s) - 1 /\ Len(s) \in Nat
        BY <3>2
      <4>2. Len(Tail(s)) # Len(s)
        BY <4>1
      <4> QED
        BY <4>2
    <3> QED
      BY <1>1, <1>4, <3>1, <3>3 DEF EraseBuffer
  <2>3. Queue!DropOldest
    BY <1>3, <2>1, <2>2 DEF Queue!Next, Queue!vars, Queue!Offer, Queue!Store, Queue!Take,
                            Queue!TakeNothing
  <2> QED
    BY <2>2, <2>3 DEF Queue!vars
<1>5. CASE PushEnd
  <2>1. pushing # NoFrame /\ pushing' = NoFrame
    BY <1>5 DEF PushEnd
  <2>2. Queue!Store
    BY <1>3, <2>1 DEF Queue!Next, Queue!vars, Queue!Offer, Queue!DropOldest, Queue!Take,
                      Queue!TakeNothing
  <2> QED
    BY <2>1, <2>2 DEF Queue!vars
<1> QED
  BY <1>4, <1>5

-------------------------------------------------------------------------------

\* The pointers stay in the buffer and the counter within its size, for every
\* buffer and every frame length (all of CRingBuffer).
THEOREM TypeCorrect == Spec => []TypeOK
<1>1. Invariant => TypeOK
  BY DEF Invariant, IInv
<1> QED
  BY <1>1, Invariance, PTL

\* m_pReadPoint, m_pWritePoint and m_nDataLen describe the same live region.
THEOREM PointersAlwaysAgree == Spec => []PointersAgree
<1>1. Invariant => PointersAgree
  BY DEF Invariant, IInv
<1> QED
  BY <1>1, Invariance, PTL

\* No producer overwrites part of a frame that can still be popped (PushBuffer
\* with EraseBuffer).
THEOREM FramesStayWhole == Spec => []WholeFrames
<1>1. Invariant => WholeFrames
  BY DEF Invariant, IInv
<1> QED
  BY <1>1, Invariance, PTL

\* PopBuffer returns the header and payload of one pushed frame, or nothing.
THEOREM PopsAreWhole == Spec => []PopIsOneFrame
<1>1. Invariant => PopIsOneFrame
  BY DEF Invariant
<1> QED
  BY <1>1, Invariance, PTL

\* The byte buffer implements the frame queue, step by step: arrival order, the
\* oldest frame out first, no frame dropped unless the new one does not fit.
THEOREM BufferImplementsQueue == Spec => ImplementsFrameQueue
<1>1. Init => Queue!Init
  BY InitIsQueueInit
<1>2. Invariant => StoredFact
  BY InvariantStores
<1>3. Invariant /\ StoredFact /\ StoredFact' /\ [Next]_vars => [Queue!Next]_(Queue!vars)
  BY NextIsQueueNext
<1>4. Spec => [](Invariant)
  BY Invariance
<1> QED
  BY <1>1, <1>2, <1>3, <1>4, PTL DEF Spec, ImplementsFrameQueue

\* A push that goes on to another turn of its loop has freed bytes: the loop that
\* makes room cannot turn more often than m_nDataLen counts (PushBuffer).
THEOREM PushesGetOn ==
    Spec => [][pushing # NoFrame =>
                 \/ pushing' = NoFrame
                 \/ pushing' = pushing /\ dataLen' < dataLen]_vars
<1>1. ASSUME Invariant, Next, pushing # NoFrame, pushing' # NoFrame
      PROVE  pushing' = pushing /\ dataLen' < dataLen
  <2>1. EraseBuffer
    BY <1>1 DEF Next, PushBegin, PushEnd, Pop, PopNothing
  <2>2. IInv /\ dataLen \in Nat
    BY <1>1 DEF Invariant, IInv, TypeOK
  <2>3. /\ pushing' = pushing
        /\ Live(0).frame \in Frames
        /\ dataLen' = dataLen - Total(Live(0).frame)
    BY <2>1, <2>2, EraseBufferStep
  <2>4. Total(Live(0).frame) \in Nat \ {0}
    BY <2>3, Lengths
  <2> QED
    BY <2>2, <2>3, <2>4
<1>2. Invariant /\ [Next]_vars =>
        [pushing # NoFrame =>
           \/ pushing' = NoFrame
           \/ pushing' = pushing /\ dataLen' < dataLen]_vars
  BY <1>1
<1> QED
  BY <1>2, Invariance, PTL DEF Spec

\* The thread inside PushBuffer never waits: a push under way can go on.
PushCanGoOn == [](pushing # NoFrame => ENABLED <<EraseBuffer \/ PushEnd>>_vars)

\* The frame queue's fairness follows from the buffer's: if the thread inside PushBuffer
\* keeps running, the queue's push goes on.  The premises say when the two fair actions
\* are enabled, which their guards do.
THEOREM PushesAreFair ==
    Spec /\ PushCanGoOn /\ Queue!TurnsOnlyForPushes => EveryPushCompletes
<1>1. Invariant => StoredFact
  BY InvariantStores
<1>2. Invariant /\ StoredFact /\ StoredFact' /\ <<EraseBuffer \/ PushEnd>>_vars
        => <<Queue!DropOldest \/ Queue!Store>>_(Queue!vars)
  BY TurnIsQueueTurn
<1>3. Spec => []Invariant
  BY Invariance
<1> QED
  BY <1>1, <1>2, <1>3, PTL
     DEF Spec, PushCanGoOn, Queue!TurnsOnlyForPushes, EveryPushCompletes, Queue!Fairness

===============================================================================
