------------------------------ MODULE UploadProofs ------------------------------
(***************************************************************************)
(* Proofs about Upload for any number of files and connections.            *)
(* That nothing goes missing is a matter of counts on a connection with    *)
(* one write loop: the messages are numbered, and the one being written    *)
(* and those that wait follow the last the device got.  When SentData is   *)
(* to start the loop, the start behind which it is issued still waits, so  *)
(* that there is something to write.                                       *)
(* That every upload is settled rests on a count: the host has at least as *)
(* many sessions of a file as there are starts of it that the device has   *)
(* yet to get, to answer, or to see its session erased for.                *)
(***************************************************************************)
EXTENDS Upload, SequenceTheorems, FiniteSetTheorems, FunctionTheorems, WellFoundedInduction, TLAPS

\* Occurrences in s of members of S.
Count(s, S) == Cardinality({i \in DOMAIN s : s[i] \in S})

Num(cond) == IF cond THEN 1 ELSE 0

\* The messages that start file f.
StartsOf(f) == [kind : {"start"}, file : {f}, n : Nat]

\* A host in use: m_devMap has it, and nobody is deleting it.
InUse(h) == phase[h] = "live" /\ h # closing

\* m_devMap has the host whose connection lives, until DelDevice is through with it.
CurrentIsTheLiveHost ==
    /\ current # NoHost => phase[current] \in {"live", "broken"}
    /\ closing # NoHost => closing = current
    /\ \A h \in Hosts :
           /\ phase[h] \in {"live", "broken"} => current = h
           /\ phase[h] = "broken" => closing = h

\* What the worker does, it does on a host.
WorkerIsOnAHost == worker.at \notin {"idle", "away"} => worker.host \in Hosts

\* Nobody has used a host that is not there yet.
Unused(h) ==
    phase[h] = "new" =>
        /\ queue[h] = <<>> /\ writing[h] = <<>> /\ sessions[h] = <<>>
        /\ pushed[h] = 0 /\ got[h] = 0 /\ starts[h] = 0 /\ stops[h] = 0
        /\ \A f \in Files : begun[h][f] = "no"
        /\ worker.host # h /\ sending # h /\ calling.host # h

NewHostsAreUnused == \A h \in Hosts : Unused(h)

\* The host that is about to be called was there; SentData for an earlier call is done.
CallFits ==
    calling.at # "idle" =>
        /\ calling.host \in Hosts /\ calling.file \in Files
        /\ sending = NoHost

(***************************************************************************)
(* What holds of the stream to a device: q waits, w is being written, b is *)
(* m_writeBuff, spin and send are 1 while the worker waits and while       *)
(* SentData is due, p messages were put in, g is the last the device got,  *)
(* s uploads were started and t stopped.                                   *)
(***************************************************************************)
StreamOK(q, w, b, spin, send, p, g, s, t) ==
    /\ Len(w) + spin <= 1
    /\ Len(w) + Len(q) = p - g
    /\ \A i \in 1 .. Len(w) : w[i].n = g + i /\ w[i] = b /\ w[i] # Nothing
    /\ \A i \in 1 .. Len(q) : q[i].n = g + Len(w) + i
    /\ Len(w) + spin + send - Count(q, Terminator) = s - t
    /\ send = 1 => Len(w) + spin > 0 \/ q # <<>>
    /\ send = 1 /\ q # <<>> => q[Len(q)] \notin Terminator

StreamOf(h) == StreamOK(queue[h], writing[h], writeBuff[h], Num(Spins(h)), Num(sending = h),
                        pushed[h], got[h], starts[h], stops[h])

StreamsAreWhole == \A h \in Hosts \ damaged : InUse(h) => StreamOf(h)

\* The device has answered for f and the session is yet to be erased.
Answered(h, f) == worker.at = "result" /\ worker.host = h /\ worker.file = f

(***************************************************************************)
(* The count behind EveryUploadIsSettled: q and w as above, ss the         *)
(* sessions, bg and an are 1 if the device has begun f and if the worker   *)
(* is about to erase a session of it.                                      *)
(***************************************************************************)
CoverOK(q, w, ss, bg, an, f) ==
    Count(q, StartsOf(f)) + Count(w, StartsOf(f)) + bg + an <= Count(ss, {f})

Covered(h, f) == CoverOK(queue[h], writing[h], sessions[h], Num(begun[h][f] # "no"),
                         Num(Answered(h, f)), f)

SessionsCoverStarts ==
    damaged = {} => \A h \in Hosts, f \in Files : phase[h] = "live" => Covered(h, f)

OpenFilesHaveSessions ==
    damaged = {} =>
        \A f \in open \ (lost \cup late) : \E h \in Hosts :
            phase[h] = "live" /\ Num(Answered(h, f)) < Count(sessions[h], {f})

IInv ==
    /\ TypeOK
    /\ CurrentIsTheLiveHost
    /\ WorkerIsOnAHost
    /\ CallFits
    /\ NewHostsAreUnused
    /\ StreamsAreWhole
    /\ SessionsCoverStarts
    /\ OpenFilesHaveSessions

-------------------------------------------------------------------------------

(***************************************************************************)
(* Counting the members of a sequence.                                     *)
(***************************************************************************)

LEMMA CountType ==
    ASSUME NEW T, NEW s \in Seq(T), NEW S
    PROVE  /\ IsFiniteSet({i \in DOMAIN s : s[i] \in S})
           /\ Count(s, S) \in Nat
<1> DEFINE I == {i \in DOMAIN s : s[i] \in S}
<1>1. DOMAIN s = 1 .. Len(s) /\ Len(s) \in Nat
  OBVIOUS
<1>2. IsFiniteSet(1 .. Len(s))
  BY <1>1, FS_Interval
<1>3. I \in SUBSET (1 .. Len(s))
  BY <1>1
<1> HIDE DEF I
<1>4. IsFiniteSet(I)
  BY <1>2, <1>3, FS_Subset
<1>5. Cardinality(I) \in Nat
  BY <1>4, FS_CardinalityType
<1> QED
  BY <1>4, <1>5 DEF Count, I

LEMMA CountEmpty ==
    ASSUME NEW S
    PROVE  Count(<<>>, S) = 0
<1>1. {i \in DOMAIN <<>> : <<>>[i] \in S} = {}
  OBVIOUS
<1> QED
  BY <1>1, FS_EmptySet DEF Count

LEMMA CountAppend ==
    ASSUME NEW T, NEW s \in Seq(T), NEW e \in T, NEW S
    PROVE  Count(Append(s, e), S) = Count(s, S) + Num(e \in S)
<1> DEFINE I == {i \in DOMAIN s : s[i] \in S}
           r == Append(s, e)
           J == {i \in DOMAIN r : r[i] \in S}
           n == Len(s) + 1
<1>1. /\ r \in Seq(T)
      /\ Len(r) = n
      /\ \A i \in 1 .. Len(s) : r[i] = s[i]
      /\ r[n] = e
      /\ Len(s) \in Nat
  OBVIOUS
<1>2. DOMAIN r = 1 .. n /\ DOMAIN s = 1 .. Len(s) /\ n \notin I
  BY <1>1
<1>3. IsFiniteSet(I) /\ Cardinality(I) \in Nat
  BY CountType DEF Count
<1>4. CASE e \in S
  <2>1. J = I \cup {n}
    <3> HIDE DEF r
    <3> QED
      BY <1>1, <1>2, <1>4
  <2> HIDE DEF I, J, n
  <2>2. Cardinality(J) = Cardinality(I) + 1
    BY <2>1, <1>2, <1>3, FS_AddElement
  <2> QED
    BY <1>4, <2>2 DEF Count, Num, I, J
<1>5. CASE e \notin S
  <2>1. J = I
    <3> HIDE DEF r
    <3> QED
      BY <1>1, <1>2, <1>5
  <2>2. Count(s, S) = Cardinality(I) /\ Count(r, S) = Cardinality(J)
    BY DEF Count
  <2> HIDE DEF I, J, n, r
  <2>3. Num(e \in S) = 0
    BY <1>5 DEF Num
  <2>4. Count(r, S) = Count(s, S) + Num(e \in S)
    BY <1>3, <2>1, <2>2, <2>3
  <2> QED
    BY <2>4 DEF r
<1> QED
  BY <1>4, <1>5

LEMMA CountTail ==
    ASSUME NEW T, NEW s \in Seq(T), s # <<>>, NEW S
    PROVE  Count(s, S) = Count(Tail(s), S) + Num(Head(s) \in S)
<1> DEFINE I == {i \in DOMAIN s : s[i] \in S}
           r == Tail(s)
           J == {i \in DOMAIN r : r[i] \in S}
           K == I \ {1}
<1>1. /\ r \in Seq(T)
      /\ Len(r) = Len(s) - 1
      /\ \A i \in 1 .. (Len(s) - 1) : r[i] = s[i + 1]
      /\ Head(s) = s[1]
      /\ Len(s) \in Nat \ {0}
  OBVIOUS
<1>2. DOMAIN r = 1 .. (Len(s) - 1) /\ DOMAIN s = 1 .. Len(s)
  BY <1>1
<1>3. IsFiniteSet(I) /\ IsFiniteSet(J)
  <2>1. IsFiniteSet(I)
    BY CountType
  <2>2. IsFiniteSet(J)
    <3> HIDE DEF r
    <3> QED
      BY <1>1, CountType
  <2> QED
    BY <2>1, <2>2
<1>4. Cardinality(K) = Cardinality(J)
  <2> DEFINE f == [j \in J |-> j + 1]
  <2> HIDE DEF r
  <2>1. \A j \in J : j \in 1 .. (Len(s) - 1) /\ j + 1 \in K
    BY <1>1, <1>2
  <2>2. \A k \in K : k - 1 \in J /\ (k - 1) + 1 = k
    <3> SUFFICES ASSUME NEW k \in K PROVE k - 1 \in J /\ (k - 1) + 1 = k
      OBVIOUS
    <3>1. k \in 2 .. Len(s) /\ s[k] \in S
      BY <1>1, <1>2
    <3>2. k - 1 \in 1 .. (Len(s) - 1) /\ (k - 1) + 1 = k
      BY <3>1, <1>1
    <3>3. r[k - 1] = s[k]
      BY <3>2, <1>1
    <3> QED
      BY <3>1, <3>2, <3>3, <1>2
  <2> HIDE DEF J, K
  <2>3. f \in [J -> K]
    BY <2>1
  <2>4. \A x, y \in J : f[x] = f[y] => x = y
    BY <2>1
  <2>5. \A k \in K : \E j \in J : f[j] = k
    BY <2>2
  <2>6. f \in Bijection(J, K)
    <3> HIDE DEF f
    <3> QED
      BY <2>3, <2>4, <2>5 DEF Bijection, Injection, Surjection, IsInjective
  <2>7. ExistsBijection(J, K)
    BY <2>6 DEF ExistsBijection
  <2> QED
    BY <1>3, <2>7, FS_Bijection
<1>5. Cardinality(K) = IF 1 \in I THEN Cardinality(I) - 1 ELSE Cardinality(I)
  <2> HIDE DEF I
  <2> QED
    BY <1>3, FS_RemoveElement
<1>6. 1 \in I <=> Head(s) \in S
  BY <1>1, <1>2
<1>7. Cardinality(I) \in Nat /\ Cardinality(J) \in Nat
  <2> HIDE DEF I, J
  <2> QED
    BY <1>3, FS_CardinalityType
<1>8. Count(s, S) = Cardinality(I) /\ Count(Tail(s), S) = Cardinality(J)
  BY DEF Count
<1> HIDE DEF I, J, K, r
<1> QED
  BY <1>4, <1>5, <1>6, <1>7, <1>8 DEF Num

\* What is counted is there.
LEMMA CountPositive ==
    ASSUME NEW T, NEW s \in Seq(T), NEW e, Count(s, {e}) > 0
    PROVE  e \in ToSet(s)
<1> DEFINE I == {i \in DOMAIN s : s[i] \in {e}}
<1>1. I # {}
  <2>1. Cardinality(I) > 0
    BY DEF Count
  <2> HIDE DEF I
  <2>2. SUFFICES ASSUME I = {} PROVE FALSE
    OBVIOUS
  <2>3. Cardinality(I) = 0
    BY <2>2, FS_EmptySet
  <2> QED
    BY <2>1, <2>3
<1> QED
  BY <1>1 DEF ToSet

\* A non-empty set of natural numbers has a least element.
LEMMA LeastExists ==
    ASSUME NEW I, I \subseteq Nat, I # {}
    PROVE  \E x \in I : \A y \in I : x <= y
<1> DEFINE R == OpToRel(<, Nat)
<1>1. IsWellFoundedOn(R, Nat)
  BY NatLessThanWellFounded
<1>2. \E x \in I : \A y \in I : ~ (<<y, x>> \in R)
  <2> HIDE DEF R
  <2> QED
    BY <1>1, WFMin
<1>3. \A x, y \in Nat : ~ (<<y, x>> \in R) => x <= y
  BY DEF OpToRel
<1> QED
  BY <1>2, <1>3

\* Erasing the first session of a file (OnMsgInfo) takes one element out, or none.
LEMMA RemoveFirstShape ==
    ASSUME NEW T, NEW s \in Seq(T), NEW e
    PROVE  \/ RemoveFirst(s, e) = s
           \/ \E at \in 1 .. Len(s) :
                  /\ s[at] = e
                  /\ RemoveFirst(s, e) \in Seq(T)
                  /\ Len(RemoveFirst(s, e)) = Len(s) - 1
                  /\ \A i \in 1 .. (Len(s) - 1) :
                         RemoveFirst(s, e)[i] = IF i < at THEN s[i] ELSE s[i + 1]
<1> DEFINE I == {i \in 1 .. Len(s) : s[i] = e}
           at == Min(I)
<1>1. CASE I = {}
  <2>1. RemoveFirst(s, e) = s
    BY <1>1 DEF RemoveFirst
  <2> QED
    BY <2>1
<1>2. CASE I # {}
  <2>1. at \in I
    <3>1. \E x \in I : \A y \in I : x <= y
      <4>1. I \subseteq Nat
        OBVIOUS
      <4> HIDE DEF I
      <4> QED
        BY <1>2, <4>1, LeastExists
    <3> QED
      BY <3>1 DEF Min
  <2>2. RemoveFirst(s, e) = SubSeq(s, 1, at - 1) \o SubSeq(s, at + 1, Len(s))
    BY <1>2 DEF RemoveFirst, RemoveAt, SelectInSeq
  <2>3. at \in 1 .. Len(s) /\ s[at] = e /\ Len(s) \in Nat
    BY <2>1
  <2> DEFINE front == SubSeq(s, 1, at - 1)
             back  == SubSeq(s, at + 1, Len(s))
             rest  == front \o back
  <2> HIDE DEF at, I
  <2>4. /\ front \in Seq(T)
        /\ Len(front) = at - 1
        /\ \A i \in 1 .. (at - 1) : front[i] = s[i]
    BY <2>3
  <2>5. /\ back \in Seq(T)
        /\ Len(back) = Len(s) - at
        /\ \A i \in 1 .. (Len(s) - at) : back[i] = s[at + i]
    BY <2>3
  <2>6. RemoveFirst(s, e) = rest
    BY <2>2
  <2> HIDE DEF front, back
  <2>7. /\ rest \in Seq(T)
        /\ Len(rest) = Len(front) + Len(back)
        /\ \A i \in 1 .. (Len(front) + Len(back)) :
               rest[i] = IF i <= Len(front) THEN front[i] ELSE back[i - Len(front)]
    BY <2>4, <2>5, ConcatProperties, Zenon
  <2> HIDE DEF rest
  <2>8. Len(front) + Len(back) = Len(s) - 1
    BY <2>3, <2>4, <2>5
  <2>9. ASSUME NEW i \in 1 .. (Len(s) - 1)
        PROVE  rest[i] = IF i < at THEN s[i] ELSE s[i + 1]
    <3>1. rest[i] = IF i <= Len(front) THEN front[i] ELSE back[i - Len(front)]
      BY <2>7, <2>8
    <3>2. CASE i < at
      BY <3>1, <3>2, <2>3, <2>4
    <3>3. CASE ~ (i < at)
      <4>1. /\ ~ (i <= Len(front))
            /\ i - Len(front) \in 1 .. (Len(s) - at)
            /\ at + (i - Len(front)) = i + 1
        BY <3>3, <2>3, <2>4
      <4>2. back[i - Len(front)] = s[at + (i - Len(front))]
        BY <4>1, <2>5
      <4> QED
        BY <3>1, <3>3, <4>1, <4>2
    <3> QED
      BY <3>2, <3>3
  <2> QED
    BY <2>3, <2>6, <2>7, <2>8, <2>9
<1> QED
  BY <1>1, <1>2

\* The sequence r that s is without its place at has at most one element less to count.
LEMMA CountWithout ==
    ASSUME NEW T, NEW s \in Seq(T), NEW r \in Seq(T), NEW e, NEW d, NEW at \in 1 .. Len(s),
           s[at] = e, Len(r) = Len(s) - 1,
           \A i \in 1 .. (Len(s) - 1) : r[i] = IF i < at THEN s[i] ELSE s[i + 1]
    PROVE  Count(s, {d}) <= Count(r, {d}) + Num(d = e)
<1> DEFINE I == {i \in DOMAIN s : s[i] \in {d}}
           J == {i \in DOMAIN r : r[i] \in {d}}
<1>0. Count(s, {d}) \in Nat /\ IsFiniteSet(I)
  BY CountType
<1> DEFINE K == I \ {at}
           f == [k \in K |-> IF k < at THEN k ELSE k - 1]
<1>1. DOMAIN s = 1 .. Len(s) /\ DOMAIN r = 1 .. (Len(s) - 1) /\ Len(s) \in Nat /\ at \in Nat
  OBVIOUS
<1>2. \A k \in K : /\ k \in 1 .. Len(s) /\ k # at
                   /\ (IF k < at THEN k ELSE k - 1) \in J
  <2> SUFFICES ASSUME NEW k \in K
               PROVE  /\ k \in 1 .. Len(s) /\ k # at
                      /\ (IF k < at THEN k ELSE k - 1) \in J
    OBVIOUS
  <2>1. k \in 1 .. Len(s) /\ k # at /\ s[k] = d
    BY <1>1
  <2>2. CASE k < at
    <3>1. k \in 1 .. (Len(s) - 1)
      BY <2>1, <2>2, <1>1
    <3>2. r[k] = s[k]
      BY <3>1, <2>2
    <3> QED
      BY <2>1, <2>2, <3>1, <3>2, <1>1
  <2>3. CASE ~ (k < at)
    <3>1. k - 1 \in 1 .. (Len(s) - 1) /\ ~ (k - 1 < at) /\ (k - 1) + 1 = k
      BY <2>1, <2>3, <1>1
    <3>2. r[k - 1] = s[k]
      BY <3>1
    <3> QED
      BY <2>1, <2>3, <3>1, <3>2, <1>1
  <2> QED
    BY <2>2, <2>3
<1>3. IsFiniteSet(J) /\ Cardinality(J) \in Nat
  BY CountType DEF Count
<1>4. /\ IsFiniteSet(K)
      /\ Cardinality(I) <= Cardinality(K) + Num(d = e)
      /\ Cardinality(K) \in Nat
  <2>1. at \in I => d = e
    OBVIOUS
  <2>2. Cardinality(I) \in Nat
    BY <1>0 DEF Count
  <2> HIDE DEF I
  <2>3. /\ IsFiniteSet(K)
        /\ Cardinality(K) = IF at \in I THEN Cardinality(I) - 1 ELSE Cardinality(I)
    BY <1>0, FS_RemoveElement
  <2>4. Cardinality(K) \in Nat
    <3> HIDE DEF K
    <3> QED
      BY <2>3, FS_CardinalityType
  <2> HIDE DEF K
  <2> QED
    BY <2>1, <2>2, <2>3, <2>4 DEF Num
<1> HIDE DEF I, J, K
<1>5. f \in [K -> J]
  BY <1>2
<1>6. \A x, y \in K : f[x] = f[y] => x = y
  BY <1>2, <1>1
<1>7. f \in Injection(K, J)
  <2> HIDE DEF f
  <2> QED
    BY <1>5, <1>6 DEF Injection, IsInjective
<1>8. Cardinality(K) <= Cardinality(J)
  BY <1>3, <1>7, FS_Injection
<1>9. Count(s, {d}) = Cardinality(I) /\ Count(r, {d}) = Cardinality(J)
  BY DEF Count, I, J
<1>10. Num(d = e) \in Nat /\ Cardinality(I) \in Nat
  <2>1. Num(d = e) \in Nat
    BY DEF Num
  <2> QED
    BY <2>1, <1>0, <1>9
<1> QED
  BY <1>3, <1>4, <1>8, <1>9, <1>10

\* It takes at most one e away, and nothing else.
LEMMA CountRemoveFirst ==
    ASSUME NEW T, NEW s \in Seq(T), NEW e, NEW d
    PROVE  /\ RemoveFirst(s, e) \in Seq(T)
           /\ Count(s, {d}) <= Count(RemoveFirst(s, e), {d}) + Num(d = e)
<1>1. CASE RemoveFirst(s, e) = s
  <2>1. Count(s, {d}) \in Nat
    BY CountType
  <2>2. Num(d = e) \in Nat
    BY DEF Num
  <2> QED
    BY <1>1, <2>1, <2>2
<1>2. CASE RemoveFirst(s, e) # s
  <2>1. PICK at \in 1 .. Len(s) :
            /\ s[at] = e
            /\ RemoveFirst(s, e) \in Seq(T)
            /\ Len(RemoveFirst(s, e)) = Len(s) - 1
            /\ \A i \in 1 .. (Len(s) - 1) :
                   RemoveFirst(s, e)[i] = IF i < at THEN s[i] ELSE s[i + 1]
    BY <1>2, RemoveFirstShape
  <2> QED
    BY <2>1, CountWithout
<1> QED
  BY <1>1, <1>2

-------------------------------------------------------------------------------

(***************************************************************************)
(* The stream to a device, message by message.                             *)
(***************************************************************************)

LEMMA MessageFacts ==
    /\ Nothing.n = 0 /\ Nothing.kind = "none"
    /\ \A m \in Message : /\ m \notin Terminator
                          /\ m # Nothing
                          /\ m.kind \in {"start", "data", "stop"}
                          /\ m.file \in Files
                          /\ m.n \in Nat
    /\ \A m \in Terminator : m.kind = "end" /\ m.n \in Nat
    /\ \A m \in Messages : /\ m.n \in Nat
                           /\ m.kind = "end" <=> m \in Terminator
                           /\ m \notin Terminator => m \in Message
  BY DEF Message, Terminator, Nothing, Messages

\* What a queue is after its head has been taken.
LEMMA TailFacts ==
    ASSUME NEW T, NEW s \in Seq(T), s # <<>>
    PROVE  /\ Len(s) \in Nat \ {0}
           /\ Head(s) \in T
           /\ Head(s) = s[1]
           /\ Tail(s) \in Seq(T)
           /\ Len(Tail(s)) = Len(s) - 1
           /\ \A i \in 1 .. (Len(s) - 1) : Tail(s)[i] = s[i + 1]
  OBVIOUS

LEMMA LenIsNat == ASSUME NEW T, NEW s \in Seq(T) PROVE Len(s) \in Nat
  OBVIOUS

LEMMA AppendFacts ==
    ASSUME NEW T, NEW s \in Seq(T), NEW e \in T
    PROVE  /\ Len(s) \in Nat
           /\ Append(s, e) \in Seq(T)
           /\ Append(s, e) # <<>>
           /\ Len(Append(s, e)) = Len(s) + 1
           /\ \A i \in 1 .. Len(s) : Append(s, e)[i] = s[i]
           /\ Append(s, e)[Len(s) + 1] = e
  OBVIOUS

\* The start of an upload (u = 1) and a chunk (u = 0) join the queue.
LEMMA StreamPushed ==
    ASSUME NEW q \in Seq(Messages), NEW w \in Seq(Message \cup {Nothing}), NEW b,
           NEW spin \in {0, 1}, NEW p \in Nat, NEW g \in Nat, NEW s \in Nat, NEW t \in Nat,
           NEW u \in {0, 1}, NEW m \in Message, m.n = p + 1,
           StreamOK(q, w, b, spin, 0, p, g, s, t)
    PROVE  StreamOK(Append(q, m), w, b, spin, u, p + 1, g, s + u, t)
<1> DEFINE r == Append(q, m)
<1>1. m \in Messages /\ m \notin Terminator
  BY MessageFacts DEF Messages
<1>2. /\ Len(q) \in Nat /\ r # <<>> /\ Len(r) = Len(q) + 1
      /\ \A i \in 1 .. Len(q) : r[i] = q[i]
      /\ r[Len(q) + 1] = m
  BY <1>1, AppendFacts
<1>3. Count(r, Terminator) = Count(q, Terminator)
  <2>1. Count(r, Terminator) = Count(q, Terminator) + Num(m \in Terminator)
    BY <1>1, CountAppend
  <2>2. Num(m \in Terminator) = 0 /\ Count(q, Terminator) \in Nat
    BY <1>1, CountType DEF Num
  <2> QED
    BY <2>1, <2>2
<1>4. Len(w) \in Nat /\ Count(q, Terminator) \in Nat
  BY LenIsNat, CountType
<1> HIDE DEF r
<1>5. \A i \in 1 .. Len(r) : r[i].n = g + Len(w) + i
  <2> SUFFICES ASSUME NEW i \in 1 .. Len(r) PROVE r[i].n = g + Len(w) + i
    OBVIOUS
  <2>1. CASE i \in 1 .. Len(q)
    BY <2>1, <1>2 DEF StreamOK
  <2>2. CASE i = Len(q) + 1
    <3>1. Len(w) + Len(q) = p - g
      BY DEF StreamOK
    <3> QED
      BY <2>2, <3>1, <1>2, <1>4
  <2> QED
    BY <2>1, <2>2, <1>2
<1>6. Len(w) + Len(r) = (p + 1) - g
  BY <1>2, <1>4 DEF StreamOK
<1>7. Len(w) + spin + u - Count(r, Terminator) = (s + u) - t
  BY <1>3, <1>4 DEF StreamOK
<1>8. r[Len(r)] \notin Terminator
  BY <1>1, <1>2
<1>9. StreamOK(r, w, b, spin, u, p + 1, g, s + u, t)
  BY <1>2, <1>5, <1>6, <1>7, <1>8 DEF StreamOK
<1> QED
  BY <1>9 DEF r

\* The stop of an upload and the terminator join the queue.
LEMMA StreamStopped ==
    ASSUME NEW q \in Seq(Messages), NEW w \in Seq(Message \cup {Nothing}), NEW b,
           NEW spin \in {0, 1}, NEW p \in Nat, NEW g \in Nat, NEW s \in Nat, NEW t \in Nat,
           NEW m \in Message, m.n = p + 1, NEW e \in Terminator, e.n = p + 2,
           StreamOK(q, w, b, spin, 0, p, g, s, t)
    PROVE  StreamOK(Append(Append(q, m), e), w, b, spin, 0, p + 2, g, s, t + 1)
<1> DEFINE r == Append(q, m)
           z == Append(r, e)
<1>1. StreamOK(r, w, b, spin, 0, p + 1, g, s + 0, t)
  BY StreamPushed
<1>2. r \in Seq(Messages) /\ e \in Messages
  <2>1. m \in Messages /\ e \in Messages
    BY DEF Messages
  <2> QED
    BY <2>1
<1> HIDE DEF r
<1>3. /\ Len(r) \in Nat /\ z # <<>> /\ Len(z) = Len(r) + 1
      /\ \A i \in 1 .. Len(r) : z[i] = r[i]
      /\ z[Len(r) + 1] = e
  BY <1>2, AppendFacts
<1>4. Count(z, Terminator) = Count(r, Terminator) + 1
  <2>1. Count(z, Terminator) = Count(r, Terminator) + Num(e \in Terminator)
    BY <1>2, CountAppend
  <2> QED
    BY <2>1 DEF Num
<1>5. Len(w) \in Nat /\ Count(r, Terminator) \in Nat
  BY <1>2, LenIsNat, CountType
<1> HIDE DEF z
<1>6. \A i \in 1 .. Len(z) : z[i].n = g + Len(w) + i
  <2> SUFFICES ASSUME NEW i \in 1 .. Len(z) PROVE z[i].n = g + Len(w) + i
    OBVIOUS
  <2>1. CASE i \in 1 .. Len(r)
    BY <2>1, <1>1, <1>3 DEF StreamOK
  <2>2. CASE i = Len(r) + 1
    <3>1. Len(w) + Len(r) = (p + 1) - g
      BY <1>1 DEF StreamOK
    <3> QED
      BY <2>2, <3>1, <1>3, <1>5
  <2>3. i \in 1 .. Len(r) \/ i = Len(r) + 1
    <3> DEFINE k == Len(r)
               j == Len(z)
    <3>1. k \in Nat /\ j = k + 1 /\ i \in 1 .. j
      BY <1>3
    <3> HIDE DEF k, j
    <3>2. i \in 1 .. k \/ i = k + 1
      BY <3>1
    <3> QED
      BY <3>2 DEF k
  <2> QED
    BY <2>1, <2>2, <2>3
<1>7. Len(w) + Len(z) = (p + 2) - g
  BY <1>1, <1>3, <1>5 DEF StreamOK
<1>8. Len(w) + spin + 0 - Count(z, Terminator) = s - (t + 1)
  <2> DEFINE k == Len(w)
             c == Count(r, Terminator)
             d == Count(z, Terminator)
  <2>1. k + spin + 0 - c = (s + 0) - t
    BY <1>1 DEF StreamOK
  <2>2. k \in Nat /\ c \in Nat /\ d = c + 1
    BY <1>4, <1>5
  <2> HIDE DEF k, c, d
  <2>3. k + spin + 0 - d = s - (t + 1)
    BY <2>1, <2>2
  <2> QED
    BY <2>3 DEF k, d
<1>9. StreamOK(z, w, b, spin, 0, p + 2, g, s, t + 1)
  BY <1>1, <1>6, <1>7, <1>8 DEF StreamOK
<1> QED
  BY <1>9 DEF z, r

\* A loop that waits takes the head of the queue: it ends, or the message is written.
LEMMA StreamTurn ==
    ASSUME NEW q \in Seq(Messages), NEW w \in Seq(Message \cup {Nothing}), NEW b,
           NEW send \in {0, 1},
           NEW p \in Nat, NEW g \in Nat, NEW s \in Nat, NEW t \in Nat,
           StreamOK(q, w, b, 1, send, p, g, s, t), q # <<>>, Len(w) = 0
    PROVE  /\ Head(q) \in Terminator => StreamOK(Tail(q), w, b, 0, send, p, Head(q).n, s, t)
           /\ Head(q) \notin Terminator =>
                  StreamOK(Tail(q), Append(w, Head(q)), Head(q), 0, send, p, g, s, t)
<1> DEFINE r == Tail(q)
           m == Head(q)
<1>1. /\ Len(q) \in Nat \ {0} /\ m \in Messages /\ m = q[1]
      /\ r \in Seq(Messages) /\ Len(r) = Len(q) - 1
      /\ \A i \in 1 .. (Len(q) - 1) : r[i] = q[i + 1]
  BY TailFacts
<1>2. Count(q, Terminator) = Count(r, Terminator) + Num(m \in Terminator)
  BY CountTail
<1> HIDE DEF r, m
<1>3. Count(q, Terminator) \in Nat /\ Count(r, Terminator) \in Nat
  BY <1>1, CountType
<1>4. m.n = g + 1 /\ m.n \in Nat
  <2>1. 1 \in 1 .. Len(q) /\ g + 0 + 1 = g + 1
    BY <1>1
  <2> QED
    BY <1>1, <2>1 DEF StreamOK
<1>5. \A i \in 1 .. Len(r) : r[i].n = (g + 1) + i
  <2> SUFFICES ASSUME NEW i \in 1 .. Len(r) PROVE r[i].n = (g + 1) + i
    OBVIOUS
  <2>1. i + 1 \in 1 .. Len(q) /\ i \in 1 .. (Len(q) - 1)
    BY <1>1
  <2>2. r[i].n = g + 0 + (i + 1)
    BY <2>1, <1>1 DEF StreamOK
  <2> QED
    BY <2>1, <2>2
<1>6. send = 1 /\ r # <<>> => r[Len(r)] \notin Terminator
  <2> SUFFICES ASSUME send = 1, r # <<>> PROVE r[Len(r)] \notin Terminator
    OBVIOUS
  <2>1. send = 1 /\ Len(r) # 0
    BY <1>1
  <2>2. Len(r) \in 1 .. (Len(q) - 1) /\ Len(r) + 1 = Len(q)
    BY <2>1, <1>1
  <2>3. r[Len(r)] = q[Len(q)]
    BY <2>2, <1>1
  <2> QED
    BY <2>1, <2>3 DEF StreamOK
<1>7. CASE m \in Terminator
  <2>1. Num(m \in Terminator) = 1
    BY <1>7 DEF Num
  <2>2. send = 1 => r # <<>>
    <3> SUFFICES ASSUME send = 1, r = <<>> PROVE FALSE
      OBVIOUS
    <3>1. Len(q) = 1 /\ send = 1
      BY <1>1
    <3> QED
      BY <3>1, <1>1, <1>7 DEF StreamOK
  <2>3. Len(w) + 0 + send - Count(r, Terminator) = s - t
    BY <2>1, <1>2, <1>3 DEF StreamOK
  <2>4. Len(w) + Len(r) = p - (g + 1)
    BY <1>1 DEF StreamOK
  <2>5. \A i \in 1 .. Len(r) : r[i].n = (g + 1) + Len(w) + i
    BY <1>5, <1>1
  <2>6. StreamOK(r, w, b, 0, send, p, g + 1, s, t)
    BY <1>6, <2>2, <2>3, <2>4, <2>5 DEF StreamOK
  <2> QED
    BY <2>6, <1>4, <1>7 DEF r, m
<1>8. CASE m \notin Terminator
  <2> DEFINE v == Append(w, m)
  <2>1. m \in Message /\ m # Nothing
    BY <1>1, <1>8, MessageFacts
  <2>2. Len(v) = 1 /\ v[1] = m
    BY <2>1
  <2> HIDE DEF v
  <2>3. Num(m \in Terminator) = 0
    BY <1>8 DEF Num
  <2>4. Len(v) + 0 + send - Count(r, Terminator) = s - t
    BY <2>2, <2>3, <1>2, <1>3 DEF StreamOK
  <2>5. Len(v) + Len(r) = p - g
    BY <2>2, <1>1 DEF StreamOK
  <2>6. \A i \in 1 .. Len(v) : v[i].n = g + i /\ v[i] = m /\ v[i] # Nothing
    BY <2>1, <2>2, <1>4
  <2>7. \A i \in 1 .. Len(r) : r[i].n = g + Len(v) + i
    BY <2>2, <1>5, <1>1
  <2>8. StreamOK(r, v, m, 0, send, p, g, s, t)
    BY <1>6, <2>2, <2>4, <2>5, <2>6, <2>7 DEF StreamOK
  <2> QED
    BY <2>8, <1>8 DEF r, m, v
<1> QED
  BY <1>7, <1>8

\* SentData's loop starts like one that waits.
LEMMA StreamSent ==
    ASSUME NEW q \in Seq(Messages), NEW w \in Seq(Message \cup {Nothing}), NEW b,
           NEW p \in Nat, NEW g \in Nat, NEW s \in Nat, NEW t \in Nat,
           StreamOK(q, w, b, 0, 1, p, g, s, t), q # <<>>, Len(w) = 0
    PROVE  /\ Head(q) \in Terminator => StreamOK(Tail(q), w, b, 0, 0, p, Head(q).n, s, t)
           /\ Head(q) \notin Terminator =>
                  StreamOK(Tail(q), Append(w, Head(q)), Head(q), 0, 0, p, g, s, t)
<1>1. StreamOK(q, w, b, 1, 0, p, g, s, t)
  <2> DEFINE n == Len(w)
  <2>0. n = 0 /\ Count(q, Terminator) \in Nat
    BY CountType
  <2>1. n + 1 <= 1
    <3> HIDE DEF n
    <3> QED
      BY <2>0
  <2>2. n + 1 + 0 - Count(q, Terminator) = s - t
    <3>1. n + 0 + 1 - Count(q, Terminator) = s - t
      BY DEF StreamOK
    <3> HIDE DEF n
    <3> QED
      BY <2>0, <3>1
  <2> QED
    BY <2>1, <2>2 DEF StreamOK
<1> QED
  BY <1>1, StreamTurn

\* Under this name the emptiness of a sequence stays closed to the provers.
NotEmpty(w) == w # <<>>

\* What the device has been given, and what is left, when the write w of b completes.
WrittenOK(q, w, b, send, p, g, s, t) ==
    /\ Head(w) = b /\ b # Nothing /\ b.n = g + 1
    /\ Len(Tail(w)) = 0
    /\ StreamOK(q, Tail(w), b, 1, send, p, g + 1, s, t)

\* The write completes: the device has the message, the worker looks for the next.
LEMMA StreamWritten ==
    ASSUME NEW q \in Seq(Messages), NEW w \in Seq(Message \cup {Nothing}), NEW b,
           NEW spin \in {0, 1}, NEW send \in {0, 1},
           NEW p \in Nat, NEW g \in Nat, NEW s \in Nat, NEW t \in Nat,
           StreamOK(q, w, b, spin, send, p, g, s, t), NotEmpty(w)
    PROVE  WrittenOK(q, w, b, send, p, g, s, t)
<1> DEFINE v == Tail(w)
<1>1. Len(w) = 1 /\ spin = 0
  <2>1. Len(w) \in Nat \ {0}
    BY TailFacts DEF NotEmpty
  <2>2. Len(w) + spin <= 1
    BY DEF StreamOK
  <2> DEFINE n == Len(w)
  <2>3. n \in Nat /\ n # 0 /\ n + spin <= 1
    BY <2>1, <2>2
  <2> HIDE DEF n
  <2>4. n = 1
    BY <2>3
  <2>5. spin = 0
    BY <2>3
  <2> QED
    BY <2>4, <2>5 DEF n
<1>2. Len(v) = 0 /\ Head(w) = w[1]
  BY <1>1, TailFacts
<1>3. Head(w) = b /\ b # Nothing /\ b.n = g + 1
  <2>1. 1 \in 1 .. Len(w)
    BY <1>1
  <2> QED
    BY <1>2, <2>1 DEF StreamOK
<1> HIDE DEF v
<1>4. Len(q) \in Nat /\ Count(q, Terminator) \in Nat
  BY LenIsNat, CountType
<1>5. Len(v) + 1 + send - Count(q, Terminator) = s - t
  BY <1>1, <1>2, <1>4 DEF StreamOK
<1>6. Len(v) + Len(q) = p - (g + 1)
  BY <1>1, <1>2, <1>4 DEF StreamOK
<1>7. \A i \in 1 .. Len(q) : q[i].n = (g + 1) + Len(v) + i
  BY <1>1, <1>2, <1>4 DEF StreamOK
<1>8. send = 1 /\ q # <<>> => q[Len(q)] \notin Terminator
  BY DEF StreamOK
<1>9. StreamOK(q, v, b, 1, send, p, g + 1, s, t)
  BY <1>2, <1>5, <1>6, <1>7, <1>8 DEF StreamOK
<1> QED
  BY <1>2, <1>3, <1>9 DEF v, WrittenOK

-------------------------------------------------------------------------------

(***************************************************************************)
(* The types.                                                              *)
(***************************************************************************)

\* A message takes the place of the oldest if there is no room (CRingBuffer).
LEMMA PutFacts ==
    ASSUME NEW q \in Seq(Messages), Len(q) <= Capacity, NEW m \in Messages
    PROVE  /\ Put(q, m) \in Seq(Messages)
           /\ Len(Put(q, m)) <= Capacity
           /\ Len(q) < Capacity => Put(q, m) = Append(q, m)
<1>0. Capacity \in Nat \ {0} /\ Len(q) \in Nat
  BY UploadAssumption
<1>1. CASE Len(q) < Capacity
  <2>1. Put(q, m) = Append(q, m)
    BY <1>1 DEF Put
  <2>2. Append(q, m) \in Seq(Messages) /\ Len(Append(q, m)) = Len(q) + 1
    OBVIOUS
  <2> QED
    BY <1>0, <1>1, <2>1, <2>2
<1>2. CASE ~ (Len(q) < Capacity)
  <2>1. Put(q, m) = Append(Tail(q), m)
    BY <1>2 DEF Put
  <2>2. q # <<>>
    BY <1>0, <1>2
  <2>3. Tail(q) \in Seq(Messages) /\ Len(Tail(q)) = Len(q) - 1
    BY <2>2, TailFacts
  <2>4. /\ Append(Tail(q), m) \in Seq(Messages)
        /\ Len(Append(Tail(q), m)) = Len(Tail(q)) + 1
    BY <2>3, AppendFacts
  <2>5. Len(Put(q, m)) = Len(q)
    BY <1>0, <2>1, <2>3, <2>4
  <2> QED
    BY <1>2, <2>1, <2>4, <2>5
<1> QED
  BY <1>1, <1>2

\* What is known of the buffer and the connection of a host.
LEMMA HostTypes ==
    ASSUME TypeOK, NEW h \in Hosts
    PROVE  /\ queue[h] \in Seq(Messages)
           /\ Len(queue[h]) <= Capacity
           /\ writing[h] \in Seq(Message \cup {Nothing})
           /\ writeBuff[h] \in Message \cup {Nothing}
           /\ sessions[h] \in Seq(Files)
           /\ pushed[h] \in Nat /\ got[h] \in Nat /\ starts[h] \in Nat /\ stops[h] \in Nat
           /\ h # NoHost
  BY DEF TypeOK, Hosts, NoHost

LEMMA NotIdle ==
    /\ {Idle, Away} \subseteq [at : {"idle", "away", "spin", "result", "dead"},
                               host : Hosts \cup {NoHost}, file : Files \cup {NoFile}]
    /\ Idle \in [at : {"idle", "start", "chunk", "stop"},
                 host : Hosts \cup {NoHost}, file : Files \cup {NoFile}]
    /\ Idle.at = "idle" /\ Idle.host = NoHost
    /\ Away.at = "away" /\ Away.host = NoHost
    /\ \A h \in Hosts :
           [at |-> "spin", host |-> h, file |-> NoFile] \in
               [at : {"idle", "away", "spin", "result", "dead"}, host : Hosts \cup {NoHost},
                file : Files \cup {NoFile}]
  BY DEF Idle, Away

\* What the two workers are doing, while they go on with it.
LEMMA WorkersKept ==
    ASSUME TypeOK, UNCHANGED <<worker, clientVars>>
    PROVE  /\ worker' \in [at : {"idle", "away", "spin", "result", "dead"},
                           host : Hosts \cup {NoHost}, file : Files \cup {NoFile}]
           /\ calling' \in [at : {"idle", "start", "chunk", "stop"},
                            host : Hosts \cup {NoHost}, file : Files \cup {NoFile}]
           /\ calls' \in 0 .. MaxCalls
<1>1. worker' = worker /\ calling' = calling /\ calls' = calls
  BY DEF clientVars
<1> QED
  BY <1>1 DEF TypeOK

\* A step that changes only which host is where.
LEMMA HostStepType ==
    ASSUME TypeOK, UNCHANGED <<bufferVars, fileVars, historyVars, clientVars, worker, sending, begun>>,
           phase' \in [Hosts -> {"new", "live", "broken", "deleted"}], link' \in SUBSET Hosts,
           current' \in Hosts \cup {NoHost}, closing' \in Hosts \cup {NoHost}
    PROVE  TypeOK'
<1>1. UNCHANGED <<queue, writing, writeBuff, sessions, fileState, open, lost, late, faults, pushed, got,
                  starts, stops, damaged, sending, begun>>
  BY DEF bufferVars, fileVars, historyVars
<1>2. /\ worker' \in [at : {"idle", "away", "spin", "result", "dead"},
                      host : Hosts \cup {NoHost}, file : Files \cup {NoFile}]
      /\ calling' \in [at : {"idle", "start", "chunk", "stop"},
                       host : Hosts \cup {NoHost}, file : Files \cup {NoFile}]
      /\ calls' \in 0 .. MaxCalls
  BY WorkersKept
<1>3. /\ queue' \in [Hosts -> Seq(Messages)]
      /\ \A h \in Hosts : Len(queue'[h]) <= Capacity
      /\ writing' \in [Hosts -> Seq(Message \cup {Nothing})]
      /\ writeBuff' \in [Hosts -> Message \cup {Nothing}]
      /\ sessions' \in [Hosts -> Seq(Files)]
      /\ begun' \in [Hosts -> [Files -> {"no", "begun", "whole"}]]
  BY <1>1 DEF TypeOK
<1>4. /\ sending' \in Hosts \cup {NoHost}
      /\ faults' \in 0 .. MaxFaults
      /\ fileState' \in [Files -> {"none", "done", "failed"}]
      /\ open' \in SUBSET Files /\ lost' \in SUBSET Files /\ late' \in SUBSET Files
      /\ pushed' \in [Hosts -> Nat] /\ got' \in [Hosts -> Nat]
      /\ starts' \in [Hosts -> Nat] /\ stops' \in [Hosts -> Nat]
      /\ damaged' \in SUBSET Hosts
  BY <1>1 DEF TypeOK
<1> QED
  BY <1>2, <1>3, <1>4 DEF TypeOK

\* A new message.
LEMMA NewMessage ==
    ASSUME TypeOK, NEW h \in Hosts, NEW f \in Files, NEW kind \in {"start", "data", "stop"}
    PROVE  [kind |-> kind, file |-> f, n |-> pushed[h] + 1] \in Message
  BY HostTypes DEF Message

\* One more message in the buffer of a host.
LEMMA PushTypes ==
    ASSUME TypeOK, NEW h \in Hosts, NEW f \in Files, NEW kind \in {"start", "data", "stop"},
           Push(h, kind, f)
    PROVE  /\ queue' \in [Hosts -> Seq(Messages)]
           /\ \A k \in Hosts : Len(queue'[k]) <= Capacity
           /\ pushed' \in [Hosts -> Nat]
<1> DEFINE m == [kind |-> kind, file |-> f, n |-> pushed[h] + 1]
<1>1. m \in Messages
  BY NewMessage DEF Messages
<1>2. queue' = [queue EXCEPT ![h] = Put(queue[h], m)] /\ pushed' = [pushed EXCEPT ![h] = @ + 1]
  BY DEF Push
<1> HIDE DEF m
<1>3. Put(queue[h], m) \in Seq(Messages) /\ Len(Put(queue[h], m)) <= Capacity
  BY <1>1, HostTypes, PutFacts
<1>4. queue \in [Hosts -> Seq(Messages)] /\ \A k \in Hosts : Len(queue[k]) <= Capacity
  BY DEF TypeOK
<1>5. queue' \in [Hosts -> Seq(Messages)] /\ \A k \in Hosts : Len(queue'[k]) <= Capacity
  BY <1>2, <1>3, <1>4
<1>6. pushed' \in [Hosts -> Nat]
  <2>1. pushed \in [Hosts -> Nat]
    BY DEF TypeOK
  <2> QED
    BY <1>2, <2>1
<1> QED
  BY <1>5, <1>6

LEMMA GetDeviceObjType ==
    ASSUME TypeOK, NEW call \in {"start", "chunk", "stop"}, NEW f \in Files, GetDeviceObj(call, f)
    PROVE  TypeOK'
<1>1. /\ calls < MaxCalls /\ calls' = calls + 1
      /\ calling' = [at |-> call, host |-> current, file |-> f]
      /\ UNCHANGED <<hostVars, bufferVars, fileVars, historyVars, worker, sending, begun>>
  BY DEF GetDeviceObj
<1>2. calls' \in 0 .. MaxCalls
  BY <1>1, UploadAssumption DEF TypeOK
<1>3. calling' \in [at : {"idle", "start", "chunk", "stop"}, host : Hosts \cup {NoHost},
                    file : Files \cup {NoFile}]
  BY <1>1 DEF TypeOK
<1> QED
  BY <1>1, <1>2, <1>3 DEF TypeOK, hostVars, bufferVars, fileVars, historyVars

\* What the client worker calls, it calls on the host it had looked up.
LEMMA CallFacts ==
    ASSUME CallFits, NEW call \in {"start", "chunk", "stop"}, Call(call)
    PROVE  /\ calling.host \in Hosts /\ calling.file \in Files /\ sending = NoHost
           /\ calling' = Idle
           /\ calling' \in [at : {"idle", "start", "chunk", "stop"}, host : Hosts \cup {NoHost},
                            file : Files \cup {NoFile}]
           /\ CallFits'
  BY NotIdle DEF CallFits, Call

LEMMA OnStartUploadType ==
    ASSUME TypeOK, CallFits, OnStartUpload
    PROVE  TypeOK'
<1> DEFINE h == calling.host
           f == calling.file
<1>1. /\ h \in Hosts /\ f \in Files
      /\ calling' \in [at : {"idle", "start", "chunk", "stop"}, host : Hosts \cup {NoHost},
                       file : Files \cup {NoFile}]
  BY CallFacts DEF OnStartUpload
<1>2. /\ UNCHANGED <<hostVars, writing, writeBuff, fileState, faults, got, stops, worker, calls, begun>>
      /\ sending' = h
      /\ open' = open \cup {f}
      /\ lost' = lost \ {f}
      /\ late' \in {late \ {f}, late \cup {f}}
  BY DEF OnStartUpload
<1>3. open' \in SUBSET Files /\ lost' \in SUBSET Files /\ late' \in SUBSET Files
      /\ sending' \in Hosts \cup {NoHost}
  BY <1>1, <1>2 DEF TypeOK
<1>4. CASE phase[h] = "deleted"
  <2>1. UNCHANGED <<sessions, queue, pushed, starts, damaged>>
    BY <1>4 DEF OnStartUpload
  <2> HIDE DEF h, f
  <2> QED
    BY <1>1, <1>2, <1>3, <2>1 DEF TypeOK, hostVars
<1>5. CASE phase[h] # "deleted"
  <2>1. /\ AddSession(h, f)
        /\ MarkDamage(h, Overflows(h, 1))
        /\ Push(h, "start", f)
        /\ starts' = [starts EXCEPT ![h] = @ + 1]
    BY <1>5 DEF OnStartUpload
  <2> HIDE DEF h, f
  <2>2. sessions' \in [Hosts -> Seq(Files)]
    <3>1. Append(sessions[h], f) \in Seq(Files)
      BY <1>1, HostTypes
    <3> QED
      BY <1>1, <2>1, <3>1 DEF TypeOK, AddSession
  <2>3. /\ queue' \in [Hosts -> Seq(Messages)]
        /\ \A k \in Hosts : Len(queue'[k]) <= Capacity
        /\ pushed' \in [Hosts -> Nat]
    BY <1>1, <2>1, PushTypes
  <2>4. damaged' \in SUBSET Hosts
    BY <1>1, <2>1 DEF MarkDamage, TypeOK
  <2>5. starts' \in [Hosts -> Nat]
    <3>1. starts \in [Hosts -> Nat]
      BY DEF TypeOK
    <3> QED
      BY <1>1, <2>1, <3>1
  <2> QED
    BY <1>1, <1>2, <1>3, <2>2, <2>3, <2>4, <2>5 DEF TypeOK, hostVars
<1> QED
  BY <1>4, <1>5

LEMMA OnUploadingType ==
    ASSUME TypeOK, CallFits, OnUploading
    PROVE  TypeOK'
<1> DEFINE h == calling.host
<1>1. /\ h \in Hosts /\ calling.file \in Files
      /\ calling' \in [at : {"idle", "start", "chunk", "stop"}, host : Hosts \cup {NoHost},
                       file : Files \cup {NoFile}]
  BY CallFacts DEF OnUploading
<1>2. UNCHANGED <<hostVars, writing, writeBuff, fileVars, got, starts, stops, worker, sending, calls,
                  begun>>
  BY DEF OnUploading
<1>3. CASE phase[h] = "deleted"
  <2>1. UNCHANGED <<queue, pushed, damaged>>
    BY <1>3 DEF OnUploading
  <2> HIDE DEF h
  <2> QED
    BY <1>1, <1>2, <2>1 DEF TypeOK, hostVars, fileVars
<1>4. CASE phase[h] # "deleted"
  <2>1. MarkDamage(h, Overflows(h, 1)) /\ Push(h, "data", calling.file)
    BY <1>4 DEF OnUploading
  <2> HIDE DEF h
  <2>2. /\ queue' \in [Hosts -> Seq(Messages)]
        /\ \A k \in Hosts : Len(queue'[k]) <= Capacity
        /\ pushed' \in [Hosts -> Nat]
    BY <1>1, <2>1, PushTypes
  <2>3. damaged' \in SUBSET Hosts
    BY <1>1, <2>1 DEF MarkDamage, TypeOK
  <2> QED
    BY <1>1, <1>2, <2>2, <2>3 DEF TypeOK, hostVars, fileVars
<1> QED
  BY <1>3, <1>4

\* What a stop leaves in the buffer.
LEMMA PutStopFacts ==
    ASSUME NEW q \in Seq(Messages), Len(q) <= Capacity, NEW m \in Message
    PROVE  LET e == [kind |-> "end", file |-> NoFile, n |-> m.n + 1]
           IN  /\ e \in Terminator
               /\ PutStop(q, m) \in Seq(Messages)
               /\ Len(PutStop(q, m)) <= Capacity
               /\ Len(q) + 2 <= Capacity => PutStop(q, m) = Append(Append(q, m), e)
<1> DEFINE e == [kind |-> "end", file |-> NoFile, n |-> m.n + 1]
<1>1. e \in Terminator
  BY MessageFacts DEF Terminator
<1>2. e \in Messages /\ m \in Messages
  BY <1>1 DEF Messages
<1>3. PutStop(q, m) = Put(Put(q, m), e)
  BY DEF PutStop
<1> HIDE DEF e
<1>4. /\ Put(q, m) \in Seq(Messages) /\ Len(Put(q, m)) <= Capacity
      /\ Len(q) < Capacity => Put(q, m) = Append(q, m)
  BY <1>2, PutFacts
<1>5. /\ Put(Put(q, m), e) \in Seq(Messages) /\ Len(Put(Put(q, m), e)) <= Capacity
      /\ Len(Put(q, m)) < Capacity => Put(Put(q, m), e) = Append(Put(q, m), e)
  BY <1>2, <1>4, PutFacts
<1>6. ASSUME Len(q) + 2 <= Capacity PROVE PutStop(q, m) = Append(Append(q, m), e)
  <2>1. Len(q) \in Nat /\ Capacity \in Nat /\ Len(Append(q, m)) = Len(q) + 1
    BY <1>2, AppendFacts, UploadAssumption
  <2>2. Put(q, m) = Append(q, m)
    BY <1>4, <1>6, <2>1
  <2>3. Len(Append(q, m)) < Capacity
    BY <1>6, <2>1
  <2> QED
    BY <1>3, <1>5, <2>2, <2>3
<1> QED
  BY <1>1, <1>3, <1>5, <1>6 DEF e

LEMMA OnStopUploadType ==
    ASSUME TypeOK, CallFits, OnStopUpload
    PROVE  TypeOK'
<1> DEFINE h == calling.host
           m == [kind |-> "stop", file |-> calling.file, n |-> pushed[h] + 1]
<1>1. /\ h \in Hosts /\ calling.file \in Files
      /\ calling' \in [at : {"idle", "start", "chunk", "stop"}, host : Hosts \cup {NoHost},
                       file : Files \cup {NoFile}]
  BY CallFacts DEF OnStopUpload
<1>2. UNCHANGED <<hostVars, writing, writeBuff, fileVars, got, starts, worker, sending, calls, begun>>
  BY DEF OnStopUpload
<1>3. CASE phase[h] = "deleted"
  <2>1. UNCHANGED <<queue, pushed, stops, damaged>>
    BY <1>3 DEF OnStopUpload
  <2> HIDE DEF h
  <2> QED
    BY <1>1, <1>2, <2>1 DEF TypeOK, hostVars, fileVars
<1>4. CASE phase[h] # "deleted"
  <2>1. /\ MarkDamage(h, Overflows(h, 2))
        /\ queue' = [queue EXCEPT ![h] = PutStop(queue[h], m)]
        /\ pushed' = [pushed EXCEPT ![h] = @ + 2]
        /\ stops' = [stops EXCEPT ![h] = @ + 1]
    BY <1>4 DEF OnStopUpload
  <2>3. m \in Message
    BY <1>1, NewMessage
  <2> HIDE DEF m, h
  <2>4. PutStop(queue[h], m) \in Seq(Messages) /\ Len(PutStop(queue[h], m)) <= Capacity
    BY <1>1, <2>3, HostTypes, PutStopFacts
  <2>5. queue \in [Hosts -> Seq(Messages)] /\ \A k \in Hosts : Len(queue[k]) <= Capacity
    BY DEF TypeOK
  <2>6. queue' \in [Hosts -> Seq(Messages)] /\ \A k \in Hosts : Len(queue'[k]) <= Capacity
    BY <1>1, <2>1, <2>4, <2>5
  <2>7. pushed' \in [Hosts -> Nat] /\ stops' \in [Hosts -> Nat]
    <3>1. pushed \in [Hosts -> Nat] /\ stops \in [Hosts -> Nat]
      BY DEF TypeOK
    <3> QED
      BY <1>1, <2>1, <3>1
  <2>8. damaged' \in SUBSET Hosts
    BY <1>1, <2>1 DEF MarkDamage, TypeOK
  <2> QED
    BY <1>1, <1>2, <2>6, <2>7, <2>8 DEF TypeOK, hostVars, fileVars
<1> QED
  BY <1>3, <1>4

LEMMA HandleOtherType ==
    ASSUME TypeOK, HandleOther \/ OtherHandled
    PROVE  TypeOK'
  BY NotIdle DEF TypeOK, HandleOther, OtherHandled, hostVars, bufferVars, fileVars, historyVars, clientVars

\* A turn of the write loop of h, beside the writes others.
LEMMA ProcessUploadDataFacts ==
    ASSUME TypeOK, NEW h \in Hosts, NEW others \in Seq(Message \cup {Nothing}),
           ProcessUploadData(h, others)
    PROVE  /\ queue' \in [Hosts -> Seq(Messages)]
           /\ \A k \in Hosts : Len(queue'[k]) <= Capacity
           /\ writing' \in [Hosts -> Seq(Message \cup {Nothing})]
           /\ writeBuff' \in [Hosts -> Message \cup {Nothing}]
           /\ worker' \in {Idle, [at |-> "spin", host |-> h, file |-> NoFile]}
           /\ \A k \in Hosts \ {h} : /\ queue'[k] = queue[k]
                                     /\ writing'[k] = writing[k]
                                     /\ writeBuff'[k] = writeBuff[k]
           /\ queue[h] = <<>> =>
                  /\ queue'[h] = <<>> /\ writing'[h] = others /\ writeBuff'[h] = writeBuff[h]
                  /\ worker' = [at |-> "spin", host |-> h, file |-> NoFile]
           /\ queue[h] # <<>> => queue'[h] = Tail(queue[h]) /\ worker' = Idle
           /\ AtEnd(h) => writing'[h] = others /\ writeBuff'[h] = writeBuff[h]
           /\ queue[h] # <<>> /\ ~ AtEnd(h) =>
                  /\ writing'[h] = Append(others, Head(queue[h]))
                  /\ writeBuff'[h] = Head(queue[h])
<1>1. /\ queue \in [Hosts -> Seq(Messages)]
      /\ \A k \in Hosts : Len(queue[k]) <= Capacity
      /\ writing \in [Hosts -> Seq(Message \cup {Nothing})]
      /\ writeBuff \in [Hosts -> Message \cup {Nothing}]
  BY DEF TypeOK
<1>2. CASE queue[h] = <<>>
  <2>1. /\ writing' = [writing EXCEPT ![h] = others]
        /\ worker' = [at |-> "spin", host |-> h, file |-> NoFile]
        /\ queue' = queue /\ writeBuff' = writeBuff
    BY <1>2 DEF ProcessUploadData
  <2>2. ~ AtEnd(h)
    BY <1>2 DEF AtEnd
  <2>3. writing' \in [Hosts -> Seq(Message \cup {Nothing})] /\ writing'[h] = others
    BY <1>1, <2>1
  <2>4. \A k \in Hosts \ {h} : writing'[k] = writing[k]
    BY <1>1, <2>1
  <2> QED
    BY <1>1, <1>2, <2>1, <2>2, <2>3, <2>4
<1>3. CASE queue[h] # <<>>
  <2> DEFINE m == Head(queue[h])
             r == Tail(queue[h])
  <2>1. /\ queue' = [queue EXCEPT ![h] = r]
        /\ worker' = Idle
        /\ IF AtEnd(h)
           THEN writing' = [writing EXCEPT ![h] = others] /\ writeBuff' = writeBuff
           ELSE /\ writing' = [writing EXCEPT ![h] = Append(others, m)]
                /\ writeBuff' = [writeBuff EXCEPT ![h] = m]
    BY <1>3 DEF ProcessUploadData
  <2>2. m \in Messages /\ r \in Seq(Messages) /\ Len(r) <= Capacity
    <3>1. queue[h] \in Seq(Messages) /\ Len(queue[h]) <= Capacity /\ Capacity \in Nat
      BY HostTypes, UploadAssumption
    <3>2. m \in Messages /\ r \in Seq(Messages) /\ Len(r) = Len(queue[h]) - 1 /\ Len(queue[h]) \in Nat
      BY <1>3, <3>1, TailFacts
    <3> QED
      BY <3>1, <3>2
  <2>3. ~ AtEnd(h) => m \in Message
    BY <1>3, <2>2, MessageFacts DEF AtEnd
  <2> HIDE DEF m, r
  <2>4. /\ queue' \in [Hosts -> Seq(Messages)]
        /\ \A k \in Hosts : Len(queue'[k]) <= Capacity
        /\ queue'[h] = r
        /\ \A k \in Hosts \ {h} : queue'[k] = queue[k]
    BY <1>1, <2>1, <2>2
  <2>5. CASE AtEnd(h)
    <3>1. writing' = [writing EXCEPT ![h] = others] /\ writeBuff' = writeBuff
      BY <2>1, <2>5
    <3>2. /\ writing' \in [Hosts -> Seq(Message \cup {Nothing})] /\ writing'[h] = others
          /\ \A k \in Hosts \ {h} : writing'[k] = writing[k]
      BY <1>1, <3>1
    <3> QED
      BY <1>1, <1>3, <2>1, <2>4, <2>5, <3>1, <3>2 DEF r
  <2>6. CASE ~ AtEnd(h)
    <3>1. /\ writing' = [writing EXCEPT ![h] = Append(others, m)]
          /\ writeBuff' = [writeBuff EXCEPT ![h] = m]
      BY <2>1, <2>6
    <3>2. Append(others, m) \in Seq(Message \cup {Nothing})
      BY <2>3, <2>6, AppendFacts
    <3>3. /\ writing' \in [Hosts -> Seq(Message \cup {Nothing})]
          /\ writing'[h] = Append(others, m)
          /\ \A k \in Hosts \ {h} : writing'[k] = writing[k]
      BY <1>1, <3>1, <3>2
    <3>4. /\ writeBuff' \in [Hosts -> Message \cup {Nothing}]
          /\ writeBuff'[h] = m
          /\ \A k \in Hosts \ {h} : writeBuff'[k] = writeBuff[k]
      BY <1>1, <2>3, <2>6, <3>1
    <3> QED
      BY <1>1, <1>3, <2>1, <2>4, <2>6, <3>3, <3>4 DEF m, r
  <2> QED
    BY <2>5, <2>6
<1> QED
  BY <1>2, <1>3

LEMMA AtEndFacts ==
    ASSUME TypeOK, NEW h \in Hosts
    PROVE  /\ AtEnd(h) => queue[h] # <<>>
           /\ queue[h] # <<>> => /\ Head(queue[h]) \in Messages
                                 /\ Head(queue[h]).n \in Nat
                                 /\ AtEnd(h) <=> Head(queue[h]) \in Terminator
<1>1. ASSUME queue[h] # <<>> PROVE Head(queue[h]) \in Messages
  BY <1>1, HostTypes, TailFacts
<1> QED
  BY <1>1, MessageFacts DEF AtEnd

LEMMA GotUpToFacts ==
    ASSUME TypeOK, NEW h \in Hosts, NEW n \in Nat, GotUpTo(h, n)
    PROVE  /\ got' \in [Hosts -> Nat]
           /\ got'[h] = IF AtEnd(h) THEN Head(queue[h]).n ELSE n
           /\ \A k \in Hosts \ {h} : got'[k] = got[k]
<1> DEFINE x == IF AtEnd(h) THEN Head(queue[h]).n ELSE n
<1>1. x \in Nat
  BY AtEndFacts
<1>2. got' = [got EXCEPT ![h] = x]
  BY DEF GotUpTo
<1>3. got \in [Hosts -> Nat]
  BY DEF TypeOK
<1> HIDE DEF x
<1>4. got' \in [Hosts -> Nat] /\ got'[h] = x /\ \A k \in Hosts \ {h} : got'[k] = got[k]
  BY <1>1, <1>2, <1>3
<1> QED
  BY <1>4 DEF x

\* What the device makes of a message.
LEMMA DeliverFacts ==
    ASSUME TypeOK, NEW h \in Hosts, NEW m \in Message \cup {Nothing}, Deliver(h, m)
    PROVE  /\ GotUpTo(h, IF m = Nothing THEN got[h] ELSE m.n)
           /\ (IF m = Nothing THEN got[h] ELSE m.n) \in Nat
           /\ begun' \in [Hosts -> [Files -> {"no", "begun", "whole"}]]
           /\ \A k \in Hosts \ {h} : begun'[k] = begun[k]
           /\ \A f \in Files : IF m \in StartsOf(f)
                               THEN begun'[h][f] = "begun"
                               ELSE begun'[h][f] # "no" <=> begun[h][f] # "no"
<1>1. /\ GotUpTo(h, IF m = Nothing THEN got[h] ELSE m.n)
      /\ begun' = CASE m.kind = "start" -> [begun EXCEPT ![h][m.file] = "begun"]
                    [] m.kind = "stop" /\ begun[h][m.file] = "begun" ->
                           [begun EXCEPT ![h][m.file] = "whole"]
                    [] OTHER -> begun
  BY DEF Deliver
<1>2. (IF m = Nothing THEN got[h] ELSE m.n) \in Nat
  BY HostTypes, MessageFacts
<1>3. begun \in [Hosts -> [Files -> {"no", "begun", "whole"}]]
  BY DEF TypeOK
<1>4. \A f \in Files : m \in StartsOf(f) <=> m.kind = "start" /\ m.file = f
  BY MessageFacts DEF StartsOf, Message
<1>5. CASE m.kind = "start"
  <2>1. begun' = [begun EXCEPT ![h] = [begun[h] EXCEPT ![m.file] = "begun"]]
    BY <1>1, <1>3, <1>5
  <2>2. m.file \in Files
    BY <1>5, MessageFacts
  <2>3. /\ [begun[h] EXCEPT ![m.file] = "begun"] \in [Files -> {"no", "begun", "whole"}]
        /\ [begun[h] EXCEPT ![m.file] = "begun"][m.file] = "begun"
        /\ \A f \in Files \ {m.file} : [begun[h] EXCEPT ![m.file] = "begun"][f] = begun[h][f]
    BY <1>3, <2>2
  <2> DEFINE b == [begun[h] EXCEPT ![m.file] = "begun"]
  <2> HIDE DEF b
  <2>4. b \in [Files -> {"no", "begun", "whole"}]
    BY <2>3 DEF b
  <2>5. /\ begun' \in [Hosts -> [Files -> {"no", "begun", "whole"}]]
        /\ begun'[h] = b
        /\ \A k \in Hosts \ {h} : begun'[k] = begun[k]
    <3>1. begun' = [begun EXCEPT ![h] = b]
      BY <2>1 DEF b
    <3> QED
      BY <1>3, <2>4, <3>1
  <2>6. b[m.file] = "begun" /\ \A f \in Files \ {m.file} : b[f] = begun[h][f]
    BY <2>3 DEF b
  <2> QED
    BY <1>1, <1>2, <1>4, <1>5, <2>5, <2>6
<1>6. CASE m.kind = "stop" /\ begun[h][m.file] = "begun"
  <2>1. begun' = [begun EXCEPT ![h] = [begun[h] EXCEPT ![m.file] = "whole"]]
    BY <1>1, <1>3, <1>6
  <2>2. m.file \in Files
    BY <1>6, MessageFacts
  <2> DEFINE b == [begun[h] EXCEPT ![m.file] = "whole"]
  <2>3. /\ b \in [Files -> {"no", "begun", "whole"}]
        /\ b[m.file] = "whole"
        /\ \A f \in Files \ {m.file} : b[f] = begun[h][f]
    BY <1>3, <2>2
  <2>4. begun' = [begun EXCEPT ![h] = b]
    BY <2>1
  <2> HIDE DEF b
  <2>5. /\ begun' \in [Hosts -> [Files -> {"no", "begun", "whole"}]]
        /\ begun'[h] = b
        /\ \A k \in Hosts \ {h} : begun'[k] = begun[k]
    BY <1>3, <2>3, <2>4
  <2>6. \A f \in Files : b[f] # "no" <=> begun[h][f] # "no"
    BY <1>6, <2>3
  <2> QED
    BY <1>1, <1>2, <1>4, <1>6, <2>5, <2>6
<1>7. CASE ~ (m.kind = "start") /\ ~ (m.kind = "stop" /\ begun[h][m.file] = "begun")
  <2>1. begun' = begun
    BY <1>1, <1>7
  <2> QED
    BY <1>1, <1>2, <1>3, <1>4, <1>7, <2>1
<1> QED
  BY <1>5, <1>6, <1>7

LEMMA SentDataType ==
    ASSUME TypeOK, NEW h \in Hosts, SentData(h)
    PROVE  TypeOK'
<1> DEFINE m == IF queue[h] = <<>> THEN Nothing ELSE Head(queue[h])
<1>1. /\ h \in Hosts
      /\ sending' = NoHost
      /\ UNCHANGED <<phase, link, current, fileVars, pushed, starts, stops, worker, clientVars, begun>>
  BY DEF SentData, TypeOK
<1>2. CASE phase[h] # "live"
  <2>1. UNCHANGED <<bufferVars, closing, got, damaged>>
    BY <1>2 DEF SentData
  <2> QED
    <3>1. /\ phase' \in [Hosts -> {"new", "live", "broken", "deleted"}] /\ link' \in SUBSET Hosts
          /\ current' \in Hosts \cup {NoHost} /\ closing' \in Hosts \cup {NoHost}
          /\ sending' \in Hosts \cup {NoHost}
      BY <1>1, <2>1 DEF TypeOK
    <3>2. UNCHANGED <<queue, writing, writeBuff, sessions, fileState, open, lost, late, faults, pushed,
                      got, starts, stops, damaged, worker, begun>>
      BY <1>1, <2>1 DEF bufferVars, fileVars
    <3> QED
      BY <1>1, <3>1, <3>2, WorkersKept DEF TypeOK
<1>3. CASE phase[h] = "live"
  <2>1. /\ queue' = [queue EXCEPT ![h] = IF @ = <<>> THEN @ ELSE Tail(@)]
        /\ GotUpTo(h, got[h])
        /\ MarkDamage(h, h # sending \/ Loops(h) > 0 \/ (~AtEnd(h) /\ h \notin link))
        /\ IF AtEnd(h)
           THEN UNCHANGED <<writing, writeBuff, closing>>
           ELSE /\ writeBuff' = [writeBuff EXCEPT ![h] = IF m = Nothing THEN @ ELSE m]
                /\ IF h \in link
                   THEN writing' = [writing EXCEPT ![h] = Append(@, m)] /\ UNCHANGED closing
                   ELSE closing' = h /\ UNCHANGED writing
    BY <1>3 DEF SentData
  <2>2. queue' \in [Hosts -> Seq(Messages)] /\ \A k \in Hosts : Len(queue'[k]) <= Capacity
    <3>1. queue \in [Hosts -> Seq(Messages)] /\ \A k \in Hosts : Len(queue[k]) <= Capacity
      BY DEF TypeOK
    <3> DEFINE r == IF queue[h] = <<>> THEN queue[h] ELSE Tail(queue[h])
    <3>2. r \in Seq(Messages) /\ Len(r) <= Capacity
      <4>1. queue[h] \in Seq(Messages) /\ Len(queue[h]) <= Capacity /\ Capacity \in Nat
        BY <1>1, HostTypes, UploadAssumption
      <4>2. CASE queue[h] = <<>>
        BY <4>1, <4>2
      <4>3. CASE queue[h] # <<>>
        <5>1. /\ Tail(queue[h]) \in Seq(Messages)
              /\ Len(Tail(queue[h])) = Len(queue[h]) - 1
              /\ Len(queue[h]) \in Nat
          BY <4>1, <4>3, TailFacts
        <5> QED
          BY <4>1, <4>3, <5>1
      <4> QED
        BY <4>2, <4>3
    <3>3. queue' = [queue EXCEPT ![h] = r]
      BY <2>1
    <3> HIDE DEF r
    <3> QED
      BY <1>1, <3>1, <3>2, <3>3
  <2>3. got' \in [Hosts -> Nat]
    BY <1>1, <2>1, HostTypes, GotUpToFacts
  <2>4. damaged' \in SUBSET Hosts
    BY <1>1, <2>1 DEF MarkDamage, TypeOK
  <2>5. AtEnd(h) \/ m \in Message \cup {Nothing}
    BY <1>1, AtEndFacts, MessageFacts
  <2>6. writeBuff' \in [Hosts -> Message \cup {Nothing}]
    <3>1. writeBuff \in [Hosts -> Message \cup {Nothing}]
      BY DEF TypeOK
    <3> HIDE DEF m
    <3> QED
      BY <1>1, <2>1, <2>5, <3>1
  <2>7. writing' \in [Hosts -> Seq(Message \cup {Nothing})]
    <3>1. writing \in [Hosts -> Seq(Message \cup {Nothing})]
      BY DEF TypeOK
    <3> HIDE DEF m
    <3>2. ~ AtEnd(h) => Append(writing[h], m) \in Seq(Message \cup {Nothing})
      BY <1>1, <2>5, <3>1, AppendFacts
    <3> QED
      BY <1>1, <2>1, <3>1, <3>2
  <2>8. closing' \in Hosts \cup {NoHost}
    BY <1>1, <2>1 DEF TypeOK
  <2> HIDE DEF m
  <2> QED
    BY <1>1, <2>2, <2>3, <2>4, <2>6, <2>7, <2>8 DEF TypeOK, fileVars, clientVars
<1> QED
  BY <1>2, <1>3

\* What a write that completes does to the device and to the loop.
LEMMA OnWriteParts ==
    ASSUME TypeOK, NEW h \in Hosts, OnWrite(h)
    PROVE  /\ phase[h] = "live" /\ closing = NoHost /\ worker = Idle /\ writing[h] # <<>>
           /\ Tail(writing[h]) \in Seq(Message \cup {Nothing})
           /\ ProcessUploadData(h, Tail(writing[h]))
           /\ \E m \in {Head(writing[h]), writeBuff[h]} :
                  m \in Message \cup {Nothing} /\ Deliver(h, m)
           /\ UNCHANGED <<hostVars, fileVars, pushed, starts, stops, damaged, sending, clientVars>>
<1>1. writing[h] \in Seq(Message \cup {Nothing}) /\ writing[h] # <<>>
  BY HostTypes DEF OnWrite
<1>2. Head(writing[h]) \in Message \cup {Nothing} /\ Tail(writing[h]) \in Seq(Message \cup {Nothing})
  BY <1>1, TailFacts
<1> QED
  BY <1>1, <1>2, HostTypes DEF OnWrite

LEMMA OnWriteType ==
    ASSUME TypeOK, NEW h \in Hosts, OnWrite(h)
    PROVE  TypeOK'
<1>1. /\ Tail(writing[h]) \in Seq(Message \cup {Nothing})
      /\ ProcessUploadData(h, Tail(writing[h]))
      /\ UNCHANGED <<hostVars, fileVars, pushed, starts, stops, damaged, sending, clientVars>>
  BY OnWriteParts
<1>2. PICK m \in Message \cup {Nothing} : Deliver(h, m)
  BY OnWriteParts
<1>3. /\ begun' \in [Hosts -> [Files -> {"no", "begun", "whole"}]]
      /\ got' \in [Hosts -> Nat]
  BY <1>2, DeliverFacts, GotUpToFacts
<1>4. /\ queue' \in [Hosts -> Seq(Messages)]
      /\ \A k \in Hosts : Len(queue'[k]) <= Capacity
      /\ writing' \in [Hosts -> Seq(Message \cup {Nothing})]
      /\ writeBuff' \in [Hosts -> Message \cup {Nothing}]
      /\ worker' \in {Idle, [at |-> "spin", host |-> h, file |-> NoFile]}
  BY <1>1, ProcessUploadDataFacts
<1> QED
  BY <1>1, <1>3, <1>4, NotIdle DEF TypeOK, hostVars, fileVars, clientVars

LEMMA SpinTurnType ==
    ASSUME TypeOK, NEW h \in Hosts, SpinTurn(h)
    PROVE  TypeOK'
<1>1. /\ writing[h] \in Seq(Message \cup {Nothing})
      /\ ProcessUploadData(h, writing[h])
      /\ got[h] \in Nat
      /\ GotUpTo(h, got[h])
      /\ UNCHANGED <<hostVars, fileVars, pushed, starts, stops, damaged, sending, clientVars, begun>>
  BY HostTypes DEF SpinTurn
<1>2. got' \in [Hosts -> Nat]
  BY <1>1, GotUpToFacts
<1>3. /\ queue' \in [Hosts -> Seq(Messages)]
      /\ \A k \in Hosts : Len(queue'[k]) <= Capacity
      /\ writing' \in [Hosts -> Seq(Message \cup {Nothing})]
      /\ writeBuff' \in [Hosts -> Message \cup {Nothing}]
      /\ worker' \in {Idle, [at |-> "spin", host |-> h, file |-> NoFile]}
  BY <1>1, ProcessUploadDataFacts
<1> QED
  BY <1>1, <1>2, <1>3, NotIdle DEF TypeOK, hostVars, fileVars, clientVars

\* Taking the head of a buffer.
LEMMA TakenTypes ==
    ASSUME TypeOK, NEW h \in Hosts, queue[h] # <<>>, queue' = [queue EXCEPT ![h] = Tail(@)]
    PROVE  /\ queue' \in [Hosts -> Seq(Messages)]
           /\ \A k \in Hosts : Len(queue'[k]) <= Capacity
           /\ queue'[h] = Tail(queue[h])
           /\ \A k \in Hosts \ {h} : queue'[k] = queue[k]
<1>1. /\ queue \in [Hosts -> Seq(Messages)]
      /\ \A k \in Hosts : Len(queue[k]) <= Capacity
      /\ Capacity \in Nat
  BY UploadAssumption DEF TypeOK
<1> DEFINE r == Tail(queue[h])
<1>2. r \in Seq(Messages) /\ Len(r) = Len(queue[h]) - 1 /\ Len(queue[h]) \in Nat
  BY <1>1, TailFacts
<1>3. Len(r) <= Capacity
  BY <1>1, <1>2
<1>4. queue' = [queue EXCEPT ![h] = r]
  OBVIOUS
<1> HIDE DEF r
<1>5. /\ queue' \in [Hosts -> Seq(Messages)]
      /\ \A k \in Hosts : Len(queue'[k]) <= Capacity
      /\ queue'[h] = r
      /\ \A k \in Hosts \ {h} : queue'[k] = queue[k]
  BY <1>1, <1>2, <1>3, <1>4
<1> QED
  BY <1>5 DEF r

LEMMA SpinFailsType ==
    ASSUME TypeOK, NEW h \in Hosts, SpinFails(h)
    PROVE  TypeOK'
<1>1. /\ queue[h] # <<>>
      /\ queue' = [queue EXCEPT ![h] = Tail(@)]
      /\ worker' = Idle
      /\ closing' \in {h, NoHost}
      /\ got[h] \in Nat
      /\ GotUpTo(h, got[h])
      /\ UNCHANGED <<phase, link, current, writing, writeBuff, fileVars, pushed, starts, stops, damaged,
                     sending, clientVars, begun>>
  BY HostTypes DEF SpinFails
<1>2. got' \in [Hosts -> Nat]
  BY <1>1, GotUpToFacts
<1>3. queue' \in [Hosts -> Seq(Messages)] /\ \A k \in Hosts : Len(queue'[k]) <= Capacity
  BY <1>1, TakenTypes
<1> QED
  BY <1>1, <1>2, <1>3, NotIdle DEF TypeOK, fileVars, clientVars

LEMMA SpinOnDeletedType ==
    ASSUME TypeOK, NEW h \in Hosts, SpinOnDeleted(h)
    PROVE  TypeOK'
  BY NotIdle DEF TypeOK, SpinOnDeleted, hostVars, bufferVars, fileVars, historyVars, clientVars

\* What is written into the database (UpdateFileInfo), and what of it fails.
LEMMA UpdateTypes ==
    ASSUME TypeOK, NEW fs \in SUBSET Files, NEW failing, NEW state \in {"done", "failed"},
           UpdateFileInfo(fs, failing, state), IsFiniteSet(fs)
    PROVE  /\ faults' \in 0 .. MaxFaults
           /\ fileState' \in [Files -> {"none", "done", "failed"}]
           /\ open' \in SUBSET Files
           /\ lost' \in SUBSET Files
<1>1. /\ failing \subseteq fs
      /\ faults + Cardinality(failing) <= MaxFaults
      /\ faults' = faults + Cardinality(failing)
      /\ fileState' = [f \in Files |-> IF f \in fs \ failing THEN state ELSE fileState[f]]
      /\ open' = open \ (fs \ failing)
      /\ lost' = lost \cup failing
  BY DEF UpdateFileInfo
<1>2. Cardinality(failing) \in Nat
  BY <1>1, FS_Subset, FS_CardinalityType
<1>3. faults \in 0 .. MaxFaults /\ MaxFaults \in Nat
  BY UploadAssumption DEF TypeOK
<1>4. faults' \in 0 .. MaxFaults
  BY <1>1, <1>2, <1>3
<1>5. fileState' \in [Files -> {"none", "done", "failed"}]
  BY <1>1 DEF TypeOK
<1>6. open' \in SUBSET Files /\ lost' \in SUBSET Files
  BY <1>1 DEF TypeOK
<1> QED
  BY <1>4, <1>5, <1>6

LEMMA OnMsgInfoType ==
    ASSUME TypeOK, NEW h \in Hosts, NEW f \in Files, NEW state \in {"done", "failed"},
           OnMsgInfo(h, f, state)
    PROVE  TypeOK'
<1>1. /\ begun' = [begun EXCEPT ![h][f] = "no"]
      /\ worker' = [at |-> "result", host |-> h, file |-> f]
      /\ UNCHANGED <<hostVars, bufferVars, historyVars, sessions, late, sending, clientVars>>
  BY DEF OnMsgInfo
<1>2. PICK failing \in SUBSET {f} : UpdateFileInfo({f}, failing, state)
  BY DEF OnMsgInfo
<1>3. /\ faults' \in 0 .. MaxFaults
      /\ fileState' \in [Files -> {"none", "done", "failed"}]
      /\ open' \in SUBSET Files
      /\ lost' \in SUBSET Files
  BY <1>2, UpdateTypes, FS_Singleton
<1>4. begun' \in [Hosts -> [Files -> {"no", "begun", "whole"}]]
  BY <1>1 DEF TypeOK
<1>5. worker' \in [at : {"idle", "away", "spin", "result", "dead"}, host : Hosts \cup {NoHost},
                   file : Files \cup {NoFile}]
  BY <1>1
<1> QED
  BY <1>1, <1>3, <1>4, <1>5 DEF TypeOK, hostVars, bufferVars, historyVars, clientVars

LEMMA EraseSessionType ==
    ASSUME TypeOK, EraseSession, worker.host \in Hosts
    PROVE  TypeOK'
<1> DEFINE h == worker.host
<1>1. /\ worker' \in {Idle, [worker EXCEPT !.at = "dead"]}
      /\ sessions' \in {sessions, [sessions EXCEPT ![h] = RemoveFirst(@, worker.file)]}
      /\ UNCHANGED <<hostVars, bufferVars, fileState, open, lost, late, faults, historyVars, sending,
                     clientVars, begun>>
  BY DEF EraseSession
<1>2. worker' \in [at : {"idle", "away", "spin", "result", "dead"}, host : Hosts \cup {NoHost},
                   file : Files \cup {NoFile}]
  <2>1. worker \in [at : {"idle", "away", "spin", "result", "dead"}, host : Hosts \cup {NoHost},
                    file : Files \cup {NoFile}]
    BY DEF TypeOK
  <2> QED
    BY <1>1, <2>1, NotIdle
<1>3. sessions' \in [Hosts -> Seq(Files)]
  <2>1. sessions \in [Hosts -> Seq(Files)]
    BY DEF TypeOK
  <2>2. RemoveFirst(sessions[h], worker.file) \in Seq(Files)
    BY HostTypes, CountRemoveFirst
  <2> QED
    BY <1>1, <2>1, <2>2
<1> QED
  BY <1>1, <1>2, <1>3 DEF TypeOK, hostVars, bufferVars, historyVars, clientVars

LEMMA RegisterType ==
    ASSUME TypeOK, NEW h \in Hosts, Register(h)
    PROVE  TypeOK'
<1>1. /\ phase' \in [Hosts -> {"new", "live", "broken", "deleted"}] /\ link' \in SUBSET Hosts
      /\ current' \in Hosts \cup {NoHost} /\ closing' \in Hosts \cup {NoHost}
  BY DEF TypeOK, Register
<1> QED
  BY <1>1, HostStepType DEF Register

LEMMA PeerGoneType ==
    ASSUME TypeOK, NEW h \in Hosts, PeerGone(h)
    PROVE  TypeOK'
<1>1. /\ phase' \in [Hosts -> {"new", "live", "broken", "deleted"}] /\ link' \in SUBSET Hosts
      /\ current' \in Hosts \cup {NoHost} /\ closing' \in Hosts \cup {NoHost}
  BY DEF TypeOK, PeerGone
<1> QED
  BY <1>1, HostStepType DEF PeerGone

LEMMA DelDeviceType ==
    ASSUME TypeOK, NEW h \in Hosts, DelDevice(h)
    PROVE  TypeOK'
<1>1. /\ phase' \in [Hosts -> {"new", "live", "broken", "deleted"}] /\ link' \in SUBSET Hosts
      /\ current' \in Hosts \cup {NoHost} /\ closing' \in Hosts \cup {NoHost}
  BY DEF TypeOK, DelDevice
<1> QED
  BY <1>1, HostStepType DEF DelDevice

LEMMA OnBrokenType ==
    ASSUME TypeOK, NEW h \in Hosts, OnBroken(h)
    PROVE  TypeOK'
<1>1. /\ phase' = [phase EXCEPT ![h] = "broken"]
      /\ sessions' = [sessions EXCEPT ![h] = <<>>]
      /\ UNCHANGED <<link, current, closing, late, bufferVars, historyVars, worker, sending,
                     clientVars, begun>>
  BY DEF OnBroken
<1>2. PICK failing \in SUBSET ToSet(sessions[h]) :
          UpdateFileInfo(ToSet(sessions[h]), failing, "failed")
  BY DEF OnBroken
<1>3. ToSet(sessions[h]) \in SUBSET Files /\ IsFiniteSet(ToSet(sessions[h]))
  <2> DEFINE s == sessions[h]
  <2>1. s \in Seq(Files)
    BY HostTypes
  <2> HIDE DEF s
  <2>2. ToSet(s) \in SUBSET Files
    BY <2>1 DEF ToSet
  <2>3. IsFiniteSet(ToSet(s))
    <3> DEFINE f == [i \in 1 .. Len(s) |-> s[i]]
    <3>1. Len(s) \in Nat /\ DOMAIN s = 1 .. Len(s)
      BY <2>1
    <3>2. IsFiniteSet(1 .. Len(s))
      BY <3>1, FS_Interval
    <3>3. f \in Surjection(1 .. Len(s), ToSet(s))
      BY <3>1 DEF Surjection, ToSet
    <3> HIDE DEF f
    <3> QED
      BY <3>2, <3>3, FS_Surjection
  <2> QED
    BY <2>2, <2>3 DEF s
<1>4. /\ faults' \in 0 .. MaxFaults
      /\ fileState' \in [Files -> {"none", "done", "failed"}]
      /\ open' \in SUBSET Files
      /\ lost' \in SUBSET Files
  BY <1>2, <1>3, UpdateTypes
<1>5. phase' \in [Hosts -> {"new", "live", "broken", "deleted"}]
  BY <1>1 DEF TypeOK
<1>6. sessions' \in [Hosts -> Seq(Files)]
  <2>1. sessions \in [Hosts -> Seq(Files)] /\ <<>> \in Seq(Files)
    BY DEF TypeOK
  <2> QED
    BY <1>1, <2>1
<1> QED
  BY <1>1, <1>4, <1>5, <1>6, WorkersKept DEF TypeOK, bufferVars, historyVars

LEMMA DeleteType ==
    ASSUME TypeOK, NEW h \in Hosts, Delete(h)
    PROVE  TypeOK'
<1>1. /\ phase' = [phase EXCEPT ![h] = "deleted"]
      /\ link' = link \ {h}
      /\ writing' = [writing EXCEPT ![h] = <<>>]
      /\ current' = NoHost
      /\ closing' = NoHost
      /\ queue' = [queue EXCEPT ![h] = <<>>]
      /\ writeBuff' = [writeBuff EXCEPT ![h] = Nothing]
      /\ begun' = [begun EXCEPT ![h] = [f \in Files |-> "no"]]
      /\ pushed' = [pushed EXCEPT ![h] = 0]
      /\ got' = [got EXCEPT ![h] = 0]
      /\ stops' = [stops EXCEPT ![h] = 0]
      /\ UNCHANGED <<fileVars, starts, damaged, worker, sending, clientVars>>
  BY DEF Delete
<1>2. phase' \in [Hosts -> {"new", "live", "broken", "deleted"}] /\ link' \in SUBSET Hosts
  BY <1>1 DEF TypeOK
<1>3. writing' \in [Hosts -> Seq(Message \cup {Nothing})]
  <2> DEFINE S == Seq(Message \cup {Nothing})
  <2>1. writing \in [Hosts -> S]
    BY DEF TypeOK
  <2>4. <<>> \in S
    OBVIOUS
  <2>2. writing' = [writing EXCEPT ![h] = <<>>]
    BY <1>1
  <2> HIDE DEF S
  <2>3. writing' \in [Hosts -> S]
    BY <2>1, <2>2, <2>4
  <2> QED
    BY <2>3 DEF S
<1>4. queue' \in [Hosts -> Seq(Messages)] /\ \A k \in Hosts : Len(queue'[k]) <= Capacity
  <2>1. queue \in [Hosts -> Seq(Messages)] /\ \A k \in Hosts : Len(queue[k]) <= Capacity
    BY DEF TypeOK
  <2>2. <<>> \in Seq(Messages) /\ Len(<<>>) <= Capacity
    BY UploadAssumption
  <2> QED
    BY <1>1, <2>1, <2>2
<1>5. writeBuff' \in [Hosts -> Message \cup {Nothing}]
  BY <1>1 DEF TypeOK
<1>6. begun' \in [Hosts -> [Files -> {"no", "begun", "whole"}]]
  <2>1. begun \in [Hosts -> [Files -> {"no", "begun", "whole"}]]
    BY DEF TypeOK
  <2>2. [f \in Files |-> "no"] \in [Files -> {"no", "begun", "whole"}]
    OBVIOUS
  <2> QED
    BY <1>1, <2>1, <2>2
<1>7. pushed' \in [Hosts -> Nat] /\ got' \in [Hosts -> Nat] /\ stops' \in [Hosts -> Nat]
  <2>1. pushed \in [Hosts -> Nat] /\ got \in [Hosts -> Nat] /\ stops \in [Hosts -> Nat]
    BY DEF TypeOK
  <2> QED
    BY <1>1, <2>1
<1> QED
  BY <1>1, <1>2, <1>3, <1>4, <1>5, <1>6, <1>7 DEF TypeOK, fileVars, clientVars

-------------------------------------------------------------------------------

(***************************************************************************)
(* A step is on one host: what the others have of the state stays.         *)
(***************************************************************************)

Untouched(k) ==
    /\ phase'[k] = phase[k]
    /\ queue'[k] = queue[k] /\ writing'[k] = writing[k] /\ writeBuff'[k] = writeBuff[k]
    /\ sessions'[k] = sessions[k] /\ begun'[k] = begun[k]
    /\ pushed'[k] = pushed[k] /\ got'[k] = got[k] /\ starts'[k] = starts[k] /\ stops'[k] = stops[k]
    /\ closing = k => closing' = k
    /\ sending' = k => sending = k
    /\ phase[k] = "live" => (sending' = k <=> sending = k)
    /\ calling' = calling \/ calling'.host # k
    /\ worker' = worker \/ (worker.host # k /\ worker'.host # k)

LEMMA GetDeviceObjFrame ==
    ASSUME NEW call \in {"start", "chunk", "stop"}, NEW f \in Files, GetDeviceObj(call, f),
           NEW k \in Hosts \ {current}
    PROVE  Untouched(k)
<1>1. calling'.host # k
  BY DEF GetDeviceObj
<1> QED
  BY <1>1 DEF Untouched, GetDeviceObj, hostVars, bufferVars, fileVars, historyVars

LEMMA OnStartUploadFrame ==
    ASSUME TypeOK, CallFits, OnStartUpload, NEW k \in Hosts \ {calling.host}
    PROVE  Untouched(k)
<1>1. UNCHANGED <<hostVars, writing, writeBuff, fileState, faults, got, stops, worker, begun>>
  BY DEF OnStartUpload
<1>2. /\ sending = NoHost /\ calling' = Idle /\ k # NoHost /\ calling'.host # k
      /\ sending' = calling.host /\ calling.host \in Hosts
  BY CallFacts, NotIdle, HostTypes DEF OnStartUpload
<1>3. CASE phase[calling.host] = "deleted"
  <2>1. UNCHANGED <<sessions, queue, pushed, starts, damaged>>
    BY <1>3 DEF OnStartUpload
  <2> QED
    BY <1>1, <1>2, <2>1 DEF Untouched, hostVars
<1>4. CASE phase[calling.host] # "deleted"
  <2>1. /\ AddSession(calling.host, calling.file)
        /\ Push(calling.host, "start", calling.file)
        /\ starts' = [starts EXCEPT ![calling.host] = @ + 1]
    BY <1>4 DEF OnStartUpload
  <2>2. queue'[k] = queue[k] /\ pushed'[k] = pushed[k]
    BY <2>1 DEF Push, TypeOK
  <2>3. sessions'[k] = sessions[k] /\ starts'[k] = starts[k]
    BY <2>1 DEF AddSession, TypeOK
  <2> QED
    BY <1>1, <1>2, <2>2, <2>3 DEF Untouched, hostVars
<1> QED
  BY <1>3, <1>4

LEMMA SentDataFrame ==
    ASSUME TypeOK, NEW h \in Hosts, SentData(h), NEW k \in Hosts \ {h}
    PROVE  Untouched(k)
<1>1. /\ closing = NoHost /\ k # NoHost
      /\ sending' = NoHost
      /\ sending = k => phase[k] = "deleted"
      /\ UNCHANGED <<phase, link, current, fileVars, pushed, starts, stops, worker, clientVars, begun>>
  BY HostTypes DEF SentData, TypeOK
<1>2. CASE phase[h] # "live"
  <2>1. UNCHANGED <<bufferVars, closing, got, damaged>>
    BY <1>2 DEF SentData
  <2> QED
    BY <1>1, <2>1 DEF Untouched, bufferVars, fileVars, clientVars
<1>3. CASE phase[h] = "live"
  <2>1. queue'[k] = queue[k]
    BY <1>3 DEF SentData, TypeOK
  <2>2. writing'[k] = writing[k]
    BY <1>3 DEF SentData, TypeOK
  <2>3. writeBuff'[k] = writeBuff[k]
    BY <1>3 DEF SentData, TypeOK
  <2>4. got'[k] = got[k]
    <3>1. GotUpTo(h, got[h]) /\ got[h] \in Nat
      BY <1>1, <1>3, HostTypes DEF SentData
    <3> QED
      BY <1>1, <3>1, GotUpToFacts
  <2> QED
    BY <1>1, <2>1, <2>2, <2>3, <2>4 DEF Untouched, fileVars, clientVars
<1> QED
  BY <1>2, <1>3

LEMMA OnUploadingFrame ==
    ASSUME TypeOK, CallFits, OnUploading, NEW k \in Hosts \ {calling.host}
    PROVE  Untouched(k)
<1>1. queue'[k] = queue[k] /\ pushed'[k] = pushed[k]
  BY DEF OnUploading, Push, TypeOK
<1>2. calling'.host # k
  BY CallFacts, NotIdle, HostTypes DEF OnUploading
<1> QED
  BY <1>1, <1>2 DEF Untouched, OnUploading, hostVars, fileVars

LEMMA OnStopUploadFrame ==
    ASSUME TypeOK, CallFits, OnStopUpload, NEW k \in Hosts \ {calling.host}
    PROVE  Untouched(k)
<1>1. queue'[k] = queue[k] /\ pushed'[k] = pushed[k] /\ stops'[k] = stops[k]
  BY DEF OnStopUpload, TypeOK
<1>2. calling'.host # k
  BY CallFacts, NotIdle, HostTypes DEF OnStopUpload
<1> QED
  BY <1>1, <1>2 DEF Untouched, OnStopUpload, hostVars, fileVars

LEMMA HandleOtherFrame ==
    ASSUME TypeOK, HandleOther \/ OtherHandled, NEW k \in Hosts
    PROVE  Untouched(k)
<1>1. worker.host # k /\ worker'.host # k
  BY NotIdle, HostTypes DEF HandleOther, OtherHandled
<1> QED
  BY <1>1 DEF Untouched, HandleOther, OtherHandled, hostVars, bufferVars, fileVars, historyVars,
              clientVars

LEMMA OnWriteFrame ==
    ASSUME TypeOK, NEW h \in Hosts, OnWrite(h), NEW k \in Hosts \ {h}
    PROVE  Untouched(k)
<1>1. /\ worker = Idle
      /\ Tail(writing[h]) \in Seq(Message \cup {Nothing})
      /\ ProcessUploadData(h, Tail(writing[h]))
      /\ UNCHANGED <<hostVars, fileVars, pushed, starts, stops, damaged, sending, clientVars>>
  BY OnWriteParts
<1>2. PICK m \in Message \cup {Nothing} : Deliver(h, m)
  BY OnWriteParts
<1>3. begun'[k] = begun[k] /\ got'[k] = got[k]
  BY <1>2, DeliverFacts, GotUpToFacts
<1>4. /\ queue'[k] = queue[k] /\ writing'[k] = writing[k] /\ writeBuff'[k] = writeBuff[k]
      /\ worker' \in {Idle, [at |-> "spin", host |-> h, file |-> NoFile]}
  BY <1>1, ProcessUploadDataFacts
<1>5. worker.host # k /\ worker'.host # k
  BY <1>1, <1>4, NotIdle, HostTypes
<1> QED
  BY <1>1, <1>3, <1>4, <1>5 DEF Untouched, hostVars, fileVars, clientVars

LEMMA SpinTurnFrame ==
    ASSUME TypeOK, NEW h \in Hosts, SpinTurn(h), NEW k \in Hosts \ {h}
    PROVE  Untouched(k)
<1>1. /\ worker.host = h
      /\ writing[h] \in Seq(Message \cup {Nothing})
      /\ ProcessUploadData(h, writing[h])
      /\ got[h] \in Nat
      /\ GotUpTo(h, got[h])
      /\ UNCHANGED <<hostVars, fileVars, pushed, starts, stops, damaged, sending, clientVars, begun>>
  BY HostTypes DEF SpinTurn, Spins
<1>2. got'[k] = got[k]
  BY <1>1, GotUpToFacts
<1>3. /\ queue'[k] = queue[k] /\ writing'[k] = writing[k] /\ writeBuff'[k] = writeBuff[k]
      /\ worker' \in {Idle, [at |-> "spin", host |-> h, file |-> NoFile]}
  BY <1>1, ProcessUploadDataFacts
<1>4. worker.host # k /\ worker'.host # k
  BY <1>1, <1>3, NotIdle, HostTypes
<1> QED
  BY <1>1, <1>2, <1>3, <1>4 DEF Untouched, hostVars, fileVars, clientVars

LEMMA SpinFailsFrame ==
    ASSUME TypeOK, NEW h \in Hosts, SpinFails(h), NEW k \in Hosts \ {h}
    PROVE  Untouched(k)
<1>1. /\ worker.host = h /\ worker' = Idle
      /\ closing = NoHost
      /\ queue[h] # <<>>
      /\ queue' = [queue EXCEPT ![h] = Tail(@)]
      /\ got[h] \in Nat
      /\ GotUpTo(h, got[h])
      /\ UNCHANGED <<phase, link, current, writing, writeBuff, fileVars, pushed, starts, stops, damaged,
                     sending, clientVars, begun>>
  BY HostTypes DEF SpinFails, Spins
<1>2. got'[k] = got[k] /\ queue'[k] = queue[k]
  BY <1>1, GotUpToFacts, TakenTypes
<1>3. worker.host # k /\ worker'.host # k /\ k # NoHost
  BY <1>1, NotIdle, HostTypes
<1> QED
  BY <1>1, <1>2, <1>3 DEF Untouched, fileVars, clientVars

LEMMA SpinOnDeletedFrame ==
    ASSUME TypeOK, NEW h \in Hosts, SpinOnDeleted(h), NEW k \in Hosts \ {h}
    PROVE  Untouched(k)
<1>1. worker.host # k /\ worker'.host # k
  BY NotIdle, HostTypes DEF SpinOnDeleted, Spins
<1> QED
  BY <1>1 DEF Untouched, SpinOnDeleted, hostVars, bufferVars, fileVars, historyVars, clientVars

LEMMA OnMsgInfoFrame ==
    ASSUME TypeOK, NEW h \in Hosts, NEW f \in Files, NEW state \in {"done", "failed"},
           OnMsgInfo(h, f, state), NEW k \in Hosts \ {h}
    PROVE  Untouched(k)
<1>1. worker.host # k /\ worker'.host # k
  BY NotIdle, HostTypes DEF OnMsgInfo
<1>2. begun'[k] = begun[k]
  BY DEF OnMsgInfo, TypeOK
<1> QED
  BY <1>1, <1>2 DEF Untouched, OnMsgInfo, hostVars, bufferVars, historyVars, clientVars

LEMMA EraseSessionFrame ==
    ASSUME TypeOK, EraseSession, worker.host \in Hosts, NEW k \in Hosts \ {worker.host}
    PROVE  Untouched(k)
<1>1. /\ worker' \in {Idle, [worker EXCEPT !.at = "dead"]}
      /\ sessions' \in {sessions, [sessions EXCEPT ![worker.host] = RemoveFirst(@, worker.file)]}
      /\ UNCHANGED <<hostVars, bufferVars, fileState, open, lost, late, faults, historyVars, sending,
                     clientVars, begun>>
  BY DEF EraseSession
<1>2. worker'.host \in {worker.host, NoHost}
  BY <1>1, NotIdle DEF TypeOK
<1>3. worker.host # k /\ worker'.host # k
  BY <1>2, HostTypes
<1>4. sessions'[k] = sessions[k]
  BY <1>1 DEF TypeOK
<1> QED
  BY <1>1, <1>3, <1>4 DEF Untouched, hostVars, bufferVars, historyVars, clientVars

LEMMA RegisterFrame ==
    ASSUME TypeOK, NEW h \in Hosts, Register(h), NEW k \in Hosts \ {h}
    PROVE  Untouched(k)
  BY DEF Untouched, Register, TypeOK, bufferVars, fileVars, historyVars, clientVars

LEMMA PeerGoneFrame ==
    ASSUME NEW h \in Hosts, PeerGone(h), NEW k \in Hosts
    PROVE  Untouched(k)
  BY DEF Untouched, PeerGone, bufferVars, fileVars, historyVars, clientVars

LEMMA DelDeviceFrame ==
    ASSUME TypeOK, NEW h \in Hosts, DelDevice(h), NEW k \in Hosts
    PROVE  Untouched(k)
  BY HostTypes DEF Untouched, DelDevice, bufferVars, fileVars, historyVars, clientVars

LEMMA OnBrokenFrame ==
    ASSUME TypeOK, NEW h \in Hosts, OnBroken(h), NEW k \in Hosts \ {h}
    PROVE  Untouched(k)
<1>1. phase'[k] = phase[k] /\ sessions'[k] = sessions[k]
  BY DEF OnBroken, TypeOK
<1> QED
  BY <1>1 DEF Untouched, OnBroken, bufferVars, historyVars, clientVars

LEMMA DeleteFrame ==
    ASSUME TypeOK, NEW h \in Hosts, Delete(h), NEW k \in Hosts \ {h}
    PROVE  Untouched(k)
<1>1. /\ phase'[k] = phase[k] /\ queue'[k] = queue[k] /\ writing'[k] = writing[k]
      /\ writeBuff'[k] = writeBuff[k] /\ begun'[k] = begun[k]
  BY DEF Delete, TypeOK
<1>2. pushed'[k] = pushed[k] /\ got'[k] = got[k] /\ stops'[k] = stops[k]
  BY DEF Delete, TypeOK
<1> QED
  BY <1>1, <1>2 DEF Untouched, Delete, fileVars, clientVars

LEMMA UntouchedKeeps ==
    ASSUME TypeOK, CurrentIsTheLiveHost, NEW k \in Hosts, Untouched(k)
    PROVE  /\ Unused(k) => Unused(k)'
           /\ InUse(k)' => InUse(k)
           /\ StreamOf(k) /\ InUse(k) => StreamOf(k)'
           /\ \A f \in Files : Num(Answered(k, f))' = Num(Answered(k, f))
           /\ \A f \in Files : Covered(k, f) => Covered(k, f)'
<1>1. /\ phase'[k] = phase[k]
      /\ queue'[k] = queue[k] /\ writing'[k] = writing[k] /\ writeBuff'[k] = writeBuff[k]
      /\ sessions'[k] = sessions[k] /\ begun'[k] = begun[k]
      /\ pushed'[k] = pushed[k] /\ got'[k] = got[k]
      /\ starts'[k] = starts[k] /\ stops'[k] = stops[k]
      /\ closing = k => closing' = k
      /\ sending' = k => sending = k
      /\ phase[k] = "live" => (sending' = k <=> sending = k)
      /\ worker' = worker \/ (worker.host # k /\ worker'.host # k)
      /\ calling' = calling \/ calling'.host # k
  BY DEF Untouched
<1>2. Unused(k) => Unused(k)'
  BY <1>1 DEF Unused
<1>3. InUse(k)' => InUse(k)
  BY <1>1 DEF InUse
<1>4. /\ Num(Spins(k))' = Num(Spins(k))
      /\ InUse(k) => Num(sending = k)' = Num(sending = k)
  BY <1>1 DEF Spins, Num, InUse
<1>5. StreamOf(k) /\ InUse(k) => StreamOf(k)'
  BY <1>1, <1>4 DEF StreamOf
<1>6. \A f \in Files : Num(Answered(k, f))' = Num(Answered(k, f))
  BY <1>1 DEF Answered, Num
<1>7. \A f \in Files : Num(begun[k][f] # "no")' = Num(begun[k][f] # "no")
  BY <1>1
<1>8. \A f \in Files : Covered(k, f) => Covered(k, f)'
  BY <1>1, <1>6, <1>7 DEF Covered
<1> QED
  BY <1>2, <1>3, <1>5, <1>6, <1>8

\* What a step on host h has to show: h itself keeps its part of the invariant.
LEMMA StepOnHost ==
    ASSUME IInv, TypeOK', CurrentIsTheLiveHost', WorkerIsOnAHost', CallFits', OpenFilesHaveSessions',
           damaged \subseteq damaged',
           NEW h, \A k \in Hosts \ {h} : Untouched(k),
           h \in Hosts => Unused(h)',
           h \in Hosts /\ h \notin damaged' /\ InUse(h)' => StreamOf(h)',
           h \in Hosts /\ damaged' = {} /\ phase'[h] = "live" => \A f \in Files : Covered(h, f)'
    PROVE  IInv'
<1>1. /\ TypeOK /\ CurrentIsTheLiveHost
      /\ NewHostsAreUnused /\ StreamsAreWhole /\ SessionsCoverStarts
  BY DEF IInv
<1>2. NewHostsAreUnused'
  <2>1. ASSUME NEW k \in Hosts, k # h PROVE Unused(k)'
    BY <1>1, <2>1, UntouchedKeeps DEF NewHostsAreUnused
  <2> QED
    BY <2>1 DEF NewHostsAreUnused
<1>3. StreamsAreWhole'
  <2> SUFFICES ASSUME NEW k \in Hosts, k \notin damaged', InUse(k)' PROVE StreamOf(k)'
    BY DEF StreamsAreWhole
  <2>1. CASE k # h
    <3>1. Untouched(k) /\ k \notin damaged
      BY <2>1
    <3>2. InUse(k)
      BY <3>1, <1>1, UntouchedKeeps
    <3>3. StreamOf(k)
      BY <3>1, <3>2, <1>1 DEF StreamsAreWhole
    <3> QED
      BY <3>1, <3>2, <3>3, <1>1, UntouchedKeeps
  <2> QED
    BY <2>1
<1>4. SessionsCoverStarts'
  <2> SUFFICES ASSUME damaged' = {}, NEW k \in Hosts, NEW f \in Files, phase'[k] = "live"
               PROVE  Covered(k, f)'
    BY DEF SessionsCoverStarts
  <2>1. CASE k # h
    <3>1. Untouched(k) /\ damaged = {}
      BY <2>1
    <3>2. Covered(k, f)
      BY <3>1, <1>1 DEF Untouched, SessionsCoverStarts
    <3> QED
      BY <3>1, <3>2, <1>1, UntouchedKeeps
  <2> QED
    BY <2>1
<1> QED
  BY <1>2, <1>3, <1>4 DEF IInv

\* The host in use is the one m_devMap has, and nobody is deleting any.
LEMMA InUseFacts ==
    ASSUME TypeOK, CurrentIsTheLiveHost, NEW k \in Hosts, InUse(k)
    PROVE  current = k /\ closing = NoHost /\ phase[k] = "live" /\ k # NoHost
  BY HostTypes DEF CurrentIsTheLiveHost, InUse

\* What clients are given by m_devMap is in use.
LEMMA CurrentInUse ==
    ASSUME TypeOK, CurrentIsTheLiveHost, current # NoHost, closing = NoHost
    PROVE  current \in Hosts /\ phase[current] = "live" /\ InUse(current)
<1>1. current \in Hosts
  BY DEF TypeOK
<1>2. phase[current] = "live"
  BY <1>1, HostTypes DEF CurrentIsTheLiveHost
<1> QED
  BY <1>1, <1>2, HostTypes DEF InUse

LEMMA CurrentKept ==
    ASSUME CurrentIsTheLiveHost, UNCHANGED <<phase, current, closing>>
    PROVE  CurrentIsTheLiveHost'
  BY DEF CurrentIsTheLiveHost

LEMMA CallKept ==
    ASSUME CallFits, calling' = calling, sending' \in {sending, NoHost}
    PROVE  CallFits'
  BY DEF CallFits

LEMMA WorkerKept ==
    ASSUME WorkerIsOnAHost, worker' = worker
    PROVE  WorkerIsOnAHost'
  BY DEF WorkerIsOnAHost

\* A host whose phase is not "new" is not bound to be unused.
LEMMA UsedHost ==
    ASSUME NEW h, phase'[h] # "new"
    PROVE  Unused(h)'
  BY DEF Unused

\* Steps that neither answer nor give a file to the live host, nor touch its sessions, keep
\* the last part.
LEMMA OpenNarrowed ==
    ASSUME TypeOK, OpenFilesHaveSessions, damaged \subseteq damaged',
           phase' = phase,
           \A h \in Hosts : phase[h] = "live" => sessions'[h] = sessions[h],
           open' \ (lost' \cup late') \subseteq open \ (lost \cup late),
           worker' = worker \/ worker'.at # "result"
    PROVE  OpenFilesHaveSessions'
<1> SUFFICES ASSUME damaged' = {}, NEW f \in open' \ (lost' \cup late')
             PROVE  \E h \in Hosts :
                        phase'[h] = "live" /\ Num(Answered(h, f))' < Count(sessions[h], {f})'
  BY DEF OpenFilesHaveSessions
<1>1. damaged = {}
  OBVIOUS
<1>2. PICK h \in Hosts : phase[h] = "live" /\ Num(Answered(h, f)) < Count(sessions[h], {f})
  BY <1>1 DEF OpenFilesHaveSessions
<1>3. Count(sessions[h], {f})' = Count(sessions[h], {f})
  BY <1>2
<1>6. f \in Files
  BY DEF TypeOK
<1>4. CASE worker' = worker
  <2>1. Num(Answered(h, f))' = Num(Answered(h, f))
    BY <1>4 DEF Answered
  <2> QED
    BY <1>2, <1>3, <2>1
<1>5. CASE worker'.at # "result"
  <2>1. Num(Answered(h, f))' = 0
    BY <1>5 DEF Answered, Num
  <2>2. Num(Answered(h, f)) = 0 \/ Num(Answered(h, f)) = 1
    BY DEF Num
  <2> DEFINE n == Count(sessions[h], {f})
  <2>3. 0 < n
    <3>1. Num(Answered(h, f)) < n
      BY <1>2
    <3>2. n \in Nat
      BY <1>6, HostTypes, CountType
    <3> HIDE DEF n
    <3> QED
      BY <2>2, <3>1, <3>2
  <2> QED
    BY <1>2, <1>3, <2>1, <2>3
<1> QED
  BY <1>4, <1>5

LEMMA OpenKept ==
    ASSUME TypeOK, OpenFilesHaveSessions, damaged \subseteq damaged',
           UNCHANGED <<phase, sessions, open, lost, late>>,
           worker' = worker \/ worker'.at # "result"
    PROVE  OpenFilesHaveSessions'
  BY OpenNarrowed

-------------------------------------------------------------------------------

(***************************************************************************)
(* The count of sessions, message by message.                              *)
(***************************************************************************)

\* The types that the lemmas on the count share.
LEMMA CoverTypes ==
    ASSUME NEW q \in Seq(Messages), NEW w \in Seq(Message \cup {Nothing}), NEW ss \in Seq(Files),
           NEW f \in Files
    PROVE  /\ Count(q, StartsOf(f)) \in Nat
           /\ Count(w, StartsOf(f)) \in Nat
           /\ Count(ss, {f}) \in Nat
  BY CountType

\* A file is started: its session and its start are put in together.
LEMMA CoverStarted ==
    ASSUME NEW q \in Seq(Messages), NEW w \in Seq(Message \cup {Nothing}), NEW ss \in Seq(Files),
           NEW bg \in {0, 1}, NEW an \in {0, 1}, NEW f \in Files, NEW g \in Files,
           NEW m \in Message, m.kind = "start", m.file = g, CoverOK(q, w, ss, bg, an, f)
    PROVE  CoverOK(Append(q, m), w, Append(ss, g), bg, an, f)
<1>1. m \in Messages /\ (m \in StartsOf(f) <=> g \in {f})
  BY MessageFacts DEF Messages, StartsOf, Message
<1>2. Count(Append(q, m), StartsOf(f)) = Count(q, StartsOf(f)) + Num(m \in StartsOf(f))
  BY <1>1, CountAppend
<1>3. Count(Append(ss, g), {f}) = Count(ss, {f}) + Num(g \in {f})
  BY CountAppend
<1>4. Num(m \in StartsOf(f)) = Num(g \in {f}) /\ Num(g \in {f}) \in Nat
  BY <1>1 DEF Num
<1>5. Count(q, StartsOf(f)) \in Nat /\ Count(w, StartsOf(f)) \in Nat /\ Count(ss, {f}) \in Nat
  BY CoverTypes
<1> QED
  BY <1>2, <1>3, <1>4, <1>5 DEF CoverOK

\* Another message is put in.
LEMMA CoverPushed ==
    ASSUME NEW q \in Seq(Messages), NEW w \in Seq(Message \cup {Nothing}), NEW ss \in Seq(Files),
           NEW bg \in {0, 1}, NEW an \in {0, 1}, NEW f \in Files,
           NEW m \in Messages, m.kind # "start", CoverOK(q, w, ss, bg, an, f)
    PROVE  CoverOK(Append(q, m), w, ss, bg, an, f)
<1>1. m \notin StartsOf(f)
  BY DEF StartsOf
<1>2. Count(Append(q, m), StartsOf(f)) = Count(q, StartsOf(f)) + Num(m \in StartsOf(f))
  BY CountAppend
<1>3. Num(m \in StartsOf(f)) = 0
  BY <1>1 DEF Num
<1>4. Count(q, StartsOf(f)) \in Nat
  BY CoverTypes
<1> QED
  BY <1>2, <1>3, <1>4 DEF CoverOK

\* A message is taken out, to be dropped or written.
LEMMA CoverTaken ==
    ASSUME NEW q \in Seq(Messages), NEW w \in Seq(Message \cup {Nothing}), NEW ss \in Seq(Files),
           NEW bg \in {0, 1}, NEW an \in {0, 1}, NEW f \in Files,
           q # <<>>, CoverOK(q, w, ss, bg, an, f)
    PROVE  /\ CoverOK(Tail(q), w, ss, bg, an, f)
           /\ Head(q) \in Message => CoverOK(Tail(q), Append(w, Head(q)), ss, bg, an, f)
<1>1. Tail(q) \in Seq(Messages)
  BY TailFacts
<1>2. Count(q, StartsOf(f)) = Count(Tail(q), StartsOf(f)) + Num(Head(q) \in StartsOf(f))
  BY CountTail
<1>3. Num(Head(q) \in StartsOf(f)) \in Nat
  BY DEF Num
<1>0. /\ Count(Tail(q), StartsOf(f)) \in Nat
      /\ Count(w, StartsOf(f)) \in Nat
      /\ Count(ss, {f}) \in Nat
  BY <1>1, CoverTypes
<1>4. CoverOK(Tail(q), w, ss, bg, an, f)
  BY <1>0, <1>2, <1>3 DEF CoverOK
<1>5. ASSUME Head(q) \in Message
      PROVE  CoverOK(Tail(q), Append(w, Head(q)), ss, bg, an, f)
  <2>1. Count(Append(w, Head(q)), StartsOf(f))
            = Count(w, StartsOf(f)) + Num(Head(q) \in StartsOf(f))
    BY <1>5, CountAppend
  <2> QED
    BY <1>0, <1>2, <1>3, <2>1 DEF CoverOK
<1> QED
  BY <1>4, <1>5

\* The device gets a message: a start makes it begin the file.
LEMMA CoverWritten ==
    ASSUME NEW q \in Seq(Messages), NEW w \in Seq(Message \cup {Nothing}), NEW ss \in Seq(Files),
           NEW bg \in {0, 1}, NEW bg1 \in {0, 1}, NEW an \in {0, 1}, NEW f \in Files,
           w # <<>>, Head(w) \notin StartsOf(f) => bg1 = bg,
           CoverOK(q, w, ss, bg, an, f)
    PROVE  CoverOK(q, Tail(w), ss, bg1, an, f)
<1>1. Tail(w) \in Seq(Message \cup {Nothing})
  BY TailFacts
<1>2. Count(w, StartsOf(f)) = Count(Tail(w), StartsOf(f)) + Num(Head(w) \in StartsOf(f))
  BY CountTail
<1>0. /\ Count(q, StartsOf(f)) \in Nat
      /\ Count(Tail(w), StartsOf(f)) \in Nat
      /\ Count(ss, {f}) \in Nat
  BY <1>1, CoverTypes
<1>3. CASE Head(w) \in StartsOf(f)
  <2>1. Num(Head(w) \in StartsOf(f)) = 1
    BY <1>3 DEF Num
  <2> DEFINE a == Count(q, StartsOf(f))
             c == Count(w, StartsOf(f))
             d == Count(Tail(w), StartsOf(f))
             k == Count(ss, {f})
  <2>2. a \in Nat /\ d \in Nat /\ k \in Nat /\ c = d + 1
    BY <1>0, <1>2, <2>1
  <2>3. a + c + bg + an <= k
    BY DEF CoverOK
  <2> HIDE DEF a, c, d, k
  <2>4. a + d + bg1 + an <= k
    BY <2>2, <2>3
  <2> QED
    BY <2>4 DEF CoverOK, a, d, k
<1>4. CASE Head(w) \notin StartsOf(f)
  <2>1. Num(Head(w) \in StartsOf(f)) = 0
    BY <1>4 DEF Num
  <2> QED
    BY <1>0, <1>2, <1>4, <2>1 DEF CoverOK
<1> QED
  BY <1>3, <1>4

\* The session of an answered start is erased.
LEMMA CoverErased ==
    ASSUME NEW q \in Seq(Messages), NEW w \in Seq(Message \cup {Nothing}), NEW ss \in Seq(Files),
           NEW bg \in {0, 1}, NEW f \in Files, NEW e, CoverOK(q, w, ss, bg, Num(f = e), f)
    PROVE  CoverOK(q, w, RemoveFirst(ss, e), bg, 0, f)
<1>1. /\ RemoveFirst(ss, e) \in Seq(Files)
      /\ Count(ss, {f}) <= Count(RemoveFirst(ss, e), {f}) + Num(f = e)
  BY CountRemoveFirst
<1>2. Num(f = e) \in Nat
  BY DEF Num
<1>3. /\ Count(q, StartsOf(f)) \in Nat /\ Count(w, StartsOf(f)) \in Nat
      /\ Count(ss, {f}) \in Nat /\ Count(RemoveFirst(ss, e), {f}) \in Nat
  BY <1>1, CoverTypes
<1> QED
  BY <1>1, <1>2, <1>3 DEF CoverOK

LEMMA NumType == \A p \in BOOLEAN : Num(p) \in {0, 1}
  BY DEF Num

-------------------------------------------------------------------------------

(***************************************************************************)
(* The client service's worker keeps the invariant.                        *)
(***************************************************************************)

\* The parts of the invariant that are about one host.
LEMMA OnHost ==
    ASSUME IInv, NEW h \in Hosts
    PROVE  /\ Unused(h)
           /\ h \notin damaged /\ InUse(h) => StreamOf(h)
           /\ damaged = {} /\ phase[h] = "live" => \A f \in Files : Covered(h, f)
  BY DEF IInv, NewHostsAreUnused, StreamsAreWhole, SessionsCoverStarts

LEMMA NoHostIsNone == NoHost \notin Hosts
  BY UploadAssumption DEF NoHost, Hosts

LEMMA GetDeviceObjKeeps ==
    ASSUME IInv, NEW call \in {"start", "chunk", "stop"}, NEW f \in Files, GetDeviceObj(call, f)
    PROVE  IInv'
<1>1. TypeOK /\ CurrentIsTheLiveHost /\ WorkerIsOnAHost /\ OpenFilesHaveSessions
  BY DEF IInv
<1>2. PICK h \in Hosts : h = current
  BY <1>1 DEF GetDeviceObj, TypeOK
<1>3. /\ UNCHANGED <<phase, current, closing, queue, writing, writeBuff, sessions, begun, pushed, got,
                     starts, stops, damaged, open, lost, late, worker, sending>>
      /\ sending = NoHost /\ current # NoHost
      /\ calling' = [at |-> call, host |-> h, file |-> f]
  BY <1>2 DEF GetDeviceObj, hostVars, bufferVars, fileVars, historyVars
<1>4. CallFits'
  BY <1>3 DEF CallFits
<1>5. TypeOK' /\ CurrentIsTheLiveHost' /\ WorkerIsOnAHost' /\ OpenFilesHaveSessions'
  BY <1>1, <1>3, GetDeviceObjType, CurrentKept, WorkerKept, OpenKept
<1>6. \A k \in Hosts \ {h} : Untouched(k)
  BY <1>2, GetDeviceObjFrame
<1>7. Unused(h)'
  <2>1. phase[h] # "new"
    BY <1>1, <1>2, <1>3 DEF CurrentIsTheLiveHost
  <2> QED
    BY <1>3, <2>1, UsedHost
<1>8. ASSUME h \notin damaged', InUse(h)' PROVE StreamOf(h)'
  <2>1. StreamOf(h)
    BY <1>3, <1>8, OnHost DEF InUse
  <2>2. Num(Spins(h))' = Num(Spins(h)) /\ Num(sending = h)' = Num(sending = h)
    BY <1>3 DEF Spins
  <2> QED
    BY <1>3, <2>1, <2>2 DEF StreamOf
<1>9. ASSUME damaged' = {}, phase'[h] = "live", NEW g \in Files PROVE Covered(h, g)'
  <2>1. Covered(h, g)
    BY <1>3, <1>9, OnHost
  <2>2. /\ Num(begun[h][g] # "no")' = Num(begun[h][g] # "no")
        /\ Num(Answered(h, g))' = Num(Answered(h, g))
    BY <1>3 DEF Answered
  <2> QED
    BY <1>3, <2>1, <2>2 DEF Covered
<1> QED
  BY <1>3, <1>4, <1>5, <1>6, <1>7, <1>8, <1>9, StepOnHost

\* A message that overflows the buffer damages the stream.
LEMMA NoOverflow ==
    ASSUME TypeOK, NEW h \in Hosts, NEW n \in {1, 2}, MarkDamage(h, Overflows(h, n)), h \notin damaged'
    PROVE  /\ Len(queue[h]) + n <= Capacity
           /\ Len(queue[h]) < Capacity
<1>1. ~ (Len(queue[h]) + n > Capacity)
  BY DEF MarkDamage, Overflows
<1>2. Len(queue[h]) \in Nat /\ Capacity \in Nat
  BY HostTypes, LenIsNat, UploadAssumption
<1> QED
  BY <1>1, <1>2

LEMMA OnStartUploadKeeps ==
    ASSUME IInv, OnStartUpload
    PROVE  IInv'
<1>1. TypeOK /\ CurrentIsTheLiveHost /\ WorkerIsOnAHost /\ CallFits /\ OpenFilesHaveSessions
  BY DEF IInv
<1>0. PICK h \in Hosts, f \in Files : h = calling.host /\ f = calling.file
  BY <1>1, CallFacts DEF OnStartUpload
<1>2. /\ UNCHANGED <<phase, current, closing, writing, writeBuff, worker, begun, fileState, faults, got,
                     stops>>
      /\ sending = NoHost /\ sending' = h
      /\ calling.at = "start"
      /\ open' = open \cup {f}
      /\ lost' = lost \ {f}
      /\ late' = IF phase[h] = "live" THEN late \ {f} ELSE late \cup {f}
      /\ CallFits'
  BY <1>0, <1>1, CallFacts DEF OnStartUpload, hostVars, Call
<1>3. TypeOK' /\ CurrentIsTheLiveHost' /\ WorkerIsOnAHost'
  BY <1>1, <1>2, OnStartUploadType, CurrentKept, WorkerKept
<1>4. \A k \in Hosts \ {h} : Untouched(k)
  BY <1>0, <1>1, OnStartUploadFrame
<1>9. Unused(h)'
  <2>1. phase[h] # "new"
    BY <1>0, OnHost DEF Unused
  <2> QED
    BY <1>2, <2>1, UsedHost
<1>5. CASE phase[h] # "live"
  <2>1. /\ damaged \subseteq damaged'
        /\ \A k \in Hosts : phase[k] = "live" => sessions'[k] = sessions[k]
    <3>1. CASE phase[h] = "deleted"
      BY <1>0, <3>1 DEF OnStartUpload
    <3>2. CASE phase[h] # "deleted"
      BY <1>0, <1>1, <1>5, <3>2 DEF OnStartUpload, AddSession, MarkDamage, TypeOK
    <3> QED
      BY <3>1, <3>2
  <2>2. OpenFilesHaveSessions'
    BY <1>1, <1>2, <1>5, <2>1, OpenNarrowed
  <2>3. phase'[h] # "live" /\ ~ InUse(h)'
    BY <1>2, <1>5 DEF InUse
  <2> QED
    BY <1>2, <1>3, <1>4, <1>9, <2>1, <2>2, <2>3, StepOnHost
<1>6. CASE phase[h] = "live"
  <2> DEFINE m == [kind |-> "start", file |-> f, n |-> pushed[h] + 1]
  <2>1. phase[h] = "live" /\ phase'[h] = "live"
    BY <1>2, <1>6
  <2>2. /\ AddSession(h, f)
        /\ MarkDamage(h, Overflows(h, 1))
        /\ Push(h, "start", f)
        /\ starts' = [starts EXCEPT ![h] = @ + 1]
        /\ late' = late \ {f}
    BY <1>0, <1>2, <1>6 DEF OnStartUpload
  <2>3. /\ sessions'[h] = Append(sessions[h], f)
        /\ \A k \in Hosts \ {h} : sessions'[k] = sessions[k]
    BY <1>1, <2>1, <2>2 DEF AddSession, TypeOK
  <2>4. starts'[h] = starts[h] + 1 /\ pushed'[h] = pushed[h] + 1
    BY <1>1, <2>1, <2>2 DEF TypeOK, Push
  <2>5. damaged \subseteq damaged'
    BY <2>2 DEF MarkDamage
  <2>6. m \in Message /\ m.kind = "start" /\ m.file = f /\ m.n = pushed[h] + 1
    BY <1>1, <2>1, NewMessage
  <2>7. queue'[h] = Put(queue[h], m)
    BY <1>1, <2>1, <2>2 DEF Push, TypeOK
  <2> HIDE DEF m
  <2>8. /\ queue[h] \in Seq(Messages) /\ Len(queue[h]) <= Capacity
        /\ writing[h] \in Seq(Message \cup {Nothing})
        /\ sessions[h] \in Seq(Files)
        /\ pushed[h] \in Nat /\ got[h] \in Nat /\ starts[h] \in Nat /\ stops[h] \in Nat
    BY <1>1, <2>1, HostTypes
  <2>9. h \notin damaged' => queue'[h] = Append(queue[h], m)
    <3> SUFFICES ASSUME h \notin damaged' PROVE queue'[h] = Append(queue[h], m)
      OBVIOUS
    <3>1. Len(queue[h]) < Capacity
      BY <1>1, <2>1, <2>2, NoOverflow
    <3>2. m \in Messages
      BY <2>6 DEF Messages
    <3> QED
      BY <2>7, <2>8, <3>1, <3>2, PutFacts
  <2>11. ASSUME h \notin damaged', InUse(h)' PROVE StreamOf(h)'
    <3>1. StreamOf(h)
      BY <1>2, <2>1, <2>5, <2>11, OnHost DEF InUse
    <3>2. Num(sending = h) = 0 /\ Num(sending' = h) = 1
      BY <1>2, NoHostIsNone DEF Num
    <3>3. StreamOK(queue[h], writing[h], writeBuff[h], Num(Spins(h)), 0,
                   pushed[h], got[h], starts[h], stops[h])
      BY <3>1, <3>2 DEF StreamOf
    <3>4. Num(Spins(h)) \in {0, 1}
      BY DEF Num
    <3>5. StreamOK(Append(queue[h], m), writing[h], writeBuff[h], Num(Spins(h)), 1,
                   pushed[h] + 1, got[h], starts[h] + 1, stops[h])
      BY <2>6, <2>8, <3>3, <3>4, StreamPushed
    <3>6. Num(Spins(h))' = Num(Spins(h))
      BY <1>2 DEF Spins
    <3>7. /\ writing'[h] = writing[h] /\ writeBuff'[h] = writeBuff[h]
          /\ got'[h] = got[h] /\ stops'[h] = stops[h]
      BY <1>2, <2>2
    <3>8. Num(sending = h)' = 1
      BY <1>2 DEF Num
    <3> QED
      BY <2>4, <2>9, <2>11, <3>5, <3>6, <3>7, <3>8 DEF StreamOf
  <2>12. ASSUME damaged' = {}, NEW g \in Files PROVE Covered(h, g)'
    <3>1. Covered(h, g)
      BY <2>1, <2>5, <2>12, OnHost
    <3>2. Num(begun[h][g] # "no") \in {0, 1} /\ Num(Answered(h, g)) \in {0, 1}
      BY DEF Num
    <3>3. CoverOK(Append(queue[h], m), writing[h], Append(sessions[h], f),
                  Num(begun[h][g] # "no"), Num(Answered(h, g)), g)
      <4> DEFINE bg == Num(begun[h][g] # "no")
                 an == Num(Answered(h, g))
      <4>1. bg \in {0, 1} /\ an \in {0, 1} /\ CoverOK(queue[h], writing[h], sessions[h], bg, an, g)
        BY <3>1, <3>2 DEF Covered
      <4> HIDE DEF bg, an
      <4>2. CoverOK(Append(queue[h], m), writing[h], Append(sessions[h], f), bg, an, g)
        BY <2>6, <2>8, <4>1, CoverStarted
      <4> QED
        BY <4>2 DEF bg, an
    <3>4. Num(begun[h][g] # "no")' = Num(begun[h][g] # "no")
      BY <1>2
    <3>5. Num(Answered(h, g))' = Num(Answered(h, g))
      BY <1>2 DEF Answered
    <3>6. queue'[h] = Append(queue[h], m) /\ writing'[h] = writing[h]
      BY <1>2, <2>9, <2>12
    <3> QED
      BY <2>3, <3>3, <3>4, <3>5, <3>6 DEF Covered
  <2>13. OpenFilesHaveSessions'
    <3> SUFFICES ASSUME damaged' = {}, NEW g \in open' \ (lost' \cup late')
                 PROVE  \E k \in Hosts : phase'[k] = "live"
                                         /\ Num(Answered(k, g))' < Count(sessions'[k], {g})
      BY DEF OpenFilesHaveSessions
    <3>1. \A k \in Hosts : Num(Answered(k, g))' = Num(Answered(k, g))
      BY <1>2 DEF Answered
    <3>2. damaged = {}
      BY <2>5
    <3>3. g \in Files
      BY <1>3 DEF TypeOK
    <3>4. Num(g \in {g}) = 1 /\ Num(f \in {g}) \in Nat /\ Num(Answered(h, g)) \in Nat
      BY DEF Num
    <3>5. Count(sessions'[h], {g}) = Count(sessions[h], {g}) + Num(f \in {g})
      BY <2>3, <2>8, CountAppend
    <3>6. Count(sessions[h], {g}) \in Nat
      BY <2>8, CountType
    <3>7. CASE g = f
      <4>1. Covered(h, f)
        BY <2>1, <3>2, OnHost
      <4>2. /\ Count(queue[h], StartsOf(f)) \in Nat
            /\ Count(writing[h], StartsOf(f)) \in Nat
            /\ Num(begun[h][f] # "no") \in Nat
        BY <2>8, CountType DEF Num
      <4>3. Num(Answered(h, f)) <= Count(sessions[h], {f})
        BY <4>1, <4>2, <3>4, <3>6, <3>7 DEF Covered, CoverOK
      <4> QED
        BY <4>3, <3>1, <3>4, <3>5, <3>6, <3>7, <2>1
    <3>8. CASE g # f
      <4>1. g \in open \ (lost \cup late)
        BY <1>2, <2>2, <3>8
      <4>2. PICK k \in Hosts : phase[k] = "live" /\ Num(Answered(k, g)) < Count(sessions[k], {g})
        BY <3>2, <4>1, <1>1 DEF OpenFilesHaveSessions
      <4>3. phase'[k] = "live"
        BY <1>2, <4>2
      <4>4. CASE k = h
        BY <4>2, <4>3, <4>4, <3>1, <3>4, <3>5, <3>6
      <4>5. CASE k # h
        BY <4>2, <4>3, <4>5, <3>1, <2>3
      <4> QED
        BY <4>4, <4>5
    <3> QED
      BY <3>7, <3>8
  <2> QED
    BY <1>2, <1>3, <1>4, <1>9, <2>5, <2>11, <2>12, <2>13, StepOnHost
<1> QED
  BY <1>5, <1>6

LEMMA OnUploadingKeeps ==
    ASSUME IInv, OnUploading
    PROVE  IInv'
<1>1. TypeOK /\ CurrentIsTheLiveHost /\ WorkerIsOnAHost /\ CallFits /\ OpenFilesHaveSessions
  BY DEF IInv
<1>2. PICK h \in Hosts, f \in Files : h = calling.host /\ f = calling.file
  BY <1>1, CallFacts DEF OnUploading
<1>3. /\ UNCHANGED <<phase, current, closing, writing, writeBuff, sessions, open, lost, late, got, starts,
                     stops, worker, sending, begun>>
      /\ sending = NoHost /\ calling.at = "chunk"
      /\ CallFits'
  BY <1>1, CallFacts DEF OnUploading, hostVars, fileVars, Call
<1>4. damaged \subseteq damaged'
  BY DEF OnUploading, MarkDamage
<1>5. TypeOK' /\ CurrentIsTheLiveHost' /\ WorkerIsOnAHost' /\ OpenFilesHaveSessions'
  BY <1>1, <1>3, <1>4, OnUploadingType, CurrentKept, WorkerKept, OpenKept
<1>6. \A k \in Hosts \ {h} : Untouched(k)
  BY <1>1, <1>2, OnUploadingFrame
<1>15. Unused(h)'
  <2>1. phase[h] # "new"
    BY <1>2, OnHost DEF Unused
  <2> QED
    BY <1>3, <2>1, UsedHost
<1>16. CASE phase[h] # "live"
  <2>1. phase'[h] # "live" /\ ~ InUse(h)'
    BY <1>3, <1>16 DEF InUse
  <2> QED
    BY <1>3, <1>4, <1>5, <1>6, <1>15, <2>1, StepOnHost
<1>17. CASE phase[h] = "live"
  <2> DEFINE m == [kind |-> "data", file |-> f, n |-> pushed[h] + 1]
  <2>8. m \in Message /\ m.kind = "data" /\ m.n = pushed[h] + 1
    BY <1>1, NewMessage
  <2>7. MarkDamage(h, Overflows(h, 1)) /\ Push(h, "data", f)
    BY <1>2, <1>17 DEF OnUploading
  <2>9. queue'[h] = Put(queue[h], m) /\ pushed'[h] = pushed[h] + 1
    BY <1>1, <2>7 DEF Push, TypeOK
  <2> HIDE DEF m
  <2>10. /\ queue[h] \in Seq(Messages) /\ Len(queue[h]) <= Capacity
         /\ writing[h] \in Seq(Message \cup {Nothing})
         /\ sessions[h] \in Seq(Files)
         /\ pushed[h] \in Nat /\ got[h] \in Nat /\ starts[h] \in Nat /\ stops[h] \in Nat
    BY <1>1, HostTypes
  <2>11. m \in Messages
    BY <2>8 DEF Messages
  <2>12. h \notin damaged' => queue'[h] = Append(queue[h], m)
    <3> SUFFICES ASSUME h \notin damaged' PROVE queue'[h] = Append(queue[h], m)
      OBVIOUS
    <3>1. Len(queue[h]) < Capacity
      BY <1>1, <2>7, NoOverflow
    <3> QED
      BY <2>9, <2>10, <2>11, <3>1, PutFacts
  <2>13. ASSUME h \notin damaged', InUse(h)' PROVE StreamOf(h)'
    <3>1. StreamOf(h)
      BY <1>3, <1>4, <2>13, OnHost DEF InUse
    <3>2. Num(sending = h) = 0
      BY <1>3, NoHostIsNone DEF Num
    <3>3. StreamOK(queue[h], writing[h], writeBuff[h], Num(Spins(h)), 0,
                   pushed[h], got[h], starts[h], stops[h])
      BY <3>1, <3>2 DEF StreamOf
    <3>4. Num(Spins(h)) \in {0, 1}
      BY DEF Num
    <3>5. StreamOK(Append(queue[h], m), writing[h], writeBuff[h], Num(Spins(h)), 0,
                   pushed[h] + 1, got[h], starts[h] + 0, stops[h])
      BY <2>8, <2>10, <3>3, <3>4, StreamPushed
    <3>6. starts[h] + 0 = starts[h]
      BY <2>10
    <3>7. Num(Spins(h))' = Num(Spins(h)) /\ Num(sending = h)' = 0
      BY <1>3, <3>2 DEF Spins
    <3> QED
      BY <1>3, <2>9, <2>12, <2>13, <3>5, <3>6, <3>7 DEF StreamOf
  <2>14. ASSUME damaged' = {}, NEW g \in Files PROVE Covered(h, g)'
    <3>1. Covered(h, g)
      BY <1>4, <1>17, <2>14, OnHost
    <3>2. Num(begun[h][g] # "no") \in {0, 1} /\ Num(Answered(h, g)) \in {0, 1}
      BY DEF Num
    <3>3. CoverOK(Append(queue[h], m), writing[h], sessions[h],
                  Num(begun[h][g] # "no"), Num(Answered(h, g)), g)
      BY <2>8, <2>10, <2>11, <3>1, <3>2, CoverPushed DEF Covered
    <3>4. Num(begun[h][g] # "no")' = Num(begun[h][g] # "no")
      BY <1>3
    <3>5. Num(Answered(h, g))' = Num(Answered(h, g))
      BY <1>3 DEF Answered
    <3> QED
      BY <1>3, <2>12, <2>14, <3>3, <3>4, <3>5 DEF Covered
  <2> QED
    BY <1>3, <1>4, <1>5, <1>6, <1>15, <2>13, <2>14, StepOnHost
<1> QED
  BY <1>16, <1>17

LEMMA OnStopUploadKeeps ==
    ASSUME IInv, OnStopUpload
    PROVE  IInv'
<1>1. TypeOK /\ CurrentIsTheLiveHost /\ WorkerIsOnAHost /\ CallFits /\ OpenFilesHaveSessions
  BY DEF IInv
<1>0. PICK h \in Hosts, f \in Files : h = calling.host /\ f = calling.file
  BY <1>1, CallFacts DEF OnStopUpload
<1>2. /\ UNCHANGED <<phase, current, closing, writing, writeBuff, sessions, open, lost, late, got, starts,
                     worker, sending, begun>>
      /\ sending = NoHost /\ calling.at = "stop"
      /\ CallFits'
  BY <1>1, CallFacts DEF OnStopUpload, hostVars, fileVars, Call
<1>3. damaged \subseteq damaged'
  BY DEF OnStopUpload, MarkDamage
<1>4. TypeOK' /\ CurrentIsTheLiveHost' /\ WorkerIsOnAHost' /\ OpenFilesHaveSessions'
  BY <1>1, <1>2, <1>3, OnStopUploadType, CurrentKept, WorkerKept, OpenKept
<1>5. \A k \in Hosts \ {h} : Untouched(k)
  BY <1>0, <1>1, OnStopUploadFrame
<1>8. Unused(h)'
  <2>1. phase[h] # "new"
    BY <1>0, OnHost DEF Unused
  <2> QED
    BY <1>2, <2>1, UsedHost
<1>6. CASE phase[h] # "live"
  <2>1. phase'[h] # "live" /\ ~ InUse(h)'
    BY <1>2, <1>6 DEF InUse
  <2> QED
    BY <1>2, <1>3, <1>4, <1>5, <1>8, <2>1, StepOnHost
<1>7. CASE phase[h] = "live"
  <2>1. phase'[h] = "live"
    BY <1>2, <1>7
  <2> DEFINE m == [kind |-> "stop", file |-> f, n |-> pushed[h] + 1]
             e == [kind |-> "end", file |-> NoFile, n |-> m.n + 1]
  <2>2. /\ MarkDamage(h, Overflows(h, 2))
        /\ queue' = [queue EXCEPT ![h] = PutStop(queue[h], m)]
        /\ pushed' = [pushed EXCEPT ![h] = @ + 2]
        /\ stops' = [stops EXCEPT ![h] = @ + 1]
    BY <1>0, <1>7 DEF OnStopUpload
  <2>3. m \in Message /\ m.kind = "stop" /\ m.n = pushed[h] + 1
    BY <1>1, NewMessage
  <2>4. queue'[h] = PutStop(queue[h], m) /\ pushed'[h] = pushed[h] + 2 /\ stops'[h] = stops[h] + 1
    BY <1>1, <2>2 DEF TypeOK
  <2>5. /\ queue[h] \in Seq(Messages) /\ Len(queue[h]) <= Capacity
        /\ writing[h] \in Seq(Message \cup {Nothing})
        /\ sessions[h] \in Seq(Files)
        /\ pushed[h] \in Nat /\ got[h] \in Nat /\ starts[h] \in Nat /\ stops[h] \in Nat
    BY <1>1, HostTypes
  <2>6. e.n = pushed[h] + 2 /\ e.kind = "end"
    BY <2>3, <2>5
  <2>7. e \in Terminator
    <3> HIDE DEF m
    <3>1. m.n + 1 \in Nat
      BY <2>3, <2>5
    <3> QED
      BY <3>1 DEF Terminator
  <2>8. h \notin damaged' => queue'[h] = Append(Append(queue[h], m), e)
    <3> HIDE DEF m
    <3> SUFFICES ASSUME h \notin damaged' PROVE queue'[h] = Append(Append(queue[h], m), e)
      OBVIOUS
    <3>1. Len(queue[h]) + 2 <= Capacity
      BY <1>1, <2>2, NoOverflow
    <3> QED
      BY <2>3, <2>4, <2>5, <3>1, PutStopFacts
  <2> HIDE DEF e, m
  <2>9. m \in Messages /\ e \in Messages
    BY <2>3, <2>7 DEF Messages
  <2>10. ASSUME h \notin damaged', InUse(h)' PROVE StreamOf(h)'
    <3>1. StreamOf(h)
      BY <1>2, <1>3, <2>10, OnHost DEF InUse
    <3>2. Num(sending = h) = 0
      BY <1>2, NoHostIsNone DEF Num
    <3>3. StreamOK(queue[h], writing[h], writeBuff[h], Num(Spins(h)), 0,
                   pushed[h], got[h], starts[h], stops[h])
      BY <3>1, <3>2 DEF StreamOf
    <3>4. Num(Spins(h)) \in {0, 1}
      BY DEF Num
    <3>5. StreamOK(Append(Append(queue[h], m), e), writing[h], writeBuff[h], Num(Spins(h)), 0,
                   pushed[h] + 2, got[h], starts[h], stops[h] + 1)
      <4> DEFINE sp == Num(Spins(h))
                 b  == writeBuff[h]
                 z  == Append(Append(queue[h], m), e)
      <4>1. /\ sp \in {0, 1}
            /\ StreamOK(queue[h], writing[h], b, sp, 0, pushed[h], got[h], starts[h], stops[h])
        BY <3>3, <3>4
      <4> HIDE DEF sp, b
      <4>2. StreamOK(z, writing[h], b, sp, 0, pushed[h] + 2, got[h], starts[h], stops[h] + 1)
        <5> DEFINE q  == queue[h]
                   v  == writing[h]
                   p  == pushed[h]
                   g  == got[h]
                   s0 == starts[h]
                   t0 == stops[h]
        <5>1. /\ q \in Seq(Messages) /\ v \in Seq(Message \cup {Nothing})
              /\ p \in Nat /\ g \in Nat /\ s0 \in Nat /\ t0 \in Nat
              /\ m \in Message /\ m.n = p + 1 /\ e \in Terminator /\ e.n = p + 2
              /\ StreamOK(q, v, b, sp, 0, p, g, s0, t0)
          BY <2>3, <2>5, <2>6, <2>7, <4>1
        <5> HIDE DEF q, v, p, g, s0, t0
        <5>2. StreamOK(Append(Append(q, m), e), v, b, sp, 0, p + 2, g, s0, t0 + 1)
          BY <4>1, <5>1, StreamStopped
        <5> QED
          BY <5>2 DEF q, v, p, g, s0, t0
      <4> QED
        BY <4>2 DEF sp, b
    <3>6. Num(Spins(h))' = Num(Spins(h)) /\ Num(sending = h)' = 0
      BY <1>2, <3>2 DEF Spins
    <3> QED
      BY <1>2, <2>4, <2>8, <2>10, <3>5, <3>6 DEF StreamOf
  <2>11. ASSUME damaged' = {}, NEW g \in Files PROVE Covered(h, g)'
    <3>1. Covered(h, g)
      BY <1>3, <1>7, <2>11, OnHost
    <3>2. Num(begun[h][g] # "no") \in {0, 1} /\ Num(Answered(h, g)) \in {0, 1}
      BY DEF Num
    <3>3. CoverOK(queue[h], writing[h], sessions[h], Num(begun[h][g] # "no"), Num(Answered(h, g)), g)
      BY <3>1 DEF Covered
    <3>5. CoverOK(Append(Append(queue[h], m), e), writing[h], sessions[h],
                  Num(begun[h][g] # "no"), Num(Answered(h, g)), g)
      <4> DEFINE q  == queue[h]
                 v  == writing[h]
                 ss == sessions[h]
                 bg == Num(begun[h][g] # "no")
                 an == Num(Answered(h, g))
      <4>1. /\ q \in Seq(Messages) /\ v \in Seq(Message \cup {Nothing}) /\ ss \in Seq(Files)
            /\ bg \in {0, 1} /\ an \in {0, 1} /\ CoverOK(q, v, ss, bg, an, g)
            /\ m \in Messages /\ m.kind # "start" /\ e \in Messages /\ e.kind # "start"
        BY <2>3, <2>5, <2>6, <2>9, <3>2, <3>3
      <4> HIDE DEF q, v, ss, bg, an
      <4>2. Append(q, m) \in Seq(Messages)
        BY <4>1
      <4>3. CoverOK(Append(q, m), v, ss, bg, an, g)
        BY <4>1, CoverPushed
      <4>4. CoverOK(Append(Append(q, m), e), v, ss, bg, an, g)
        BY <4>1, <4>2, <4>3, CoverPushed
      <4> QED
        BY <4>4 DEF q, v, ss, bg, an
    <3>6. Num(begun[h][g] # "no")' = Num(begun[h][g] # "no")
      BY <1>2
    <3>7. Num(Answered(h, g))' = Num(Answered(h, g))
      BY <1>2 DEF Answered
    <3> QED
      BY <1>2, <2>8, <2>11, <3>5, <3>6, <3>7 DEF Covered
  <2> QED
    BY <1>2, <1>3, <1>4, <1>5, <1>8, <2>10, <2>11, StepOnHost
<1> QED
  BY <1>6, <1>7

-------------------------------------------------------------------------------

(***************************************************************************)
(* The connection of the device keeps the invariant.                       *)
(***************************************************************************)

LEMMA PeerGoneKeeps ==
    ASSUME IInv, NEW h \in Hosts, PeerGone(h)
    PROVE  IInv'
<1>0. CallFits'
  BY CallKept DEF IInv, PeerGone, clientVars
<1>1. TypeOK /\ CurrentIsTheLiveHost /\ WorkerIsOnAHost /\ OpenFilesHaveSessions
  BY DEF IInv
<1>2. UNCHANGED <<phase, current, closing, damaged, sessions, open, lost, late, worker>>
  BY DEF PeerGone, fileVars, historyVars
<1>3. TypeOK' /\ CurrentIsTheLiveHost' /\ WorkerIsOnAHost' /\ OpenFilesHaveSessions'
  BY <1>1, <1>2, PeerGoneType, CurrentKept, WorkerKept, OpenKept
<1>4. \A k \in Hosts \ {NoHost} : Untouched(k)
  BY PeerGoneFrame
<1> QED
  BY <1>2, <1>3, <1>4, NoHostIsNone, <1>0, StepOnHost

LEMMA DelDeviceKeeps ==
    ASSUME IInv, NEW h \in Hosts, DelDevice(h)
    PROVE  IInv'
<1>0. CallFits'
  BY CallKept DEF IInv, DelDevice, clientVars
<1>1. TypeOK /\ CurrentIsTheLiveHost /\ WorkerIsOnAHost /\ OpenFilesHaveSessions
  BY DEF IInv
<1>2. /\ UNCHANGED <<phase, current, damaged, sessions, open, lost, late, worker>>
      /\ current = h /\ closing = NoHost /\ closing' = h
  BY DEF DelDevice, fileVars, historyVars
<1>3. CurrentIsTheLiveHost'
  BY <1>1, <1>2, NoHostIsNone DEF CurrentIsTheLiveHost
<1>4. TypeOK' /\ WorkerIsOnAHost' /\ OpenFilesHaveSessions'
  BY <1>1, <1>2, DelDeviceType, WorkerKept, OpenKept
<1>5. \A k \in Hosts \ {NoHost} : Untouched(k)
  BY <1>1, DelDeviceFrame
<1> QED
  BY <1>2, <1>3, <1>4, <1>5, NoHostIsNone, <1>0, StepOnHost

LEMMA RegisterKeeps ==
    ASSUME IInv, NEW h \in Hosts, Register(h)
    PROVE  IInv'
<1>0. CallFits'
  BY CallKept DEF IInv, Register, clientVars
<1>1. TypeOK /\ CurrentIsTheLiveHost /\ WorkerIsOnAHost /\ OpenFilesHaveSessions /\ Unused(h)
  BY OnHost DEF IInv
<1>2. /\ UNCHANGED <<closing, queue, writing, writeBuff, sessions, begun, pushed, got, starts, stops,
                     damaged, open, lost, late, worker, sending>>
      /\ current = NoHost /\ closing = NoHost /\ phase[h] = "new"
      /\ phase' = [phase EXCEPT ![h] = "live"] /\ current' = h
  BY DEF Register, bufferVars, fileVars, historyVars
<1>3. phase'[h] = "live" /\ \A k \in Hosts \ {h} : phase'[k] = phase[k]
  BY <1>1, <1>2 DEF TypeOK
<1>4. CurrentIsTheLiveHost'
  <2>1. \A k \in Hosts : phase[k] \notin {"live", "broken"}
    BY <1>1, <1>2, NoHostIsNone DEF CurrentIsTheLiveHost
  <2> QED
    BY <1>2, <1>3, <2>1 DEF CurrentIsTheLiveHost
<1>5. TypeOK' /\ WorkerIsOnAHost'
  BY <1>1, <1>2, RegisterType, WorkerKept
<1>6. \A k \in Hosts \ {h} : Untouched(k)
  BY <1>1, RegisterFrame
<1>7. OpenFilesHaveSessions'
  <2> SUFFICES ASSUME damaged' = {}, NEW f \in open' \ (lost' \cup late')
               PROVE  \E k \in Hosts :
                          phase'[k] = "live" /\ Num(Answered(k, f))' < Count(sessions'[k], {f})
    BY DEF OpenFilesHaveSessions
  <2>1. PICK k \in Hosts : phase[k] = "live" /\ Num(Answered(k, f)) < Count(sessions[k], {f})
    BY <1>1, <1>2 DEF OpenFilesHaveSessions
  <2>2. k # h
    BY <1>2, <2>1
  <2>3. Num(Answered(k, f))' = Num(Answered(k, f))
    BY <1>2 DEF Answered
  <2> QED
    BY <1>2, <1>3, <2>1, <2>2, <2>3
<1>8. /\ queue[h] = <<>> /\ writing[h] = <<>> /\ sessions[h] = <<>>
      /\ pushed[h] = 0 /\ got[h] = 0 /\ starts[h] = 0 /\ stops[h] = 0
      /\ \A f \in Files : begun[h][f] = "no"
      /\ worker.host # h /\ sending # h
  BY <1>1, <1>2 DEF Unused
<1>9. StreamOf(h)'
  <2>1. Num(Spins(h))' = 0 /\ Num(sending = h)' = 0
    BY <1>2, <1>8 DEF Spins, Num
  <2>2. Len(<<>>) = 0 /\ Count(<<>>, Terminator) = 0
    BY CountEmpty
  <2>3. StreamOK(<<>>, <<>>, writeBuff[h], 0, 0, 0, 0, 0, 0)
    BY <2>2 DEF StreamOK
  <2> QED
    BY <1>2, <1>8, <2>1, <2>3 DEF StreamOf
<1>10. ASSUME NEW f \in Files PROVE Covered(h, f)'
  <2>1. Num(begun[h][f] # "no")' = 0 /\ Num(Answered(h, f))' = 0
    BY <1>2, <1>8 DEF Num, Answered
  <2>2. CoverOK(<<>>, <<>>, <<>>, 0, 0, f)
    BY CountEmpty DEF CoverOK
  <2> QED
    BY <1>2, <1>8, <2>1, <2>2 DEF Covered
<1>11. Unused(h)'
  BY <1>3, UsedHost
<1> QED
  BY <1>2, <1>4, <1>5, <1>6, <1>7, <1>9, <1>10, <1>11, <1>0, StepOnHost

LEMMA OnBrokenKeeps ==
    ASSUME IInv, NEW h \in Hosts, OnBroken(h)
    PROVE  IInv'
<1>0. CallFits'
  BY CallKept DEF IInv, OnBroken, clientVars
<1>1. TypeOK /\ CurrentIsTheLiveHost /\ WorkerIsOnAHost /\ OpenFilesHaveSessions
  BY DEF IInv
<1>2. /\ closing = h /\ phase[h] = "live"
      /\ phase' = [phase EXCEPT ![h] = "broken"]
      /\ UNCHANGED <<current, closing, late, damaged, worker>>
  BY DEF OnBroken, historyVars
<1>3. phase'[h] = "broken" /\ \A k \in Hosts \ {h} : phase'[k] = phase[k]
  BY <1>1, <1>2 DEF TypeOK
<1>4. CurrentIsTheLiveHost'
  BY <1>1, <1>2, <1>3 DEF CurrentIsTheLiveHost
<1>5. TypeOK' /\ WorkerIsOnAHost'
  BY <1>1, <1>2, OnBrokenType, WorkerKept
<1>6. \A k \in Hosts \ {h} : Untouched(k)
  BY <1>1, OnBrokenFrame
<1>7. OpenFilesHaveSessions'
  <2>1. PICK failing \in SUBSET ToSet(sessions[h]) :
            /\ open' = open \ (ToSet(sessions[h]) \ failing)
            /\ lost' = lost \cup failing
    BY DEF OnBroken, UpdateFileInfo
  <2> SUFFICES ASSUME damaged' = {}, NEW f \in open' \ (lost' \cup late') PROVE FALSE
    BY DEF OpenFilesHaveSessions
  <2>2. f \in open \ (lost \cup late) /\ f \notin ToSet(sessions[h])
    BY <1>2, <2>1
  <2>3. PICK k \in Hosts : phase[k] = "live" /\ Num(Answered(k, f)) < Count(sessions[k], {f})
    BY <1>1, <1>2, <2>2 DEF OpenFilesHaveSessions
  <2>4. k = h
    BY <1>1, <1>2, <2>3, NoHostIsNone DEF CurrentIsTheLiveHost
  <2>5. Count(sessions[h], {f}) > 0
    <3>1. Num(Answered(h, f)) \in Nat /\ Count(sessions[h], {f}) \in Nat
      BY <1>1, HostTypes, CountType DEF Num
    <3> QED
      BY <2>3, <2>4, <3>1
  <2> QED
    BY <1>1, <2>2, <2>5, HostTypes, CountPositive
<1>8. Unused(h)' /\ ~ InUse(h)' /\ phase'[h] # "live"
  BY <1>3, UsedHost DEF InUse
<1> QED
  BY <1>2, <1>4, <1>5, <1>6, <1>7, <1>8, <1>0, StepOnHost

LEMMA DeleteKeeps ==
    ASSUME IInv, NEW h \in Hosts, Delete(h)
    PROVE  IInv'
<1>0. CallFits'
  BY CallKept DEF IInv, Delete, clientVars
<1>1. TypeOK /\ CurrentIsTheLiveHost /\ WorkerIsOnAHost /\ OpenFilesHaveSessions
  BY DEF IInv
<1>2. /\ closing = h /\ phase[h] = "broken"
      /\ phase' = [phase EXCEPT ![h] = "deleted"]
      /\ current' = NoHost /\ closing' = NoHost
      /\ UNCHANGED <<sessions, open, lost, late, damaged, worker>>
  BY DEF Delete, fileVars
<1>3. phase'[h] = "deleted" /\ \A k \in Hosts \ {h} : phase'[k] = phase[k]
  BY <1>1, <1>2 DEF TypeOK
<1>4. CurrentIsTheLiveHost'
  <2>1. current = h
    BY <1>1, <1>2 DEF CurrentIsTheLiveHost
  <2>2. \A k \in Hosts \ {h} : phase[k] \notin {"live", "broken"}
    BY <1>1, <2>1 DEF CurrentIsTheLiveHost
  <2> QED
    BY <1>2, <1>3, <2>2 DEF CurrentIsTheLiveHost
<1>5. TypeOK' /\ WorkerIsOnAHost'
  BY <1>1, <1>2, DeleteType, WorkerKept
<1>6. \A k \in Hosts \ {h} : Untouched(k)
  BY <1>1, DeleteFrame
<1>7. OpenFilesHaveSessions'
  <2> SUFFICES ASSUME damaged' = {}, NEW f \in open' \ (lost' \cup late')
               PROVE  \E k \in Hosts :
                          phase'[k] = "live" /\ Num(Answered(k, f))' < Count(sessions'[k], {f})
    BY DEF OpenFilesHaveSessions
  <2>1. PICK k \in Hosts : phase[k] = "live" /\ Num(Answered(k, f)) < Count(sessions[k], {f})
    BY <1>1, <1>2 DEF OpenFilesHaveSessions
  <2>2. k # h
    BY <1>2, <2>1
  <2>3. Num(Answered(k, f))' = Num(Answered(k, f))
    BY <1>2 DEF Answered
  <2> QED
    BY <1>2, <1>3, <2>1, <2>2, <2>3
<1>8. Unused(h)' /\ ~ InUse(h)' /\ phase'[h] # "live"
  BY <1>3, UsedHost DEF InUse
<1> QED
  BY <1>2, <1>4, <1>5, <1>6, <1>7, <1>8, <1>0, StepOnHost

-------------------------------------------------------------------------------

(***************************************************************************)
(* The write loops keep the invariant.                                     *)
(***************************************************************************)

\* The number of write loops of a host.
LEMMA LoopsFacts ==
    ASSUME TypeOK, NEW h \in Hosts
    PROVE  /\ Loops(h) = Len(writing[h]) + Num(Spins(h))
           /\ Num(Spins(h)) \in {0, 1}
           /\ Len(writing[h]) \in Nat
           /\ Loops(h) <= 0 => Len(writing[h]) = 0 /\ Num(Spins(h)) = 0
<1>1. Loops(h) = Len(writing[h]) + Num(Spins(h))
  BY DEF Loops, Num
<1>2. Num(Spins(h)) \in {0, 1}
  BY DEF Num
<1>3. Len(writing[h]) \in Nat
  BY HostTypes, LenIsNat
<1> QED
  BY <1>1, <1>2, <1>3

LEMMA SentDataKeeps ==
    ASSUME IInv, NEW h \in Hosts, SentData(h)
    PROVE  IInv'
<1>0. CallFits'
  BY CallKept DEF IInv, SentData, clientVars
<1>1. TypeOK /\ CurrentIsTheLiveHost /\ WorkerIsOnAHost /\ OpenFilesHaveSessions
  BY DEF IInv
<1>3. /\ UNCHANGED <<phase, current, sessions, open, lost, late, pushed, starts, stops, worker, begun>>
      /\ closing = NoHost /\ sending' = NoHost
      /\ phase'[h] = phase[h]
      /\ h = sending \/ h = current
  BY DEF SentData, fileVars
<1>4. TypeOK' /\ WorkerIsOnAHost'
  BY <1>1, <1>3, SentDataType, WorkerKept
<1>5. \A k \in Hosts \ {h} : Untouched(k)
  BY <1>1, SentDataFrame
<1>6. Unused(h)'
  <2>1. phase[h] # "new"
    BY <1>1, <1>3, OnHost, NoHostIsNone DEF Unused, CurrentIsTheLiveHost
  <2> QED
    BY <2>1, <1>3, UsedHost
<1>7. CASE phase[h] # "live"
  <2>1. closing' = closing /\ damaged' = damaged
    BY <1>7 DEF SentData
  <2>2. CurrentIsTheLiveHost' /\ OpenFilesHaveSessions'
    BY <1>1, <1>3, <2>1, CurrentKept, OpenKept
  <2>3. ~ InUse(h)' /\ phase'[h] # "live"
    BY <1>3, <1>7 DEF InUse
  <2> QED
    BY <1>4, <1>5, <1>6, <2>1, <2>2, <2>3, <1>0, StepOnHost
<1>8. CASE phase[h] = "live"
  <2> DEFINE m == Head(queue[h])
  <2>1. /\ queue' = [queue EXCEPT ![h] = IF @ = <<>> THEN @ ELSE Tail(@)]
        /\ GotUpTo(h, got[h])
        /\ MarkDamage(h, h # sending \/ Loops(h) > 0 \/ (~AtEnd(h) /\ h \notin link))
        /\ AtEnd(h) => UNCHANGED <<writing, writeBuff, closing>>
        /\ ~AtEnd(h) /\ queue[h] # <<>> /\ m # Nothing =>
               writeBuff' = [writeBuff EXCEPT ![h] = m]
        /\ ~AtEnd(h) /\ queue[h] # <<>> /\ h \in link =>
               writing' = [writing EXCEPT ![h] = Append(@, m)]
        /\ closing' \in {closing, h}
    BY <1>8 DEF SentData
  <2>2. damaged \subseteq damaged'
    BY <2>1 DEF MarkDamage
  <2>3. current = h
    BY <1>1, <1>8 DEF CurrentIsTheLiveHost
  <2>4. CurrentIsTheLiveHost'
    BY <1>1, <1>3, <1>8, <2>1, <2>3, NoHostIsNone DEF CurrentIsTheLiveHost
  <2>5. OpenFilesHaveSessions'
    BY <1>1, <1>3, <2>2, OpenKept
  <2>6. /\ queue[h] \in Seq(Messages)
        /\ writing[h] \in Seq(Message \cup {Nothing})
        /\ writeBuff[h] \in Message \cup {Nothing}
        /\ sessions[h] \in Seq(Files)
        /\ pushed[h] \in Nat /\ got[h] \in Nat /\ starts[h] \in Nat /\ stops[h] \in Nat
    BY <1>1, HostTypes
  <2>7. /\ got'[h] = IF AtEnd(h) THEN m.n ELSE got[h]
    BY <1>1, <2>1, <2>6, GotUpToFacts
  <2>8. InUse(h)
    BY <1>3, <1>8, NoHostIsNone DEF InUse
  <2>9. ASSUME h \notin damaged'
        PROVE  /\ Len(writing[h]) = 0 /\ Num(Spins(h)) = 0 /\ (AtEnd(h) \/ h \in link)
               /\ queue[h] # <<>>
               /\ StreamOK(queue[h], writing[h], writeBuff[h], 0, 1,
                           pushed[h], got[h], starts[h], stops[h])
    <3>1. h = sending /\ ~ (Loops(h) > 0) /\ (AtEnd(h) \/ h \in link)
      BY <2>1, <2>9 DEF MarkDamage
    <3>2. Len(writing[h]) = 0 /\ Num(Spins(h)) = 0
      <4>1. Loops(h) \in Nat
        BY <1>1, LoopsFacts
      <4> QED
        BY <1>1, <3>1, <4>1, LoopsFacts
    <3>3. StreamOf(h)
      BY <2>2, <2>8, <2>9, OnHost
    <3>4. Num(sending = h) = 1
      BY <3>1 DEF Num
    <3>5. StreamOK(queue[h], writing[h], writeBuff[h], 0, 1,
                   pushed[h], got[h], starts[h], stops[h])
      BY <3>2, <3>3, <3>4 DEF StreamOf
    <3>6. queue[h] # <<>>
      BY <3>2, <3>5 DEF StreamOK
    <3> QED
      BY <3>1, <3>2, <3>5, <3>6
  <2>10. queue[h] # <<>> => queue'[h] = Tail(queue[h])
    BY <1>1, <2>1 DEF TypeOK
  <2>11. queue[h] # <<>> => /\ m \in Messages
                            /\ AtEnd(h) <=> m \in Terminator
                            /\ m \notin Terminator => m \in Message /\ m # Nothing
    BY <1>1, AtEndFacts, MessageFacts
  <2>12. queue[h] # <<>> /\ ~AtEnd(h) /\ h \in link =>
             writing'[h] = Append(writing[h], m) /\ writeBuff'[h] = m
    <3>1. writing \in [Hosts -> Seq(Message \cup {Nothing})]
          /\ writeBuff \in [Hosts -> Message \cup {Nothing}]
      BY <1>1 DEF TypeOK
    <3> HIDE DEF m
    <3> QED
      BY <2>1, <2>11, <3>1
  <2>13. AtEnd(h) => writing'[h] = writing[h] /\ writeBuff'[h] = writeBuff[h]
    BY <2>1
  <2> HIDE DEF m
  <2>14. Num(Spins(h))' = Num(Spins(h)) /\ Num(sending = h)' = 0
    <3>1. Num(Spins(h))' = Num(Spins(h))
      BY <1>3 DEF Spins
    <3>2. sending' # h
      BY <1>3, NoHostIsNone
    <3> QED
      BY <3>1, <3>2 DEF Num
  <2>15. ASSUME h \notin damaged' PROVE StreamOf(h)'
    <3>1. /\ m \in Terminator =>
                 StreamOK(Tail(queue[h]), writing[h], writeBuff[h], 0, 0, pushed[h], m.n,
                          starts[h], stops[h])
          /\ m \notin Terminator =>
                 StreamOK(Tail(queue[h]), Append(writing[h], m), m, 0, 0, pushed[h], got[h],
                          starts[h], stops[h])
      BY <2>6, <2>9, <2>15, StreamSent DEF m
    <3>2. Num(Spins(h))' = 0
      BY <2>9, <2>14, <2>15
    <3>3. CASE AtEnd(h)
      <4>1. StreamOK(Tail(queue[h]), writing[h], writeBuff[h], 0, 0, pushed[h], m.n,
                     starts[h], stops[h])
        BY <2>9, <2>11, <2>15, <3>1, <3>3
      <4> QED
        BY <1>3, <2>7, <2>9, <2>10, <2>13, <2>14, <2>15, <3>2, <3>3, <4>1 DEF StreamOf
    <3>4. CASE ~ AtEnd(h)
      <4>1. StreamOK(Tail(queue[h]), Append(writing[h], m), m, 0, 0, pushed[h], got[h],
                     starts[h], stops[h])
        BY <2>9, <2>11, <2>15, <3>1, <3>4
      <4>2. h \in link /\ queue[h] # <<>>
        BY <2>9, <2>15, <3>4
      <4> QED
        BY <1>3, <2>7, <2>10, <2>12, <2>14, <3>2, <3>4, <4>1, <4>2 DEF StreamOf
    <3> QED
      BY <3>3, <3>4
  <2>16. ASSUME damaged' = {}, NEW f \in Files PROVE Covered(h, f)'
    <3>1. Covered(h, f)
      BY <1>8, <2>2, <2>16, OnHost
    <3>2. Num(begun[h][f] # "no") \in {0, 1} /\ Num(Answered(h, f)) \in {0, 1}
      BY DEF Num
    <3>3. h \notin damaged'
      BY <2>16
    <3>4. queue[h] # <<>> /\ (AtEnd(h) \/ h \in link)
      BY <2>9, <3>3
    <3>5. /\ CoverOK(Tail(queue[h]), writing[h], sessions[h],
                     Num(begun[h][f] # "no"), Num(Answered(h, f)), f)
          /\ m \in Message => CoverOK(Tail(queue[h]), Append(writing[h], m), sessions[h],
                                      Num(begun[h][f] # "no"), Num(Answered(h, f)), f)
      BY <2>6, <3>1, <3>2, <3>4, CoverTaken DEF Covered, m
    <3>6. /\ Num(begun[h][f] # "no")' = Num(begun[h][f] # "no")
          /\ Num(Answered(h, f))' = Num(Answered(h, f))
          /\ sessions'[h] = sessions[h]
      BY <1>3 DEF Answered
    <3>7. CASE AtEnd(h)
      BY <2>10, <2>13, <3>4, <3>5, <3>6, <3>7 DEF Covered
    <3>8. CASE ~ AtEnd(h)
      BY <2>10, <2>11, <2>12, <3>4, <3>5, <3>6, <3>8 DEF Covered
    <3> QED
      BY <3>7, <3>8
  <2> QED
    BY <1>4, <1>5, <1>6, <2>2, <2>4, <2>5, <2>15, <2>16, <1>0, StepOnHost
<1> QED
  BY <1>7, <1>8

\* A turn of the loop, from the state w, b, g it leaves of what was written before:
\* the stream stays whole, and no session is uncovered.
LEMMA TurnKeeps ==
    ASSUME TypeOK, NEW h \in Hosts, NEW w \in Seq(Message \cup {Nothing}), NEW g \in Nat,
           Len(w) = 0, ProcessUploadData(h, w), GotUpTo(h, g),
           UNCHANGED <<pushed, starts, stops, sending, sessions>>,
           worker.at # "result"
    PROVE  /\ StreamOK(queue[h], w, writeBuff[h], 1, Num(sending = h), pushed[h], g, starts[h], stops[h])
                  => StreamOf(h)'
           /\ \A f \in Files :
                  CoverOK(queue[h], w, sessions[h], Num(begun'[h][f] # "no"), 0, f) => Covered(h, f)'
<1>1. /\ queue[h] = <<>> =>
             /\ queue'[h] = <<>> /\ writing'[h] = w /\ writeBuff'[h] = writeBuff[h]
             /\ worker' = [at |-> "spin", host |-> h, file |-> NoFile]
      /\ queue[h] # <<>> => queue'[h] = Tail(queue[h]) /\ worker' = Idle
      /\ AtEnd(h) => writing'[h] = w /\ writeBuff'[h] = writeBuff[h]
      /\ queue[h] # <<>> /\ ~ AtEnd(h) =>
             /\ writing'[h] = Append(w, Head(queue[h]))
             /\ writeBuff'[h] = Head(queue[h])
  BY ProcessUploadDataFacts
<1>2. got'[h] = IF AtEnd(h) THEN Head(queue[h]).n ELSE g
  BY GotUpToFacts
<1>3. /\ queue[h] \in Seq(Messages)
      /\ writeBuff[h] \in Message \cup {Nothing}
      /\ sessions[h] \in Seq(Files)
      /\ pushed[h] \in Nat /\ got[h] \in Nat /\ starts[h] \in Nat /\ stops[h] \in Nat
  BY HostTypes
<1>4. /\ AtEnd(h) => queue[h] # <<>>
      /\ queue[h] # <<>> => /\ AtEnd(h) <=> Head(queue[h]) \in Terminator
                            /\ ~ AtEnd(h) => Head(queue[h]) \in Message
  BY AtEndFacts, MessageFacts
<1>5. Num(sending = h)' = Num(sending = h) /\ Num(sending = h) \in {0, 1}
  BY DEF Num
<1>6. Num(Spins(h))' = IF queue[h] = <<>> THEN 1 ELSE 0
  BY <1>1, NotIdle DEF Spins, Num
<1>7. ASSUME StreamOK(queue[h], w, writeBuff[h], 1, Num(sending = h), pushed[h], g, starts[h], stops[h])
      PROVE  StreamOf(h)'
  <2>1. CASE queue[h] = <<>>
    <3>1. ~ AtEnd(h)
      BY <1>4, <2>1
    <3>2. StreamOK(<<>>, w, writeBuff[h], 1, Num(sending = h), pushed[h], g, starts[h], stops[h])
      BY <1>7, <2>1
    <3> QED
      BY <1>1, <1>2, <1>5, <1>6, <2>1, <3>1, <3>2 DEF StreamOf
  <2>2. CASE queue[h] # <<>>
    <3>2. /\ Head(queue[h]) \in Terminator =>
                 StreamOK(Tail(queue[h]), w, writeBuff[h], 0, Num(sending = h), pushed[h],
                          Head(queue[h]).n, starts[h], stops[h])
          /\ Head(queue[h]) \notin Terminator =>
                 StreamOK(Tail(queue[h]), Append(w, Head(queue[h])), Head(queue[h]), 0,
                          Num(sending = h), pushed[h], g, starts[h], stops[h])
      <4> DEFINE sd == Num(sending = h)
      <4>1. /\ sd \in {0, 1}
            /\ StreamOK(queue[h], w, writeBuff[h], 1, sd, pushed[h], g, starts[h], stops[h])
        BY <1>5, <1>7
      <4> HIDE DEF sd
      <4>2. /\ Head(queue[h]) \in Terminator =>
                   StreamOK(Tail(queue[h]), w, writeBuff[h], 0, sd, pushed[h],
                            Head(queue[h]).n, starts[h], stops[h])
            /\ Head(queue[h]) \notin Terminator =>
                   StreamOK(Tail(queue[h]), Append(w, Head(queue[h])), Head(queue[h]), 0,
                            sd, pushed[h], g, starts[h], stops[h])
        <5> DEFINE q  == queue[h]
                   b  == writeBuff[h]
                   p  == pushed[h]
                   s0 == starts[h]
                   t0 == stops[h]
        <5>1. /\ q \in Seq(Messages) /\ q # <<>>
              /\ p \in Nat /\ s0 \in Nat /\ t0 \in Nat
              /\ StreamOK(q, w, b, 1, sd, p, g, s0, t0)
          BY <1>3, <2>2, <4>1
        <5> HIDE DEF q, b, p, s0, t0
        <5>2. /\ Head(q) \in Terminator =>
                     StreamOK(Tail(q), w, b, 0, sd, p, Head(q).n, s0, t0)
              /\ Head(q) \notin Terminator =>
                     StreamOK(Tail(q), Append(w, Head(q)), Head(q), 0, sd, p, g, s0, t0)
          BY <4>1, <5>1, StreamTurn
        <5> QED
          BY <5>2 DEF q, b, p, s0, t0
      <4> QED
        BY <4>2 DEF sd
    <3>3. CASE AtEnd(h)
      <4>1. StreamOK(Tail(queue[h]), w, writeBuff[h], 0, Num(sending = h), pushed[h],
                     Head(queue[h]).n, starts[h], stops[h])
        BY <1>4, <2>2, <3>2, <3>3
      <4> QED
        BY <1>1, <1>2, <1>5, <1>6, <2>2, <3>3, <4>1 DEF StreamOf
    <3>4. CASE ~ AtEnd(h)
      <4>1. StreamOK(Tail(queue[h]), Append(w, Head(queue[h])), Head(queue[h]), 0,
                     Num(sending = h), pushed[h], g, starts[h], stops[h])
        BY <1>4, <2>2, <3>2, <3>4
      <4> QED
        BY <1>1, <1>2, <1>5, <1>6, <2>2, <3>4, <4>1 DEF StreamOf
    <3> QED
      BY <3>3, <3>4
  <2> QED
    BY <2>1, <2>2
<1>8. ASSUME NEW f \in Files,
             CoverOK(queue[h], w, sessions[h], Num(begun'[h][f] # "no"), 0, f)
      PROVE  Covered(h, f)'
  <2>1. Num(Answered(h, f))' = 0
    BY <1>1, NotIdle DEF Answered, Num
  <2>2. Num(begun[h][f] # "no")' = Num(begun'[h][f] # "no") /\ Num(begun'[h][f] # "no") \in {0, 1}
    BY DEF Num
  <2>3. CASE queue[h] = <<>>
    BY <1>1, <1>8, <2>1, <2>2, <2>3 DEF Covered
  <2>4. CASE queue[h] # <<>>
    <3>1. /\ CoverOK(Tail(queue[h]), w, sessions[h], Num(begun'[h][f] # "no"), 0, f)
          /\ Head(queue[h]) \in Message =>
                 CoverOK(Tail(queue[h]), Append(w, Head(queue[h])), sessions[h],
                         Num(begun'[h][f] # "no"), 0, f)
      BY <1>3, <1>8, <2>2, <2>4, CoverTaken
    <3>2. CASE AtEnd(h)
      BY <1>1, <2>1, <2>2, <2>4, <3>1, <3>2 DEF Covered
    <3>3. CASE ~ AtEnd(h)
      BY <1>1, <1>4, <2>1, <2>2, <2>4, <3>1, <3>3 DEF Covered
    <3> QED
      BY <3>2, <3>3
  <2> QED
    BY <2>3, <2>4
<1> QED
  BY <1>7, <1>8

LEMMA OnWriteKeeps ==
    ASSUME IInv, NEW h \in Hosts, OnWrite(h)
    PROVE  IInv'
<1>0. CallFits'
  BY CallKept DEF IInv, OnWrite, clientVars
<1>1. TypeOK /\ CurrentIsTheLiveHost /\ WorkerIsOnAHost /\ OpenFilesHaveSessions
  BY DEF IInv
<1> DEFINE w == writing[h]
           v == Tail(w)
<1>2. /\ phase[h] = "live" /\ closing = NoHost /\ worker = Idle /\ w # <<>>
      /\ v \in Seq(Message \cup {Nothing})
      /\ ProcessUploadData(h, v)
      /\ UNCHANGED <<phase, current, closing, sessions, open, lost, late, pushed, starts, stops, damaged, sending>>
  BY <1>1, OnWriteParts DEF hostVars, fileVars
<1>3. PICK m \in Message \cup {Nothing} : m \in {Head(w), writeBuff[h]} /\ Deliver(h, m)
  BY <1>1, OnWriteParts
<1>4. /\ GotUpTo(h, IF m = Nothing THEN got[h] ELSE m.n)
      /\ (IF m = Nothing THEN got[h] ELSE m.n) \in Nat
      /\ \A f \in Files : IF m \in StartsOf(f)
                          THEN begun'[h][f] = "begun"
                          ELSE begun'[h][f] # "no" <=> begun[h][f] # "no"
  BY <1>1, <1>3, DeliverFacts
<1>5. worker' \in {Idle, [at |-> "spin", host |-> h, file |-> NoFile]}
  BY <1>1, <1>2, ProcessUploadDataFacts
<1>6. worker'.at # "result" /\ worker.at # "result" /\ WorkerIsOnAHost'
  BY <1>2, <1>5, NotIdle DEF WorkerIsOnAHost
<1>7. TypeOK' /\ CurrentIsTheLiveHost' /\ OpenFilesHaveSessions'
  BY <1>1, <1>2, <1>6, OnWriteType, CurrentKept, OpenKept
<1>8. \A k \in Hosts \ {h} : Untouched(k)
  BY <1>1, OnWriteFrame
<1>9. Unused(h)'
  <2>1. phase'[h] # "new"
    BY <1>2
  <2> QED
    BY <2>1, UsedHost
<1>10. InUse(h)
  BY <1>2, NoHostIsNone DEF InUse
<1>11. /\ queue[h] \in Seq(Messages)
       /\ w \in Seq(Message \cup {Nothing})
       /\ writeBuff[h] \in Message \cup {Nothing}
       /\ sessions[h] \in Seq(Files)
       /\ pushed[h] \in Nat /\ got[h] \in Nat /\ starts[h] \in Nat /\ stops[h] \in Nat
  BY <1>1, HostTypes
<1> HIDE DEF v, w
<1>12. ASSUME h \notin damaged
       PROVE  /\ Head(w) = m /\ m # Nothing /\ m.n = got[h] + 1
              /\ Len(v) = 0
              /\ StreamOK(queue[h], v, writeBuff[h], 1, Num(sending = h), pushed[h], got[h] + 1,
                          starts[h], stops[h])
  <2>1. StreamOf(h)
    BY <1>10, <1>12, OnHost
  <2> DEFINE sp == Num(Spins(h))
             sd == Num(sending = h)
  <2>2. /\ sp \in {0, 1} /\ sd \in {0, 1}
        /\ StreamOK(queue[h], w, writeBuff[h], sp, sd, pushed[h], got[h], starts[h], stops[h])
    BY <2>1 DEF StreamOf, Num, w
  <2> HIDE DEF sp, sd
  <2>3. /\ Head(w) = writeBuff[h] /\ writeBuff[h] # Nothing /\ writeBuff[h].n = got[h] + 1
        /\ Len(Tail(w)) = 0
        /\ StreamOK(queue[h], Tail(w), writeBuff[h], 1, sd, pushed[h], got[h] + 1,
                    starts[h], stops[h])
    <3> DEFINE q == queue[h]
               b == writeBuff[h]
               p == pushed[h]
               g == got[h]
               s == starts[h]
               t == stops[h]
    <3>1. /\ q \in Seq(Messages) /\ w \in Seq(Message \cup {Nothing}) /\ NotEmpty(w)
          /\ sp \in {0, 1} /\ sd \in {0, 1}
          /\ p \in Nat /\ g \in Nat /\ s \in Nat /\ t \in Nat
          /\ StreamOK(q, w, b, sp, sd, p, g, s, t)
      BY <1>2, <1>11, <2>2 DEF NotEmpty
    <3> HIDE DEF q, b, p, g, s, t
    <3>2. WrittenOK(q, w, b, sd, p, g, s, t)
      BY <3>1, StreamWritten
    <3> QED
      BY <3>2 DEF q, b, p, g, s, t, WrittenOK
  <2> QED
    BY <1>3, <2>3 DEF sd, v
<1> DEFINE g == IF m = Nothing THEN got[h] ELSE m.n
<1>13. ASSUME h \notin damaged
       PROVE  /\ StreamOK(queue[h], v, writeBuff[h], 1, Num(sending = h), pushed[h], g, starts[h], stops[h])
                     => StreamOf(h)'
              /\ \A f \in Files :
                     CoverOK(queue[h], v, sessions[h], Num(begun'[h][f] # "no"), 0, f) => Covered(h, f)'
  <2>1. Len(v) = 0
    BY <1>12, <1>13
  <2>2. g \in Nat /\ GotUpTo(h, g)
    BY <1>4
  <2> HIDE DEF g
  <2> QED
    BY <1>1, <1>2, <1>6, <2>1, <2>2, TurnKeeps
<1>14. ASSUME h \notin damaged PROVE StreamOf(h)'
  <2>1. g = got[h] + 1
    BY <1>12, <1>14
  <2> HIDE DEF g
  <2> QED
    BY <1>12, <1>13, <1>14, <2>1
<1> HIDE DEF g
<1>15. ASSUME damaged = {}, NEW f \in Files PROVE Covered(h, f)'
  <2>1. Covered(h, f)
    BY <1>2, <1>15, OnHost
  <2>2. h \notin damaged
    BY <1>15
  <2> DEFINE bg  == Num(begun[h][f] # "no")
             bg1 == Num(begun'[h][f] # "no")
  <2>3. Num(Answered(h, f)) = 0
    BY <1>6 DEF Answered, Num
  <2>4. bg \in {0, 1} /\ bg1 \in {0, 1} /\ CoverOK(queue[h], w, sessions[h], bg, 0, f)
    BY <2>1, <2>3 DEF Covered, Num, w
  <2>5. m \notin StartsOf(f) => bg1 = bg
    BY <1>4 DEF Num
  <2>6. Head(w) = m
    BY <1>12, <2>2
  <2> HIDE DEF bg, bg1
  <2>7. CoverOK(queue[h], v, sessions[h], bg1, 0, f)
    BY <1>2, <1>11, <2>4, <2>5, <2>6, CoverWritten DEF v
  <2> QED
    BY <1>13, <2>2, <2>7 DEF bg1
<1> QED
  BY <1>2, <1>6, <1>7, <1>8, <1>9, <1>14, <1>15, <1>0, StepOnHost

LEMMA SpinTurnKeeps ==
    ASSUME IInv, NEW h \in Hosts, SpinTurn(h)
    PROVE  IInv'
<1>0. CallFits'
  BY CallKept DEF IInv, SpinTurn, clientVars
<1>1. TypeOK /\ CurrentIsTheLiveHost /\ WorkerIsOnAHost /\ OpenFilesHaveSessions
  BY DEF IInv
<1>2. /\ Spins(h) /\ phase[h] # "deleted" /\ queue[h] # <<>>
      /\ writing[h] \in Seq(Message \cup {Nothing})
      /\ ProcessUploadData(h, writing[h])
      /\ got[h] \in Nat /\ GotUpTo(h, got[h])
      /\ UNCHANGED <<phase, current, closing, sessions, open, lost, late, pushed, starts, stops, damaged,
                     sending, begun>>
  BY <1>1, HostTypes DEF SpinTurn, hostVars, fileVars
<1>3. worker' = Idle
  BY <1>1, <1>2, ProcessUploadDataFacts
<1>4. worker'.at # "result" /\ worker.at # "result" /\ WorkerIsOnAHost'
  BY <1>2, <1>3, NotIdle DEF WorkerIsOnAHost, Spins
<1>5. TypeOK' /\ CurrentIsTheLiveHost' /\ OpenFilesHaveSessions'
  BY <1>1, <1>2, <1>4, SpinTurnType, CurrentKept, OpenKept
<1>6. \A k \in Hosts \ {h} : Untouched(k)
  BY <1>1, SpinTurnFrame
<1>7. Unused(h)'
  <2>1. phase[h] # "new"
    BY <1>2, OnHost DEF Unused, Spins
  <2>2. phase'[h] # "new"
    BY <1>2, <2>1
  <2> QED
    BY <2>2, UsedHost
<1>8. Num(Spins(h)) = 1 /\ Num(sending = h) \in {0, 1}
  BY <1>2 DEF Num
<1>9. Len(writing[h]) \in Nat
  BY <1>1, LoopsFacts
<1>10. ASSUME h \notin damaged, InUse(h)' PROVE StreamOf(h)'
  <2>1. StreamOf(h)
    BY <1>2, <1>10, OnHost DEF InUse
  <2>2. StreamOK(queue[h], writing[h], writeBuff[h], 1, Num(sending = h), pushed[h], got[h],
                 starts[h], stops[h])
    BY <1>8, <2>1 DEF StreamOf
  <2>3. Len(writing[h]) + 1 <= 1
    BY <2>2 DEF StreamOK
  <2>4. Len(writing[h]) = 0
    BY <1>9, <2>3
  <2> QED
    BY <1>1, <1>2, <1>4, <2>2, <2>4, TurnKeeps
<1>11. ASSUME damaged = {}, phase[h] = "live", NEW f \in Files PROVE Covered(h, f)'
  <2>1. Covered(h, f)
    BY <1>11, OnHost
  <2>2. Num(Answered(h, f)) = 0
    BY <1>4 DEF Answered, Num
  <2>3. Num(begun'[h][f] # "no") = Num(begun[h][f] # "no") /\ Num(begun[h][f] # "no") \in {0, 1}
    BY <1>2 DEF Num
  <2>4. CoverOK(queue[h], writing[h], sessions[h], Num(begun[h][f] # "no"), 0, f)
    BY <2>1, <2>2 DEF Covered
  <2>5. /\ queue[h] \in Seq(Messages) /\ sessions[h] \in Seq(Files)
        /\ writeBuff[h] \in Message \cup {Nothing}
    BY <1>1, HostTypes
  <2>6. /\ CoverOK(Tail(queue[h]), writing[h], sessions[h], Num(begun[h][f] # "no"), 0, f)
        /\ Head(queue[h]) \in Message =>
               CoverOK(Tail(queue[h]), Append(writing[h], Head(queue[h])), sessions[h],
                       Num(begun[h][f] # "no"), 0, f)
    BY <1>2, <2>3, <2>4, <2>5, CoverTaken
  <2>7. Num(Answered(h, f))' = 0 /\ Num(begun[h][f] # "no")' = Num(begun[h][f] # "no")
    BY <1>2, <1>4 DEF Answered, Num
  <2>8. /\ queue'[h] = Tail(queue[h])
        /\ AtEnd(h) => writing'[h] = writing[h]
        /\ ~ AtEnd(h) => writing'[h] = Append(writing[h], Head(queue[h]))
        /\ ~ AtEnd(h) => Head(queue[h]) \in Message
    BY <1>1, <1>2, ProcessUploadDataFacts, AtEndFacts, MessageFacts
  <2>9. CASE AtEnd(h)
    BY <1>2, <2>6, <2>7, <2>8, <2>9 DEF Covered
  <2>10. CASE ~ AtEnd(h)
    BY <1>2, <2>6, <2>7, <2>8, <2>10 DEF Covered
  <2> QED
    BY <2>9, <2>10
<1> QED
  BY <1>2, <1>4, <1>5, <1>6, <1>7, <1>10, <1>11, <1>0, StepOnHost

LEMMA SpinFailsKeeps ==
    ASSUME IInv, NEW h \in Hosts, SpinFails(h)
    PROVE  IInv'
<1>0. CallFits'
  BY CallKept DEF IInv, SpinFails, clientVars
<1>1. TypeOK /\ CurrentIsTheLiveHost /\ WorkerIsOnAHost /\ OpenFilesHaveSessions
  BY DEF IInv
<1>2. /\ Spins(h) /\ phase[h] = "live" /\ queue[h] # <<>> /\ closing = NoHost
      /\ queue' = [queue EXCEPT ![h] = Tail(@)]
      /\ worker' = Idle
      /\ closing' = IF AtEnd(h) THEN NoHost ELSE h
      /\ got[h] \in Nat /\ GotUpTo(h, got[h])
      /\ UNCHANGED <<phase, current, writing, writeBuff, sessions, open, lost, late, pushed, starts, stops,
                     damaged, sending, begun>>
  BY <1>1, HostTypes DEF SpinFails, fileVars
<1>3. worker'.at # "result" /\ worker.at # "result" /\ WorkerIsOnAHost'
  BY <1>2, NotIdle DEF WorkerIsOnAHost, Spins
<1>4. CurrentIsTheLiveHost'
  <2>1. current = h
    BY <1>1, <1>2 DEF CurrentIsTheLiveHost
  <2> QED
    BY <1>1, <1>2, <2>1, NoHostIsNone DEF CurrentIsTheLiveHost
<1>5. TypeOK' /\ OpenFilesHaveSessions'
  BY <1>1, <1>2, <1>3, SpinFailsType, OpenKept
<1>6. \A k \in Hosts \ {h} : Untouched(k)
  BY <1>1, SpinFailsFrame
<1>7. Unused(h)'
  <2>1. phase'[h] # "new"
    BY <1>2
  <2> QED
    BY <2>1, UsedHost
<1>8. /\ queue[h] \in Seq(Messages)
      /\ writing[h] \in Seq(Message \cup {Nothing})
      /\ writeBuff[h] \in Message \cup {Nothing}
      /\ sessions[h] \in Seq(Files)
      /\ pushed[h] \in Nat /\ starts[h] \in Nat /\ stops[h] \in Nat
  BY <1>1, HostTypes
<1>9. queue'[h] = Tail(queue[h]) /\ got'[h] = IF AtEnd(h) THEN Head(queue[h]).n ELSE got[h]
  BY <1>1, <1>2, TakenTypes, GotUpToFacts
<1>10. ASSUME h \notin damaged, InUse(h)' PROVE StreamOf(h)'
  <2>1. AtEnd(h)
    BY <1>2, <1>10 DEF InUse
  <2>2. Head(queue[h]) \in Terminator
    BY <1>1, <1>2, <2>1, AtEndFacts
  <2>3. StreamOf(h)
    BY <1>2, <1>10, NoHostIsNone, OnHost DEF InUse
  <2> DEFINE sd == Num(sending = h)
  <2>4. Num(Spins(h)) = 1 /\ sd \in {0, 1}
    BY <1>2 DEF Num
  <2>5. StreamOK(queue[h], writing[h], writeBuff[h], 1, sd, pushed[h], got[h], starts[h], stops[h])
    BY <2>3, <2>4 DEF StreamOf
  <2>6. Num(Spins(h))' = 0 /\ Num(sending = h)' = sd
    BY <1>2, NotIdle DEF Spins, Num
  <2> HIDE DEF sd
  <2>7. Len(writing[h]) = 0
    <3>1. Len(writing[h]) + 1 <= 1
      BY <2>5 DEF StreamOK
    <3> QED
      BY <1>8, <3>1, LenIsNat
  <2>8. StreamOK(Tail(queue[h]), writing[h], writeBuff[h], 0, sd, pushed[h], Head(queue[h]).n,
                 starts[h], stops[h])
    BY <1>2, <1>8, <2>2, <2>4, <2>5, <2>7, StreamTurn
  <2> QED
    BY <1>2, <1>9, <2>1, <2>6, <2>8 DEF StreamOf
<1>11. ASSUME damaged = {}, NEW f \in Files PROVE Covered(h, f)'
  <2>1. Covered(h, f)
    BY <1>2, <1>11, OnHost
  <2>2. Num(Answered(h, f)) = 0 /\ Num(Answered(h, f))' = 0
    BY <1>3 DEF Answered, Num
  <2>3. /\ Num(begun[h][f] # "no")' = Num(begun[h][f] # "no")
        /\ Num(begun[h][f] # "no") \in {0, 1}
    BY <1>2 DEF Num
  <2>4. CoverOK(queue[h], writing[h], sessions[h], Num(begun[h][f] # "no"), 0, f)
    BY <2>1, <2>2 DEF Covered
  <2>5. CoverOK(Tail(queue[h]), writing[h], sessions[h], Num(begun[h][f] # "no"), 0, f)
    BY <1>2, <1>8, <2>3, <2>4, CoverTaken
  <2> QED
    BY <1>2, <1>9, <2>2, <2>3, <2>5 DEF Covered
<1> QED
  BY <1>2, <1>3, <1>4, <1>5, <1>6, <1>7, <1>10, <1>11, <1>0, StepOnHost

LEMMA HandleOtherKeeps ==
    ASSUME IInv, HandleOther \/ OtherHandled
    PROVE  IInv'
<1>0. CallFits'
  BY CallKept DEF IInv, HandleOther, OtherHandled, clientVars
<1>1. TypeOK /\ CurrentIsTheLiveHost /\ WorkerIsOnAHost /\ OpenFilesHaveSessions
  BY DEF IInv
<1>2. /\ worker' \in {Idle, Away}
      /\ UNCHANGED <<phase, current, closing, sessions, open, lost, late, damaged>>
  BY DEF HandleOther, OtherHandled, hostVars, fileVars, historyVars
<1>3. worker'.at # "result" /\ WorkerIsOnAHost'
  BY <1>2, NotIdle DEF WorkerIsOnAHost
<1>4. TypeOK' /\ CurrentIsTheLiveHost' /\ OpenFilesHaveSessions'
  BY <1>1, <1>2, <1>3, HandleOtherType, CurrentKept, OpenKept
<1>5. \A k \in Hosts \ {NoHost} : Untouched(k)
  BY <1>1, HandleOtherFrame
<1> QED
  BY <1>0, <1>2, <1>3, <1>4, <1>5, NoHostIsNone, StepOnHost

LEMMA SpinOnDeletedKeeps ==
    ASSUME IInv, NEW h \in Hosts, SpinOnDeleted(h)
    PROVE  IInv'
<1>0. CallFits'
  BY CallKept DEF IInv, SpinOnDeleted, clientVars
<1>1. TypeOK /\ CurrentIsTheLiveHost /\ WorkerIsOnAHost /\ OpenFilesHaveSessions
  BY DEF IInv
<1>2. /\ phase[h] = "deleted" /\ worker' = Idle
      /\ UNCHANGED <<phase, current, closing, sessions, open, lost, late, damaged>>
  BY DEF SpinOnDeleted, hostVars, fileVars, historyVars
<1>3. worker'.at # "result" /\ WorkerIsOnAHost'
  BY <1>2, NotIdle DEF WorkerIsOnAHost
<1>4. TypeOK' /\ CurrentIsTheLiveHost' /\ OpenFilesHaveSessions'
  BY <1>1, <1>2, <1>3, SpinOnDeletedType, CurrentKept, OpenKept
<1>5. \A k \in Hosts \ {h} : Untouched(k)
  BY <1>1, SpinOnDeletedFrame
<1>6. phase'[h] = "deleted"
  BY <1>2
<1>7. Unused(h)' /\ ~ InUse(h)' /\ phase'[h] # "live"
  BY <1>6, UsedHost DEF InUse
<1> QED
  BY <1>2, <1>3, <1>4, <1>5, <1>7, <1>0, StepOnHost

-------------------------------------------------------------------------------

(***************************************************************************)
(* The device's answers keep the invariant.                                *)
(***************************************************************************)

LEMMA OnMsgInfoKeeps ==
    ASSUME IInv, NEW h \in Hosts, NEW f \in Files, NEW state \in {"done", "failed"},
           OnMsgInfo(h, f, state)
    PROVE  IInv'
<1>0. CallFits'
  BY CallKept DEF IInv, OnMsgInfo, clientVars
<1>1. TypeOK /\ CurrentIsTheLiveHost /\ WorkerIsOnAHost /\ OpenFilesHaveSessions
  BY DEF IInv
<1>2. /\ worker = Idle /\ closing = NoHost /\ phase[h] = "live"
      /\ begun[h][f] # "no"
      /\ begun' = [begun EXCEPT ![h][f] = "no"]
      /\ worker' = [at |-> "result", host |-> h, file |-> f]
      /\ UNCHANGED <<phase, current, closing, queue, writing, writeBuff, sessions, late, pushed, got,
                     starts, stops, damaged, sending>>
  BY DEF OnMsgInfo, hostVars, bufferVars, historyVars
<1>3. /\ worker.at = "idle" /\ worker'.at = "result" /\ worker'.host = h /\ worker'.file = f
      /\ WorkerIsOnAHost'
  BY <1>2, NotIdle DEF WorkerIsOnAHost
<1>4. TypeOK' /\ CurrentIsTheLiveHost'
  BY <1>1, <1>2, OnMsgInfoType, CurrentKept
<1>5. \A k \in Hosts \ {h} : Untouched(k)
  BY <1>1, OnMsgInfoFrame
<1>6. \A k \in Hosts, g \in Files : Num(Answered(k, g)) = 0
  BY <1>3 DEF Answered, Num
<1>7. \A k \in Hosts, g \in Files : g # f => Num(Answered(k, g))' = 0
  BY <1>3 DEF Answered, Num
<1>8. OpenFilesHaveSessions'
  <2>1. PICK failing \in SUBSET {f} :
            open' = open \ ({f} \ failing) /\ lost' = lost \cup failing
    BY DEF OnMsgInfo, UpdateFileInfo
  <2> SUFFICES ASSUME damaged' = {}, NEW g \in open' \ (lost' \cup late')
               PROVE  \E k \in Hosts :
                          phase'[k] = "live" /\ Num(Answered(k, g))' < Count(sessions'[k], {g})
    BY DEF OpenFilesHaveSessions
  <2>2. g \in open \ (lost \cup late) /\ g # f /\ g \in Files
    BY <1>1, <1>2, <2>1 DEF TypeOK
  <2>3. PICK k \in Hosts : phase[k] = "live" /\ Num(Answered(k, g)) < Count(sessions[k], {g})
    BY <1>1, <1>2, <2>2 DEF OpenFilesHaveSessions
  <2>4. Num(Answered(k, g)) = 0 /\ Num(Answered(k, g))' = 0
    BY <1>6, <1>7, <2>2
  <2> QED
    BY <1>2, <2>3, <2>4
<1>9. Unused(h)'
  <2>1. phase'[h] # "new"
    BY <1>2
  <2> QED
    BY <2>1, UsedHost
<1>10. ASSUME h \notin damaged, InUse(h)' PROVE StreamOf(h)'
  <2>1. StreamOf(h)
    BY <1>2, <1>10, OnHost DEF InUse
  <2>2. Num(Spins(h))' = Num(Spins(h)) /\ Num(sending = h)' = Num(sending = h)
    BY <1>2, <1>3 DEF Spins, Num
  <2> QED
    BY <1>2, <2>1, <2>2 DEF StreamOf
<1>11. ASSUME damaged = {}, NEW g \in Files PROVE Covered(h, g)'
  <2> DEFINE bg == Num(begun[h][g] # "no")
  <2>1. CoverOK(queue[h], writing[h], sessions[h], bg, 0, g)
    <3>1. Covered(h, g)
      BY <1>2, <1>11, OnHost
    <3> QED
      BY <1>6, <3>1 DEF Covered
  <2>2. CASE g = f
    <3>1. bg = 1 /\ Num(begun[h][g] # "no")' = 0 /\ Num(Answered(h, g))' = 1
      BY <1>1, <1>2, <1>3, <2>2 DEF TypeOK, Num, Answered
    <3>2. CoverOK(queue[h], writing[h], sessions[h], 1, 0, g)
      BY <2>1, <3>1
    <3> HIDE DEF bg
    <3>3. /\ Count(queue[h], StartsOf(g)) \in Nat
          /\ Count(writing[h], StartsOf(g)) \in Nat
          /\ Count(sessions[h], {g}) \in Nat
      BY <1>1, HostTypes, CoverTypes
    <3>4. CoverOK(queue[h], writing[h], sessions[h], 0, 1, g)
      BY <3>2, <3>3 DEF CoverOK
    <3> QED
      BY <1>2, <3>1, <3>4 DEF Covered
  <2>3. CASE g # f
    <3>1. Num(begun[h][g] # "no")' = bg
      BY <1>1, <1>2, <2>3 DEF TypeOK
    <3>2. Num(Answered(h, g))' = 0
      BY <1>7, <2>3
    <3> QED
      BY <1>2, <2>1, <3>1, <3>2 DEF Covered
  <2> QED
    BY <2>2, <2>3
<1> QED
  BY <1>2, <1>3, <1>4, <1>5, <1>8, <1>9, <1>10, <1>11, <1>0, StepOnHost

LEMMA EraseSessionKeeps ==
    ASSUME IInv, EraseSession
    PROVE  IInv'
<1>0. CallFits'
  BY CallKept DEF IInv, EraseSession, clientVars
<1>1. TypeOK /\ CurrentIsTheLiveHost /\ WorkerIsOnAHost /\ OpenFilesHaveSessions
  BY DEF IInv
<1>2. PICK h \in Hosts : h = worker.host
  BY <1>1 DEF EraseSession, WorkerIsOnAHost
<1> DEFINE e == worker.file
<1>3. /\ worker.at = "result"
      /\ worker' \in {Idle, [worker EXCEPT !.at = "dead"]}
      /\ UNCHANGED <<phase, current, closing, queue, writing, writeBuff, open, lost, late, pushed, got, starts,
                     stops, damaged, sending, begun>>
      /\ phase[h] = "deleted" => sessions' = sessions
      /\ phase[h] # "deleted" => sessions' = [sessions EXCEPT ![h] = RemoveFirst(@, e)]
  BY <1>2 DEF EraseSession, hostVars, bufferVars, historyVars
<1>4. worker'.at \in {"idle", "dead"} /\ worker'.host \in {h, NoHost}
  BY <1>1, <1>2, <1>3, NotIdle DEF TypeOK
<1>5. WorkerIsOnAHost'
  <2>1. worker'.at # "idle" => worker'.host = h
    BY <1>1, <1>2, <1>3, NotIdle DEF TypeOK
  <2> QED
    BY <2>1 DEF WorkerIsOnAHost
<1>6. TypeOK' /\ CurrentIsTheLiveHost'
  BY <1>1, <1>2, <1>3, EraseSessionType, CurrentKept
<1>7. \A k \in Hosts \ {h} : Untouched(k)
  BY <1>1, <1>2, EraseSessionFrame
<1>8. \A k \in Hosts, f \in Files : Num(Answered(k, f))' = 0
  BY <1>4 DEF Answered, Num
<1>9. ASSUME phase[h] # "deleted" PROVE sessions'[h] = RemoveFirst(sessions[h], e)
  BY <1>1, <1>3, <1>9 DEF TypeOK
<1>10. \A f \in Files : Num(Answered(h, f)) = Num(f = e)
  BY <1>2, <1>3 DEF Answered, Num
<1> HIDE DEF e
<1>11. OpenFilesHaveSessions'
  <2> SUFFICES ASSUME damaged' = {}, NEW f \in open' \ (lost' \cup late')
               PROVE  \E k \in Hosts :
                          phase'[k] = "live" /\ Num(Answered(k, f))' < Count(sessions'[k], {f})
    BY DEF OpenFilesHaveSessions
  <2>1. f \in Files
    BY <1>1, <1>3 DEF TypeOK
  <2>2. PICK k \in Hosts : phase[k] = "live" /\ Num(Answered(k, f)) < Count(sessions[k], {f})
    BY <1>1, <1>3 DEF OpenFilesHaveSessions
  <2>3. Num(Answered(k, f))' = 0
    BY <1>8, <2>1
  <2>4. Num(Answered(k, f)) \in Nat /\ Count(sessions[k], {f}) \in Nat
    BY <1>1, HostTypes, CountType DEF Num
  <2>5. CASE k = h
    <3>1. phase[h] # "deleted" /\ sessions[h] \in Seq(Files)
      BY <1>1, <2>2, <2>5, HostTypes
    <3>2. /\ RemoveFirst(sessions[h], e) \in Seq(Files)
          /\ Count(sessions[h], {f}) <= Count(RemoveFirst(sessions[h], e), {f}) + Num(f = e)
      BY <3>1, CountRemoveFirst
    <3>3. Count(RemoveFirst(sessions[h], e), {f}) \in Nat
      BY <3>2, CountType
    <3> DEFINE an == Num(f = e)
               n == Count(sessions[h], {f})
               n1 == Count(RemoveFirst(sessions[h], e), {f})
    <3>4. /\ an < n /\ n <= n1 + an /\ an \in Nat /\ n \in Nat /\ n1 \in Nat
      BY <1>10, <2>1, <2>2, <2>4, <2>5, <3>2, <3>3
    <3> HIDE DEF an, n, n1
    <3>5. 0 < n1
      BY <3>4
    <3> QED
      BY <1>3, <1>9, <2>2, <2>3, <2>5, <3>1, <3>5 DEF n1
  <2>6. CASE k # h
    <3>1. sessions'[k] = sessions[k]
      BY <1>7, <2>6 DEF Untouched
    <3>2. 0 < Count(sessions[k], {f})
      BY <2>2, <2>4
    <3> QED
      BY <1>3, <2>2, <2>3, <3>1, <3>2
  <2> QED
    BY <2>5, <2>6
<1>12. Unused(h)'
  <2>1. phase[h] # "new"
    BY <1>2, OnHost DEF Unused
  <2>2. phase'[h] # "new"
    BY <1>3, <2>1
  <2> QED
    BY <2>2, UsedHost
<1>13. ASSUME h \notin damaged, InUse(h)' PROVE StreamOf(h)'
  <2>1. StreamOf(h)
    BY <1>3, <1>13, OnHost DEF InUse
  <2>2. Num(Spins(h))' = Num(Spins(h)) /\ Num(sending = h)' = Num(sending = h)
    BY <1>3, <1>4 DEF Spins, Num
  <2> QED
    BY <1>3, <2>1, <2>2 DEF StreamOf
<1>14. ASSUME damaged = {}, phase[h] = "live", NEW f \in Files PROVE Covered(h, f)'
  <2>1. Covered(h, f)
    BY <1>14, OnHost
  <2> DEFINE bg == Num(begun[h][f] # "no")
  <2>2. bg \in {0, 1} /\ CoverOK(queue[h], writing[h], sessions[h], bg, Num(f = e), f)
    BY <1>10, <2>1 DEF Covered, Num
  <2>3. Num(begun[h][f] # "no")' = bg
    BY <1>3
  <2> HIDE DEF bg
  <2>4. /\ queue[h] \in Seq(Messages) /\ writing[h] \in Seq(Message \cup {Nothing})
        /\ sessions[h] \in Seq(Files)
    BY <1>1, HostTypes
  <2>5. CoverOK(queue[h], writing[h], RemoveFirst(sessions[h], e), bg, 0, f)
    BY <2>2, <2>4, CoverErased
  <2> QED
    BY <1>3, <1>8, <1>9, <1>14, <2>3, <2>5 DEF Covered
<1> QED
  BY <1>3, <1>5, <1>6, <1>7, <1>11, <1>12, <1>13, <1>14, <1>0, StepOnHost

-------------------------------------------------------------------------------

(***************************************************************************)
(* The inductive invariant, and what follows from it.                      *)
(***************************************************************************)

LEMMA InitIInv == Init => IInv
<1> SUFFICES ASSUME Init PROVE IInv
  OBVIOUS
<1>1. TypeOK
  <2>1. /\ Idle \in [at : {"idle", "away", "spin", "result", "dead"}, host : Hosts \cup {NoHost},
                     file : Files \cup {NoFile}]
        /\ Idle \in [at : {"idle", "start", "chunk", "stop"}, host : Hosts \cup {NoHost},
                     file : Files \cup {NoFile}]
    BY NotIdle
  <2>2. 0 \in 0 .. MaxCalls /\ 0 \in 0 .. MaxFaults /\ Len(<<>>) <= Capacity
    BY UploadAssumption
  <2>3. \A h \in Hosts : Len(queue[h]) <= Capacity
    BY <2>2 DEF Init
  <2>4. /\ queue \in [Hosts -> Seq(Messages)]
        /\ writing \in [Hosts -> Seq(Message \cup {Nothing})]
        /\ sessions \in [Hosts -> Seq(Files)]
        /\ writeBuff \in [Hosts -> Message \cup {Nothing}]
    BY DEF Init
  <2>5. /\ phase \in [Hosts -> {"new", "live", "broken", "deleted"}]
        /\ begun \in [Hosts -> [Files -> {"no", "begun", "whole"}]]
        /\ fileState \in [Files -> {"none", "done", "failed"}]
    BY DEF Init
  <2>6. /\ pushed \in [Hosts -> Nat] /\ got \in [Hosts -> Nat]
        /\ starts \in [Hosts -> Nat] /\ stops \in [Hosts -> Nat]
    BY DEF Init
  <2> QED
    BY <2>1, <2>2, <2>3, <2>4, <2>5, <2>6 DEF Init, TypeOK
<1>2. worker.at = "idle" /\ worker.host = NoHost /\ calling.at = "idle" /\ calling.host = NoHost
  BY NotIdle DEF Init
<1>3. \A h \in Hosts : phase[h] = "new"
  BY DEF Init
<1>4. CurrentIsTheLiveHost
  BY <1>3, NoHostIsNone DEF Init, CurrentIsTheLiveHost
<1>5. NewHostsAreUnused
  <2> SUFFICES ASSUME NEW h \in Hosts PROVE Unused(h)
    BY DEF NewHostsAreUnused
  <2>1. /\ queue[h] = <<>> /\ writing[h] = <<>> /\ sessions[h] = <<>>
        /\ pushed[h] = 0 /\ got[h] = 0 /\ starts[h] = 0 /\ stops[h] = 0
        /\ \A f \in Files : begun[h][f] = "no"
        /\ sending = NoHost
    BY DEF Init
  <2> QED
    BY <1>2, <2>1, NoHostIsNone DEF Unused
<1>6. StreamsAreWhole /\ SessionsCoverStarts /\ WorkerIsOnAHost /\ CallFits
  BY <1>2, <1>3 DEF CallFits, StreamsAreWhole, InUse, SessionsCoverStarts, WorkerIsOnAHost
<1>7. OpenFilesHaveSessions
  BY DEF OpenFilesHaveSessions, Init
<1> QED
  BY <1>1, <1>4, <1>5, <1>6, <1>7 DEF IInv

LEMMA StutterKeeps ==
    ASSUME IInv, UNCHANGED vars
    PROVE  IInv'
<1>0. CallFits'
  BY CallKept DEF IInv, vars, clientVars
<1>1. TypeOK /\ CurrentIsTheLiveHost /\ WorkerIsOnAHost /\ OpenFilesHaveSessions
  BY DEF IInv
<1>2. UNCHANGED <<phase, current, closing, damaged, sessions, open, lost, late, worker>>
  BY DEF vars, hostVars, fileVars, historyVars
<1>3. TypeOK'
  <2>1. /\ phase' \in [Hosts -> {"new", "live", "broken", "deleted"}] /\ link' \in SUBSET Hosts
        /\ current' \in Hosts \cup {NoHost} /\ closing' \in Hosts \cup {NoHost}
    BY <1>1 DEF TypeOK, vars, hostVars
  <2> QED
    BY <1>1, <2>1, HostStepType DEF vars
<1>4. CurrentIsTheLiveHost' /\ WorkerIsOnAHost' /\ OpenFilesHaveSessions'
  BY <1>1, <1>2, CurrentKept, WorkerKept, OpenKept
<1>5. \A k \in Hosts \ {NoHost} : Untouched(k)
  BY DEF Untouched, vars, hostVars, bufferVars, fileVars, historyVars, clientVars
<1> QED
  BY <1>2, <1>3, <1>4, <1>5, <1>0, NoHostIsNone, StepOnHost

LEMMA NextKeeps == IInv /\ [Next]_vars => IInv'
<1> SUFFICES ASSUME IInv, [Next]_vars PROVE IInv'
  OBVIOUS
<1>1. ASSUME NEW call \in {"start", "chunk", "stop"}, NEW f \in Files, GetDeviceObj(call, f)
      PROVE  IInv'
  BY <1>1, GetDeviceObjKeeps
<1>2. ASSUME OnStartUpload PROVE IInv'
  BY <1>2, OnStartUploadKeeps
<1>3. ASSUME OnUploading PROVE IInv'
  BY <1>3, OnUploadingKeeps
<1>4. ASSUME OnStopUpload PROVE IInv'
  BY <1>4, OnStopUploadKeeps
<1>5. ASSUME NEW h \in Hosts, OnWrite(h) PROVE IInv'
  BY <1>5, OnWriteKeeps
<1>6. ASSUME NEW h \in Hosts, SpinTurn(h) PROVE IInv'
  BY <1>6, SpinTurnKeeps
<1>7. ASSUME NEW h \in Hosts, SpinFails(h) PROVE IInv'
  BY <1>7, SpinFailsKeeps
<1>8. ASSUME NEW h \in Hosts, SpinOnDeleted(h) PROVE IInv'
  BY <1>8, SpinOnDeletedKeeps
<1>9. ASSUME NEW h \in Hosts, NEW f \in Files, NEW state \in {"done", "failed"},
             OnMsgInfo(h, f, state)
      PROVE  IInv'
  BY <1>9, OnMsgInfoKeeps
<1>10. ASSUME NEW h \in Hosts, Register(h) PROVE IInv'
  BY <1>10, RegisterKeeps
<1>11. ASSUME NEW h \in Hosts, PeerGone(h) PROVE IInv'
  BY <1>11, PeerGoneKeeps
<1>12. ASSUME NEW h \in Hosts, DelDevice(h) PROVE IInv'
  BY <1>12, DelDeviceKeeps
<1>13. ASSUME NEW h \in Hosts, OnBroken(h) PROVE IInv'
  BY <1>13, OnBrokenKeeps
<1>14. ASSUME NEW h \in Hosts, Delete(h) PROVE IInv'
  BY <1>14, DeleteKeeps
<1>15. ASSUME NEW h \in Hosts, SentData(h) PROVE IInv'
  BY <1>15, SentDataKeeps
<1>16. ASSUME WorkerStep PROVE IInv'
  BY <1>16, EraseSessionKeeps, HandleOtherKeeps DEF WorkerStep
<1>17. ASSUME UNCHANGED vars PROVE IInv'
  BY <1>17, StutterKeeps
<1>18. ASSUME ClientStep PROVE IInv'
  BY <1>1, <1>2, <1>3, <1>4, <1>18 DEF ClientStep
<1>19. ASSUME NEW h \in Hosts, HostStep(h) PROVE IInv'
  BY <1>5, <1>6, <1>7, <1>8, <1>9, <1>10, <1>11, <1>12, <1>13, <1>14, <1>15, <1>19
     DEF HostStep
<1> QED
  BY <1>16, <1>17, <1>18, <1>19 DEF Next

LEMMA SpecIInv == Spec => []IInv
  BY InitIInv, NextKeeps, PTL DEF Spec

\* An open file has a session on the live host.
LEMMA SettledFollows == IInv => EveryUploadIsSettled
<1> SUFFICES ASSUME IInv, damaged = {}, NEW f \in open \ (lost \cup late)
             PROVE  \E h \in Hosts : phase[h] = "live" /\ f \in ToSet(sessions[h])
  BY DEF EveryUploadIsSettled
<1>1. TypeOK /\ OpenFilesHaveSessions
  BY DEF IInv
<1>2. PICK h \in Hosts : phase[h] = "live" /\ Num(Answered(h, f)) < Count(sessions[h], {f})
  BY <1>1 DEF OpenFilesHaveSessions
<1>3. sessions[h] \in Seq(Files) /\ Count(sessions[h], {f}) \in Nat /\ Num(Answered(h, f)) \in Nat
  BY <1>1, HostTypes, CountType DEF Num
<1>4. Count(sessions[h], {f}) > 0
  BY <1>2, <1>3
<1>5. f \in ToSet(sessions[h])
  BY <1>3, <1>4, CountPositive
<1> QED
  BY <1>2, <1>5

\* The stream of a host in use, put together.
LEMMA NothingIsMissingFollows == IInv => NothingIsMissing
<1> SUFFICES ASSUME IInv, NEW h \in Hosts \ damaged, phase[h] = "live", h # closing
             PROVE  /\ Len(writing[h] \o queue[h]) = pushed[h] - got[h]
                    /\ \A i \in DOMAIN (writing[h] \o queue[h]) :
                           (writing[h] \o queue[h])[i].n = got[h] + i
  BY DEF NothingIsMissing
<1>1. TypeOK /\ StreamOf(h)
  BY OnHost DEF IInv, InUse
<1> DEFINE q == queue[h]
           w == writing[h]
           g == got[h]
           p == pushed[h]
           T == Messages \cup {Nothing}
<1>2. q \in Seq(T) /\ w \in Seq(T) /\ g \in Nat /\ p \in Nat
  <2>1. q \in Seq(Messages) /\ w \in Seq(Message \cup {Nothing}) /\ g \in Nat /\ p \in Nat
    BY <1>1, HostTypes
  <2>2. Messages \subseteq T /\ (Message \cup {Nothing}) \subseteq T
    BY DEF Messages
  <2> HIDE DEF T, q, w, g, p
  <2> QED
    BY <2>1, <2>2
<1>3. /\ Len(w) + Len(q) = p - g
      /\ \A i \in 1 .. Len(w) : w[i].n = g + i
      /\ \A i \in 1 .. Len(q) : q[i].n = g + Len(w) + i
  BY <1>1 DEF StreamOf, StreamOK
<1> DEFINE rest == w \o q
<1> HIDE DEF q, w, g, p, T
<1>4. /\ rest \in Seq(T)
      /\ Len(rest) = Len(w) + Len(q)
      /\ \A i \in 1 .. (Len(w) + Len(q)) :
             rest[i] = IF i <= Len(w) THEN w[i] ELSE q[i - Len(w)]
  BY <1>2, ConcatProperties, Zenon
<1>5. Len(w) \in Nat /\ Len(q) \in Nat
  BY <1>2, LenIsNat
<1> HIDE DEF rest
<1>6. DOMAIN rest = 1 .. (Len(w) + Len(q))
  BY <1>4, <1>5
<1>7. ASSUME NEW i \in DOMAIN rest PROVE rest[i].n = g + i
  <2>1. rest[i] = IF i <= Len(w) THEN w[i] ELSE q[i - Len(w)]
    BY <1>4, <1>6
  <2>2. CASE i <= Len(w)
    <3>1. i \in 1 .. Len(w)
      BY <1>5, <1>6, <2>2
    <3> QED
      BY <1>3, <2>1, <2>2, <3>1
  <2>3. CASE ~ (i <= Len(w))
    <3>1. i - Len(w) \in 1 .. Len(q) /\ g + Len(w) + (i - Len(w)) = g + i
      BY <1>2, <1>5, <1>6, <2>3
    <3>2. q[i - Len(w)].n = g + Len(w) + (i - Len(w))
      BY <1>3, <3>1
    <3> QED
      BY <2>1, <2>3, <3>1, <3>2
  <2> QED
    BY <2>2, <2>3
<1>8. Len(rest) = p - g
  BY <1>3, <1>4
<1> QED
  BY <1>7, <1>8 DEF rest, q, w, g, p

\* The count of loops, put together.
LEMMA LoopsFollow == IInv => LoopsMatchUploads
<1> SUFFICES ASSUME IInv, NEW h \in Hosts \ damaged, phase[h] = "live", h # closing
             PROVE  Loops(h) + (IF sending = h THEN 1 ELSE 0) - Terminators(h) = starts[h] - stops[h]
  BY DEF LoopsMatchUploads
<1>1. TypeOK /\ StreamOf(h)
  BY OnHost DEF IInv, InUse
<1>2. Len(writing[h]) + Num(Spins(h)) + Num(sending = h) - Count(queue[h], Terminator)
          = starts[h] - stops[h]
  BY <1>1 DEF StreamOf, StreamOK
<1>3. Terminators(h) = Count(queue[h], Terminator)
  <2>1. queue[h] \in Seq(Messages)
    BY <1>1, HostTypes
  <2>2. \A i \in DOMAIN queue[h] : queue[h][i].kind = "end" <=> queue[h][i] \in Terminator
    BY <2>1, MessageFacts
  <2>3. {i \in DOMAIN queue[h] : queue[h][i].kind = "end"}
            = {i \in DOMAIN queue[h] : queue[h][i] \in Terminator}
    BY <2>2
  <2> QED
    BY <2>3 DEF Terminators, Count
<1>4. Loops(h) = Len(writing[h]) + Num(Spins(h)) /\ (IF sending = h THEN 1 ELSE 0) = Num(sending = h)
  BY DEF Loops, Num
<1> QED
  BY <1>2, <1>3, <1>4

-------------------------------------------------------------------------------

\* TypeOK holds for any number of files, connections and calls: in particular the upload buffer never has more messages than it has room for.
THEOREM TypeCorrect == Spec => []TypeOK
<1>1. IInv => TypeOK
  BY DEF IInv
<1> QED
  BY <1>1, SpecIInv, PTL

\* EveryUploadIsSettled: a file that was given to a host before its OnBroken is answered, or
\* it is still among the sessions that OnBroken writes down as failed, whatever the order in
\* which the client service's worker, with the host it had looked up, the device service's
\* worker and the timer get to the host.
THEOREM UploadsAreSettled == Spec => []EveryUploadIsSettled
  BY SettledFollows, SpecIInv, PTL

\* NothingIsMissing: unless the buffer overflowed or two loops shared m_writeBuff, the
\* write loop hands the messages to the device in the order in which they were put in.
THEOREM StreamsAreComplete == Spec => []NothingIsMissing
  BY NothingIsMissingFollows, SpecIInv, PTL

\* LoopsMatchUploads: the write loops of a host, with the terminators that will end
\* them, are as many as the uploads that were started and not stopped.
THEOREM LoopsAreCounted == Spec => []LoopsMatchUploads
  BY LoopsFollow, SpecIInv, PTL

-------------------------------------------------------------------------------

(***************************************************************************)
(* The worker's waiting.                                                   *)
(***************************************************************************)

\* The device worker waits in a host's sleep loop, with nothing to write, only while an
\* upload to that host goes on; so the end of the uploads lets it go.
WaitsOnlyForUploads ==
    \A h \in Hosts \ damaged :
        InUse(h) /\ Spins(h) /\ queue[h] = <<>> => starts[h] > stops[h]

LEMMA WaitingFollows == IInv => WaitsOnlyForUploads
<1> SUFFICES ASSUME IInv, NEW h \in Hosts \ damaged, InUse(h), Spins(h), queue[h] = <<>>
             PROVE  starts[h] > stops[h]
  BY DEF WaitsOnlyForUploads
<1>1. TypeOK /\ StreamOf(h)
  BY OnHost DEF IInv
<1>2. Len(writing[h]) + Num(Spins(h)) + Num(sending = h) - Count(queue[h], Terminator)
          = starts[h] - stops[h]
  BY <1>1 DEF StreamOf, StreamOK
<1>3. Count(queue[h], Terminator) = 0
  BY CountEmpty
<1>4. Num(Spins(h)) = 1 /\ Num(sending = h) \in {0, 1}
  BY DEF Num
<1>5. Len(writing[h]) \in Nat /\ starts[h] \in Nat /\ stops[h] \in Nat
  BY <1>1, HostTypes, LenIsNat
<1> DEFINE waits == Num(Spins(h))
           starting == Num(sending = h)
           ends == Count(queue[h], Terminator)
<1> HIDE DEF waits, starting, ends
<1>6. Len(writing[h]) + waits + starting - ends = starts[h] - stops[h]
  BY <1>2 DEF waits, starting, ends
<1>7. ends = 0 /\ waits = 1 /\ starting \in {0, 1}
  BY <1>3, <1>4 DEF waits, starting, ends
<1> QED
  BY <1>5, <1>6, <1>7

\* OnWrite's loop does not hold the only device worker for uploads that are over, whatever
\* the order in which they are started and stopped (CXlHost::OnStopUpload,
\* CTcpServer4Device::OnWrite).
THEOREM WorkerWaitsForUploads == Spec => []WaitsOnlyForUploads
  BY WaitingFollows, SpecIInv, PTL

-------------------------------------------------------------------------------

(***************************************************************************)
(* The files of a device that is lost.                                     *)
(***************************************************************************)

Unsettled(f) == damaged = {} /\ f \in open \ (lost \cup late)

\* The device of h is gone, and DelDevice has not told the host.
DeviceIsLost(h) == phase[h] = "live" /\ h \notin link

\* The only host that can lose its device is the one m_devMap has.
LEMMA LostHostFacts ==
    ASSUME IInv, NEW h \in Hosts, DeviceIsLost(h)
    PROVE  current = h /\ closing \in {NoHost, h}
  BY DEF IInv, CurrentIsTheLiveHost, DeviceIsLost

\* A lost device stays lost until OnBroken; a deletion begun is not taken back.
LEMMA LostStaysLost ==
    ASSUME IInv, [Next]_vars, NEW h \in Hosts, DeviceIsLost(h), ~ OnBroken(h)
    PROVE  /\ DeviceIsLost(h)'
           /\ closing = h => closing' = h
<1>0. /\ phase \in [Hosts -> {"new", "live", "broken", "deleted"}]
      /\ phase[h] = "live" /\ h \notin link /\ h # NoHost
      /\ current = h /\ closing \in {NoHost, h}
  BY LostHostFacts, NoHostIsNone DEF IInv, TypeOK, DeviceIsLost
<1> DEFINE Goal == DeviceIsLost(h)' /\ (closing = h => closing' = h)
<1>1. ASSUME UNCHANGED <<phase, link>>, closing' = closing \/ closing = NoHost PROVE Goal
  BY <1>0, <1>1 DEF DeviceIsLost
<1>2. ASSUME ClientStep PROVE Goal
  BY <1>1, <1>2 DEF ClientStep, GetDeviceObj, OnStartUpload, OnUploading, OnStopUpload, hostVars
<1>3. ASSUME NEW k \in Hosts, SentData(k) PROVE Goal
  BY <1>1, <1>3 DEF SentData
<1>4. ASSUME WorkerStep PROVE Goal
  BY <1>1, <1>4 DEF WorkerStep, HandleOther, OtherHandled, EraseSession, hostVars
<1>5. ASSUME NEW k \in Hosts, OnWrite(k) \/ SpinTurn(k) \/ SpinOnDeleted(k) PROVE Goal
  BY <1>1, <1>5 DEF OnWrite, SpinTurn, SpinOnDeleted, hostVars
<1>6. ASSUME NEW k \in Hosts, SpinFails(k) \/ DelDevice(k) PROVE Goal
  BY <1>1, <1>6 DEF SpinFails, DelDevice
<1>7. ASSUME NEW k \in Hosts, NEW f \in Files, NEW st \in {"done", "failed"}, OnMsgInfo(k, f, st)
      PROVE  Goal
  BY <1>1, <1>7 DEF OnMsgInfo, hostVars
<1>8. ASSUME NEW k \in Hosts, Register(k) PROVE Goal
  BY <1>0, <1>8 DEF Register
<1>9. ASSUME NEW k \in Hosts, PeerGone(k) PROVE Goal
  BY <1>0, <1>9 DEF PeerGone, DeviceIsLost
<1>10. ASSUME NEW k \in Hosts, OnBroken(k) PROVE Goal
  BY <1>0, <1>10, NoHostIsNone DEF OnBroken
<1>11. ASSUME NEW k \in Hosts, Delete(k) PROVE Goal
  BY <1>0, <1>11, NoHostIsNone DEF Delete
<1>12. ASSUME UNCHANGED vars PROVE Goal
  BY <1>1, <1>12 DEF vars, hostVars
<1> HIDE DEF Goal
<1>13. Goal
  BY <1>2, <1>3, <1>4, <1>5, <1>6, <1>7, <1>8, <1>9, <1>10, <1>11, <1>12 DEF Next, HostStep
<1> QED
  BY <1>13 DEF Goal

\* OnBroken of the only live host settles every file that is open, or its UPDATE fails.
LEMMA BrokenSettles ==
    ASSUME IInv, NEW h \in Hosts, NEW f \in Files, OnBroken(h), Unsettled(f)
    PROVE  ~ Unsettled(f)'
<1>1. PICK failing \in SUBSET ToSet(sessions[h]) :
          /\ open' = open \ (ToSet(sessions[h]) \ failing)
          /\ lost' = lost \cup failing
          /\ late' = late
  BY DEF OnBroken, UpdateFileInfo
<1>2. PICK k \in Hosts : phase[k] = "live" /\ f \in ToSet(sessions[k])
  BY SettledFollows DEF EveryUploadIsSettled, Unsettled
<1>3. k = h
  BY <1>2, NoHostIsNone DEF OnBroken, IInv, CurrentIsTheLiveHost
<1> QED
  BY <1>1, <1>2, <1>3 DEF Unsettled

\* DelDevice can begin for a lost device when no deletion is under way, and what it has
\* begun can go on: no lock is held and no statement waits for more than the database.
LossCanBeHandled(h) ==
    /\ [](DeviceIsLost(h) /\ closing = NoHost => ENABLED <<h \notin link /\ DelDevice(h)>>_vars)
    /\ [](DeviceIsLost(h) /\ closing = h => ENABLED <<OnBroken(h)>>_vars)

\* A file that was given to a device which is then lost is settled in the end: the device's
\* answer had come, or the loss is written down, or the UPDATE fails, or it is given again,
\* to a host that is not told of the loss any more (late).  The sessions that
\* SessionsCoverStarts counts are what makes the last step reach the file.
THEOREM LostUploadsAreSettled ==
    ASSUME NEW h \in Hosts, NEW f \in Files
    PROVE  Spec /\ LossCanBeHandled(h) => (DeviceIsLost(h) /\ Unsettled(f) ~> ~ Unsettled(f))
<1> DEFINE Noticed == DeviceIsLost(h) /\ closing = NoHost
           Closing == DeviceIsLost(h) /\ closing = h
           Open == Unsettled(f)
<1>1. IInv /\ DeviceIsLost(h) => Noticed \/ Closing
  BY LostHostFacts
<1>2. IInv /\ [Next]_vars /\ Noticed /\ Open => Noticed' \/ Closing' \/ ~ Open'
  <2> SUFFICES ASSUME IInv, [Next]_vars, Noticed, Open, Open' PROVE Noticed' \/ Closing'
    OBVIOUS
  <2>1. ~ OnBroken(h)
    BY BrokenSettles
  <2>2. DeviceIsLost(h)' /\ IInv'
    BY <2>1, LostStaysLost, NextKeeps
  <2>3. closing' \in {NoHost, h}
    BY <2>2 DEF IInv, CurrentIsTheLiveHost, DeviceIsLost
  <2> QED
    BY <2>2, <2>3
<1>3. IInv /\ [Next]_vars /\ Closing /\ Open => Closing' \/ ~ Open'
  BY LostStaysLost, BrokenSettles
<1>4. Noticed /\ <<h \notin link /\ DelDevice(h)>>_vars => Closing'
  BY DEF DelDevice, DeviceIsLost
<1>5. IInv /\ Open /\ <<OnBroken(h)>>_vars => ~ Open'
  BY BrokenSettles
<1>6. HostsGoOn => HostGoesOn(h)
  BY DEF HostsGoOn
<1>7. Noticed => DeviceIsLost(h) /\ closing = NoHost
  OBVIOUS
<1>8. Closing => DeviceIsLost(h) /\ closing = h
  OBVIOUS
<1> HIDE DEF Noticed, Closing
<1> QED
  BY <1>1, <1>2, <1>3, <1>4, <1>5, <1>6, <1>7, <1>8, SpecIInv, PTL
     DEF Spec, Fairness, HostGoesOn, LossCanBeHandled

===============================================================================
