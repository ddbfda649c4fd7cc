---------------------------- MODULE RealPlayProofs ----------------------------
(***************************************************************************)
(* Proofs about RealPlay for any number of clients, hosts and channels.    *)
(* The counts need what every call under way still owes: a play that has   *)
(* attached its buffer and not yet counted, a stop that has counted and    *)
(* not yet taken the buffer out.  That a view never outlives its host      *)
(* object needs the way the news of its loss takes: who has a view that is *)
(* not late is a subscriber, and while a host is being deleted the views   *)
(* still marked connected belong to clients the message has yet to reach.  *)
(* That an announced host feeds its views needs how far the loop over the  *)
(* views of the client that is just being told has come.                   *)
(***************************************************************************)
EXTENDS RealPlay, SequenceTheorems, WellFoundedInduction, TLAPS

PlayPlaces == {"make", "open", "lost", "count", "list"}
StopPlaces == {"uncount", "close", "remake", "erase"}

PlacesOf(t) ==
    CASE t = "worker"  -> {"idle", "read"} \cup PlayPlaces \cup StopPlaces
      [] t = "bus"     -> {"idle", "read", "make", "open", "lost", "count"}
      [] t = "stopper" -> {"idle", "read", "uncount", "close", "remake", "leave"}

\* What a call's place says of it: which stream it is about, that a live pointer
\* is of a registered host, and that a channel was found or made.
CallFits(t) ==
    LET c == call[t]
    IN  /\ c.at \in PlacesOf(t)
        /\ c.at = "idle" <=> c.cl = NoClient
        /\ c.at \in PlayPlaces \cup StopPlaces => c.k \in Streams
        /\ c.at \in {"idle", "read", "leave"} => c.k = NoStream /\ ~ c.live
        /\ c.live => Registered(c.k)
        /\ c.live /\ c.at \in {"open", "lost", "count", "list"} => c.k \in made
        /\ c.live /\ c.at = "lost" => c.k \in replaced

CallsFit == \A t \in Threads : CallFits(t)

\* The worker and the stopper never work for one client, nor do the bus and the
\* stopper under m_vecLocker; the bus works while "connected" is delivered; who
\* is deleted has no views.
ThreadsFit ==
    /\ call["worker"].cl \notin gone
    /\ call["stopper"].cl \notin gone
    /\ call["stopper"].at # "idle" => call["worker"].cl # call["stopper"].cl
    /\ call["stopper"].at \notin {"idle", "leave"} => call["bus"].cl # call["stopper"].cl
    /\ call["bus"].at # "idle" => bus.msg = "connected"
    /\ \A cl \in Clients :
           cl \in gone \/ (call["stopper"].cl = cl /\ call["stopper"].at = "leave")
           => \A k \in Streams : views[cl][k] = "none"

\* A host that is not in m_devMap has no object, hence no link and no channels,
\* and a channel that has not been made counts and feeds nothing.
UnmadeAreEmpty ==
    /\ \A h \in Hosts : phase[h] = "away" => ~ link[h]
    /\ \A k \in Streams : phase[k[1]] = "away" => k \notin made /\ ~ streaming[k]
    /\ \A k \in Streams : k \notin made => nRef[k] = 0 /\ rings[k] = <<>>

\* A client has a view only of what it wants; a play under way has no view yet,
\* a reconnection under way has one.
ViewsFit ==
    /\ \A cl \in Clients, k \in Streams : views[cl][k] # "none" => k \in wanted[cl]
    /\ \A cl \in Clients :
           call["worker"].cl = cl /\ call["worker"].at \in PlayPlaces
           => /\ views[cl][call["worker"].k] = "none"
              /\ call["worker"].k \in wanted[cl]
    /\ \A cl \in Clients, k \in Streams :
           call["bus"].cl = cl /\ (k \in call["bus"].left \/ k = call["bus"].k)
           => views[cl][k] # "none"

\* While a view is opened again the worker does not stop it, except where
\* crossed says so.
CrossingsAreKnown ==
    \A k \in Streams \ crossed :
        call["bus"].k = k => ~ Stops("worker", call["bus"].cl, k)

\* A play that is to be counted or entered has its buffer attached, unless its
\* own client takes it out.
PlaysAreAttached ==
    \A t \in Threads :
        LET c == call[t]
        IN  /\ c.live
            /\ c.at \in {"count", "list"}
            /\ c.k \notin replaced
            /\ ~ Stops("worker", c.cl, c.k)
            => Contains(rings[c.k], c.cl)

\* One more reference to come, or one buffer less.
Owed(t, k) ==
    IF /\ call[t].live
       /\ call[t].k = k
       /\ \/ call[t].at = "count"
          \/ call[t].at = "close" /\ Contains(rings[k], call[t].cl)
    THEN 1 ELSE 0

\* The buffers cover the references and what is owed.
DebtsAreCovered ==
    \A k \in Streams \ (replaced \cup crossed) :
        nRef[k] + Owed("worker", k) + Owed("bus", k) + Owed("stopper", k) <= Len(rings[k])

\* xlc_host_broken is on the bus only inside the DelDevice of its host, and a
\* message is addressed to subscribers.
NewsFits ==
    /\ BusFree => bus.todo = <<>>
    /\ bus.msg = "broken" => bus.host \in Hosts /\ closing = bus.host
    /\ \A cl \in Clients : Contains(bus.todo, cl) => Contains(subscribers, cl)

\* Who has a view that is not late is a subscriber.
ViewersAreSubscribed ==
    \A cl \in Clients, k \in Streams :
        views[cl][k] = "broken" \/ (views[cl][k] # "none" /\ k \notin late[cl])
        => Contains(subscribers, cl)

\* While a host is deleted, a view of it that is not late is marked connected
\* only if its client is still to be told.
LossIsStillToBeHeard ==
    \A cl \in Clients, k \in Streams :
        /\ bus.msg = "broken"
        /\ bus.host = k[1]
        /\ views[cl][k] = "connected"
        /\ k \notin late[cl]
        => Contains(bus.todo, cl)

\* Of the client that is just being told, a broken view of an announced host is
\* attached or will be.
DeliveryGoesOn ==
    \A cl \in Clients, k \in Streams \ replaced :
        /\ call["bus"].cl = cl
        /\ views[cl][k] = "broken"
        /\ phase[k[1]] = "announced"
        /\ ~ BeingStopped(cl, k)
        => \/ Contains(rings[k], cl)
           \/ k \in call["bus"].left
           \/ /\ call["bus"].k = k
              /\ call["bus"].live
              /\ call["bus"].at \in {"make", "open"}

\* The inductive invariant.
IInv ==
    /\ TypeOK
    /\ CallsFit
    /\ ThreadsFit
    /\ UnmadeAreEmpty
    /\ StreamingMatchesRefs
    /\ ViewsFit
    /\ CrossingsAreKnown
    /\ PlaysAreAttached
    /\ DebtsAreCovered
    /\ NewsFits
    /\ ViewersAreSubscribed
    /\ LossIsStillToBeHeard
    /\ ConnectedViewsAreAttached
    /\ AnnouncedHostsFeedTheirViews
    /\ DeliveryGoesOn

-------------------------------------------------------------------------------

(***************************************************************************)
(* Sequences: m_vecRingBuffer and the subscribers' list.                   *)
(***************************************************************************)

\* A non-empty set of natural numbers has a least element.
LEMMA LeastExists ==
    ASSUME NEW I, I \subseteq Nat, I # {}
    PROVE  \E x \in I : \A y \in I : x <= y
<1> DEFINE R == OpToRel(<, Nat)
<1>1. IsWellFoundedOn(R, Nat)
  BY NatLessThanWellFounded
<1>2. \E x \in I : \A y \in I : ~ (<<y, x>> \in R)
  <2> HIDE DEF R
  <2> QED BY <1>1, WFMin
<1>3. \A x, y \in Nat : ~ (<<y, x>> \in R) => x <= y
  BY DEF OpToRel
<1> QED
  BY <1>2, <1>3

\* Taking out the first occurrence of e shortens the sequence by at most one and
\* loses nothing but e (DelRingBuffer; SubscribeMsg with bSub = false).
LEMMA RemoveFirstFacts ==
    ASSUME NEW S, NEW s \in Seq(S), NEW e
    PROVE  /\ RemoveFirst(s, e) \in Seq(S)
           /\ Len(RemoveFirst(s, e)) \in Nat
           /\ Len(RemoveFirst(s, e)) <= Len(s)
           /\ Len(RemoveFirst(s, e)) >= Len(s) - 1
           /\ \A d : d # e /\ Contains(s, d) => Contains(RemoveFirst(s, e), d)
           /\ \A d : Contains(RemoveFirst(s, e), d) => Contains(s, d)
           /\ ~ Contains(s, e) => RemoveFirst(s, e) = s
<1> DEFINE I == {i \in 1 .. Len(s) : s[i] = e}
<1> DEFINE at == Min(I)
<1>1. CASE I = {}
  <2>1. RemoveFirst(s, e) = s
    BY <1>1 DEF RemoveFirst
  <2> QED
    BY <2>1
<1>2. CASE I # {}
  <2>1. at \in I
    <3>1. \E x \in I : \A y \in I : x <= y
      <4>1. I \subseteq Nat
        OBVIOUS
      <4> HIDE DEF I
      <4> QED BY <1>2, <4>1, LeastExists
    <3> QED
      BY <3>1 DEF Min
  <2>2. RemoveFirst(s, e) = SubSeq(s, 1, at - 1) \o SubSeq(s, at + 1, Len(s))
    BY <1>2 DEF RemoveFirst, RemoveAt, SelectInSeq
  <2>3. at \in 1 .. Len(s) /\ s[at] = e /\ Len(s) \in Nat
    BY <2>1
  <2> DEFINE front == SubSeq(s, 1, at - 1)
             back  == SubSeq(s, at + 1, Len(s))
             rest  == front \o back
  <2> HIDE DEF at, I
  <2>4. /\ front \in Seq(S)
        /\ Len(front) = at - 1
        /\ \A i \in 1 .. (at - 1) : front[i] = s[i]
    BY <2>3
  <2>5. /\ back \in Seq(S)
        /\ Len(back) = Len(s) - at
        /\ \A i \in 1 .. (Len(s) - at) : back[i] = s[at + i]
    BY <2>3
  <2>6. RemoveFirst(s, e) = rest
    BY <2>2
  <2> HIDE DEF front, back
  <2>7. /\ rest \in Seq(S)
        /\ Len(rest) = Len(front) + Len(back)
        /\ \A i \in 1 .. (Len(front) + Len(back)) :
               rest[i] = IF i <= Len(front) THEN front[i] ELSE back[i - Len(front)]
    BY <2>4, <2>5, ConcatProperties, Zenon
  <2>8. /\ Len(rest) = Len(s) - 1
        /\ \A i \in 1 .. Len(rest) :
               rest[i] = IF i <= Len(front) THEN front[i] ELSE back[i - Len(front)]
    <3>1. Len(rest) = Len(front) + Len(back)
      BY <2>7
    <3>2. Len(front) + Len(back) = Len(s) - 1
      BY <2>3, <2>4, <2>5
    <3> HIDE DEF rest
    <3> QED
      BY <2>7, <3>1, <3>2, Zenon
  <2>9. ASSUME NEW d, d # e, Contains(s, d)
        PROVE  Contains(rest, d)
    <3> HIDE DEF rest
    <3>1. PICK i \in 1 .. Len(s) : s[i] = d
      BY <2>9 DEF Contains
    <3>2. CASE i < at
      <4>1. i \in 1 .. (at - 1) /\ i \in 1 .. Len(rest) /\ i <= Len(front)
        BY <3>1, <3>2, <2>3, <2>4, <2>8
      <4>2. rest[i] = d
        BY <4>1, <3>1, <2>4, <2>8
      <4> QED
        BY <4>1, <4>2 DEF Contains
    <3>3. CASE i > at
      <4>1. /\ i - 1 \in 1 .. Len(rest)
            /\ ~ (i - 1 <= Len(front))
            /\ (i - 1) - Len(front) = i - at
            /\ i - at \in 1 .. (Len(s) - at)
            /\ at + (i - at) = i
        BY <3>1, <3>3, <2>3, <2>4, <2>8
      <4>2. rest[i - 1] = back[i - at]
        BY <4>1, <2>8
      <4>3. rest[i - 1] = d
        BY <4>1, <4>2, <3>1, <2>5
      <4> QED
        BY <4>1, <4>3 DEF Contains
    <3> QED
      BY <3>1, <3>2, <3>3, <2>3, <2>9
  <2> HIDE DEF rest
  <2>10. ASSUME NEW d, Contains(rest, d)
         PROVE  Contains(s, d)
    <3>1. PICK i \in 1 .. Len(rest) : rest[i] = d
      BY <2>10 DEF Contains
    <3>2. CASE i <= Len(front)
      <4>1. i \in 1 .. (at - 1) /\ i \in 1 .. Len(s)
        BY <3>2, <2>3, <2>4, <2>8
      <4>2. s[i] = d
        BY <4>1, <3>1, <3>2, <2>4, <2>8
      <4> QED
        BY <4>1, <4>2 DEF Contains
    <3>3. CASE ~ (i <= Len(front))
      <4>1. /\ i - Len(front) \in 1 .. (Len(s) - at)
            /\ at + (i - Len(front)) \in 1 .. Len(s)
        BY <3>3, <2>3, <2>4, <2>8
      <4>2. s[at + (i - Len(front))] = d
        BY <4>1, <3>1, <3>3, <2>5, <2>8
      <4> QED
        BY <4>1, <4>2 DEF Contains
    <3> QED
      BY <3>2, <3>3
  <2>11. Contains(s, e)
    BY <2>3 DEF Contains
  <2> QED
    BY <2>3, <2>6, <2>7, <2>8, <2>9, <2>10, <2>11
<1> QED
  BY <1>1, <1>2

\* Appending keeps what is there and adds the new element (AddRingBuffer).
LEMMA AppendFacts ==
    ASSUME NEW S, NEW s \in Seq(S), NEW e \in S
    PROVE  /\ Append(s, e) \in Seq(S)
           /\ Len(Append(s, e)) = Len(s) + 1
           /\ Contains(Append(s, e), e)
           /\ \A d : Contains(s, d) => Contains(Append(s, e), d)
           /\ \A d : d # e /\ Contains(Append(s, e), d) => Contains(s, d)
<1>1. /\ Append(s, e) \in Seq(S)
      /\ Len(Append(s, e)) = Len(s) + 1
      /\ \A i \in 1 .. Len(s) : Append(s, e)[i] = s[i]
      /\ Append(s, e)[Len(s) + 1] = e
      /\ Len(s) \in Nat
  OBVIOUS
<1> QED
  BY <1>1 DEF Contains

\* Whoever is in a list and not at its head is in the rest (OnMessage's loop).
LEMMA TailFacts ==
    ASSUME NEW S, NEW s \in Seq(S), s # <<>>
    PROVE  /\ Head(s) \in S
           /\ Tail(s) \in Seq(S)
           /\ \A d : Contains(s, d) /\ d # Head(s) => Contains(Tail(s), d)
           /\ \A d : Contains(Tail(s), d) => Contains(s, d)
<1>1. /\ Head(s) = s[1]
      /\ Head(s) \in S
      /\ Tail(s) \in Seq(S)
      /\ Len(Tail(s)) = Len(s) - 1
      /\ \A i \in 1 .. (Len(s) - 1) : Tail(s)[i] = s[i + 1]
      /\ Len(s) \in Nat \ {0}
  OBVIOUS
<1>2. ASSUME NEW d, Contains(s, d), d # Head(s) PROVE Contains(Tail(s), d)
  <2>1. PICK i \in 1 .. Len(s) : s[i] = d
    BY <1>2 DEF Contains
  <2>2. i - 1 \in 1 .. (Len(s) - 1) /\ (i - 1) + 1 = i
    BY <2>1, <1>1, <1>2
  <2>3. Tail(s)[i - 1] = d
    BY <2>1, <2>2, <1>1
  <2> QED
    BY <2>2, <2>3, <1>1 DEF Contains
<1>3. ASSUME NEW d, Contains(Tail(s), d) PROVE Contains(s, d)
  <2>1. PICK i \in 1 .. Len(Tail(s)) : Tail(s)[i] = d
    BY <1>3 DEF Contains
  <2> QED
    BY <2>1, <1>1 DEF Contains
<1> QED
  BY <1>1, <1>2, <1>3

-------------------------------------------------------------------------------

(***************************************************************************)
(* The pieces the actions are made of.                                     *)
(***************************************************************************)

CallType == [cl : Clients \cup {NoClient}, k : Streams \cup {NoStream},
             at : Places, live : BOOLEAN, left : SUBSET Streams]

\* A stream belongs to one host and is not "no stream".
LEMMA StreamHost ==
    /\ \A k \in Streams : k[1] \in Hosts
    /\ \A k \in Streams, h \in Hosts : k \in StreamsOf(h) <=> k[1] = h
    /\ NoStream \notin Streams
  BY RealPlayAssumption DEF Streams, StreamsOf, NoStream

\* What TypeOK says of one call.
LEMMA CallTyped ==
    ASSUME TypeOK
    PROVE  /\ call \in [Threads -> CallType]
           /\ \A t \in Threads :
                  /\ call[t].cl \in Clients \cup {NoClient}
                  /\ call[t].k \in Streams \cup {NoStream}
                  /\ call[t].at \in Places
                  /\ call[t].live \in BOOLEAN
                  /\ call[t].left \in SUBSET Streams
  BY DEF TypeOK, CallType

LEMMA NoCallTyped == NoCall \in CallType
  BY DEF NoCall, CallType, Places

\* Only thread t goes on, to the place it names.
LEMMA PlaceSet ==
    ASSUME TypeOK, NEW t \in Threads, NEW at \in Places,
           call' = [call EXCEPT ![t].at = at]
    PROVE  /\ call' \in [Threads -> CallType]
           /\ call'[t] = [call[t] EXCEPT !.at = at]
           /\ call'[t].cl = call[t].cl
           /\ call'[t].k = call[t].k
           /\ call'[t].at = at
           /\ call'[t].live = call[t].live
           /\ call'[t].left = call[t].left
           /\ \A u \in Threads \ {t} : call'[u] = call[u]
<1>1. call \in [Threads -> CallType]
  BY CallTyped
<1>2. call[t] \in CallType
  BY <1>1
<1>3. [call[t] EXCEPT !.at = at] \in CallType
  BY <1>2 DEF CallType
<1>4. call' = [call EXCEPT ![t] = [call[t] EXCEPT !.at = at]]
  BY <1>1
<1> QED
  BY <1>1, <1>2, <1>3, <1>4 DEF CallType

\* Only thread t's call is another one.
LEMMA CallSet ==
    ASSUME TypeOK, NEW t \in Threads, NEW r \in CallType,
           call' = [call EXCEPT ![t] = r]
    PROVE  /\ call' \in [Threads -> CallType]
           /\ call'[t] = r
           /\ \A u \in Threads \ {t} : call'[u] = call[u]
  BY CallTyped

\* A stop is over for the host: StopView erases the entry, StopAllReal goes on.
LEMMA StoppedFacts ==
    ASSUME TypeOK, NEW t \in Threads
    PROVE  /\ NextEntry(t) \in CallType
           /\ NextEntry(t).cl = call[t].cl
           /\ NextEntry(t).k = NoStream
           /\ NextEntry(t).at = "read"
           /\ ~ NextEntry(t).live
           /\ NextEntry(t).left = call[t].left
           /\ Stopped(t) \in CallType
           /\ Stopped(t).cl = call[t].cl
           /\ Stopped(t).left = call[t].left
           /\ t = "worker" => /\ Stopped(t).k = call[t].k
                              /\ Stopped(t).at = "erase"
                              /\ Stopped(t).live = call[t].live
           /\ t # "worker" => Stopped(t) = NextEntry(t)
<1>1. call[t] \in CallType
  BY CallTyped
<1>2. "erase" \in Places /\ "read" \in Places
  BY DEF Places
<1> QED
  BY <1>1, <1>2 DEF CallType, NextEntry, Stopped

\* A look-up that finds the host: the call is about stream k of a living object.
LEMMA GetDeviceFacts ==
    ASSUME TypeOK, NEW t \in Threads, NEW k \in Streams, NEW left \in SUBSET Streams,
           NEW at \in Places,
           call' = [call EXCEPT ![t] =
                       [cl |-> @.cl, k |-> k, at |-> at, live |-> TRUE, left |-> left]]
    PROVE  /\ call' \in [Threads -> CallType]
           /\ \A u \in Threads \ {t} : call'[u] = call[u]
           /\ call'[t].cl = call[t].cl
           /\ call'[t].k = k
           /\ call'[t].at = at
           /\ call'[t].live
           /\ call'[t].left = left
<1> DEFINE r == [cl |-> call[t].cl, k |-> k, at |-> at, live |-> TRUE, left |-> left]
<1>1. call \in [Threads -> CallType] /\ call[t] \in CallType
  BY CallTyped
<1>2. r \in CallType
  BY <1>1 DEF CallType
<1>3. call' = [call EXCEPT ![t] = r]
  BY <1>1
<1>4. /\ call' \in [Threads -> CallType]
      /\ call'[t] = r
      /\ \A u \in Threads \ {t} : call'[u] = call[u]
  BY <1>2, <1>3, CallSet
<1> QED
  BY <1>4

\* A play that finds the host found its channel, or has to make one.
LEMMA GetForPlayFacts ==
    ASSUME TypeOK, NEW t \in Threads, NEW k \in Streams, NEW left \in SUBSET Streams,
           GetForPlay(t, k, left)
    PROVE  /\ call' \in [Threads -> CallType]
           /\ \A u \in Threads \ {t} : call'[u] = call[u]
           /\ call'[t].cl = call[t].cl
           /\ call'[t].k = k
           /\ call'[t].live
           /\ call'[t].left = left
           /\ call'[t].at = "make" \/ (call'[t].at = "open" /\ k \in made)
<1>1. "make" \in Places /\ "open" \in Places
  BY DEF Places
<1>2. \/ k \in made /\ GetDeviceObj(t, k, "open", left)
      \/ GetDeviceObj(t, k, "make", left)
  BY DEF GetForPlay
<1>3. CASE k \in made /\ GetDeviceObj(t, k, "open", left)
  BY <1>1, <1>3, GetDeviceFacts DEF GetDeviceObj
<1>4. CASE GetDeviceObj(t, k, "make", left)
  BY <1>1, <1>4, GetDeviceFacts DEF GetDeviceObj
<1> QED
  BY <1>2, <1>3, <1>4

-------------------------------------------------------------------------------

(***************************************************************************)
(* The steps of a call.                                                    *)
(***************************************************************************)

\* A buffer is attached: nothing but the list of one stream grows.
LEMMA AddFacts ==
    ASSUME TypeOK, NEW cl \in Clients, NEW k \in Streams, AddRingBuffer(cl, k)
    PROVE  /\ rings' \in [Streams -> Seq(Clients)]
           /\ \A j \in Streams \ {k} : rings'[j] = rings[j]
           /\ Len(rings'[k]) = Len(rings[k]) + 1
           /\ Contains(rings'[k], cl)
           /\ \A j \in Streams, d \in Clients : Contains(rings[j], d) => Contains(rings'[j], d)
           /\ \A d \in Clients \ {cl} : Contains(rings'[k], d) => Contains(rings[k], d)
<1>1. rings[k] \in Seq(Clients)
  BY DEF TypeOK
<1>2. /\ Append(rings[k], cl) \in Seq(Clients)
      /\ Len(Append(rings[k], cl)) = Len(rings[k]) + 1
      /\ Contains(Append(rings[k], cl), cl)
      /\ \A d : Contains(rings[k], d) => Contains(Append(rings[k], cl), d)
      /\ \A d : d # cl /\ Contains(Append(rings[k], cl), d) => Contains(rings[k], d)
  BY <1>1, AppendFacts
<1>3. /\ rings' \in [Streams -> Seq(Clients)]
      /\ rings'[k] = Append(rings[k], cl)
      /\ \A j \in Streams \ {k} : rings'[j] = rings[j]
  BY <1>2 DEF AddRingBuffer, TypeOK
<1> QED
  BY <1>2, <1>3

\* What the inductive invariant says of a call.
LEMMA CallFacts ==
    ASSUME TypeOK, CallsFit, NEW t \in Threads
    PROVE  /\ call[t].at \notin {"idle", "read", "leave"}
              => call[t].cl \in Clients /\ call[t].k \in Streams
           /\ call[t].at \in {"read", "leave"} => call[t].cl \in Clients
           /\ call[t].at = "idle" <=> call[t].cl = NoClient
           /\ call[t].at \in {"idle", "read", "leave"}
              => call[t].k = NoStream /\ ~ call[t].live
           /\ call[t].live => Registered(call[t].k)
           /\ call[t].live /\ call[t].at \in {"open", "lost", "count", "list"}
              => call[t].k \in made
           /\ call[t].live /\ call[t].at = "lost" => call[t].k \in replaced
           /\ call[t].at \in {"make", "open", "lost", "count"} => t # "stopper"
           /\ call[t].at \in {"list", "erase"} => t = "worker"
           /\ call[t].at \in {"uncount", "close", "remake"} => t # "bus"
           /\ call[t].at = "leave" => t = "stopper"
<1>1. /\ call[t].cl \in Clients \cup {NoClient}
      /\ call[t].at \in Places
      /\ CallFits(t)
  BY CallTyped DEF CallsFit
<1> QED
  BY <1>1 DEF CallFits, PlacesOf, PlayPlaces, StopPlaces, Places, Threads

\* "No client" is not deleted.
LEMMA GoneFacts == TypeOK => NoClient \notin gone
  BY RealPlayAssumption DEF TypeOK

\* Nobody is in an empty list.
LEMMA EmptyFacts == \A d : ~ Contains(<<>>, d)
  BY DEF Contains

\* Distinct clients hold distinct buffers.
LEMMA DistinctFacts ==
    ASSUME NEW S, NEW s \in Seq(S)
    PROVE  /\ Len(s) \in Nat
           /\ \A a : Contains(s, a) => Len(s) >= 1
           /\ \A a, b : Contains(s, a) /\ Contains(s, b) /\ a # b => Len(s) >= 2
           /\ \A a, b, d :
                  /\ Contains(s, a) /\ Contains(s, b) /\ Contains(s, d)
                  /\ a # b /\ a # d /\ b # d
                  => Len(s) >= 3
<1>1. Len(s) \in Nat
  OBVIOUS
<1> QED
  BY <1>1 DEF Contains

-------------------------------------------------------------------------------

\* A play or a reconnection attaches its buffer, unless its channel is gone.
LEMMA OpenStreamStep ==
    ASSUME IInv, NEW t \in Threads, OpenStream(t)
    PROVE  IInv'
<1> DEFINE c == call[t]
<1>1. /\ TypeOK
      /\ c.at \in {"open", "lost"}
      /\ call' = [call EXCEPT ![t].at = "count"]
      /\ IF c.live /\ c.at = "open" THEN AddRingBuffer(c.cl, c.k) ELSE UNCHANGED rings
      /\ UNCHANGED <<phase, link, joins, made, nRef, streaming, replaced, crossed,
                     gone, views, wanted, late, subscribers, bus, answer, closing>>
  BY DEF IInv, OpenStream, hostVars, viewVars, busVars
<1>2. /\ call' \in [Threads -> CallType]
      /\ call'[t].cl = c.cl
      /\ call'[t].k = c.k
      /\ call'[t].at = "count"
      /\ call'[t].live = c.live
      /\ call'[t].left = c.left
      /\ \A u \in Threads \ {t} : call'[u] = call[u]
  <2>1. "count" \in Places
    BY DEF Places
  <2> QED BY <1>1, <2>1, PlaceSet
<1>3. /\ c.cl \in Clients
      /\ c.k \in Streams
      /\ c.live => Registered(c.k)
      /\ c.live => c.k \in made
      /\ c.live /\ c.at = "lost" => c.k \in replaced
      /\ t # "stopper"
  BY <1>1, CallFacts DEF IInv
<1>4. /\ rings' \in [Streams -> Seq(Clients)]
      /\ \A j \in Streams \ {c.k} : rings'[j] = rings[j]
      /\ \A j \in Streams, d \in Clients : Contains(rings[j], d) => Contains(rings'[j], d)
      /\ \A d \in Clients \ {c.cl} : Contains(rings'[c.k], d) => Contains(rings[c.k], d)
      /\ c.live /\ c.at = "open" => /\ Len(rings'[c.k]) = Len(rings[c.k]) + 1
                                    /\ Contains(rings'[c.k], c.cl)
      /\ ~ (c.live /\ c.at = "open") => rings' = rings
  BY <1>1, <1>3, AddFacts DEF TypeOK
<1>5. TypeOK'
  BY <1>1, <1>2, <1>3, <1>4 DEF IInv, TypeOK, CallType
<1>6. CallsFit'
  BY <1>1, <1>2, <1>3, <1>4 DEF IInv, CallsFit, CallFits, PlacesOf, PlayPlaces,
     StopPlaces, Registered, Threads
<1>7. ThreadsFit'
  BY <1>1, <1>2, <1>3, <1>4 DEF IInv, ThreadsFit, Threads
<1>8. UnmadeAreEmpty'
  BY <1>1, <1>2, <1>3, <1>4 DEF IInv, UnmadeAreEmpty, Registered
<1>9. ViewsFit'
  BY <1>1, <1>2, <1>3, <1>4 DEF IInv, ViewsFit, PlayPlaces, Threads
<1>10. CrossingsAreKnown'
  BY <1>1, <1>2, <1>3, <1>4 DEF IInv, CrossingsAreKnown, Stops, Threads
<1>11. PlaysAreAttached'
  BY <1>1, <1>2, <1>3, <1>4, CallFacts DEF IInv, PlaysAreAttached, Stops, Threads,
     TypeOK
<1>12. DebtsAreCovered'
  <2> SUFFICES ASSUME NEW k \in Streams, k \notin replaced, k \notin crossed
               PROVE  (nRef[k] + Owed("worker", k) + Owed("bus", k) + Owed("stopper", k)
                       <= Len(rings[k]))'
    BY <1>1 DEF DebtsAreCovered
  <2>1. /\ nRef[k] + Owed("worker", k) + Owed("bus", k) + Owed("stopper", k) <= Len(rings[k])
        /\ nRef[k] \in Nat /\ Len(rings[k]) \in Nat /\ Len(rings'[k]) \in Nat
    BY <1>1, <1>4 DEF IInv, DebtsAreCovered, TypeOK
  <2>2. ASSUME NEW u \in Threads \ {t}
        PROVE  Owed(u, k)' = Owed(u, k)
    <3>1. CASE k # c.k
      BY <3>1, <1>2, <1>4 DEF Owed
    <3>2. CASE ~ (c.live /\ c.at = "open")
      BY <3>2, <1>2, <1>4 DEF Owed
    <3>3. CASE k = c.k /\ c.live /\ c.at = "open"
      <4>1. call[u].live /\ call[u].k = k /\ call[u].at = "close" => call[u].cl # c.cl
        BY <3>3, <1>1, <1>3, CallFacts
           DEF IInv, ThreadsFit, CrossingsAreKnown, Stops, Threads
      <4>2. call[u].at = "close" => call[u].cl \in Clients
        BY <1>1, CallFacts DEF IInv
      <4> QED
        BY <4>1, <4>2, <3>3, <1>2, <1>4 DEF Owed
    <3> QED
      BY <3>1, <3>2, <3>3
  <2>3. Owed(t, k) = 0
    BY <1>1 DEF Owed
  <2>4. Owed(t, k)' \in {0, 1} /\ (k # c.k \/ ~ c.live => Owed(t, k)' = 0)
    BY <1>2 DEF Owed
  <2>5. k = c.k /\ c.live => Len(rings'[k]) = Len(rings[k]) + 1
    BY <1>1, <1>3, <1>4
  <2>6. k # c.k \/ ~ c.live => rings'[k] = rings[k]
    BY <1>4
  <2>7. nRef'[k] = nRef[k] /\ \A u \in Threads : Owed(u, k) \in {0, 1}
    BY <1>1 DEF Owed
  <2> QED
    BY <2>1, <2>2, <2>3, <2>4, <2>5, <2>6, <2>7 DEF Threads
<1>13. ConnectedViewsAreAttached'
  BY <1>1, <1>2, <1>3, <1>4 DEF IInv, ConnectedViewsAreAttached, BeingStopped, Stops,
     Registered, Threads
<1>14. AnnouncedHostsFeedTheirViews'
  BY <1>1, <1>2, <1>3, <1>4 DEF IInv, AnnouncedHostsFeedTheirViews, BeingStopped,
     Stops, StillToHear, Threads
<1>15. DeliveryGoesOn'
  BY <1>1, <1>2, <1>3, <1>4 DEF IInv, DeliveryGoesOn, BeingStopped, Stops, Threads
<1>16. /\ StreamingMatchesRefs'
       /\ NewsFits'
       /\ ViewersAreSubscribed'
       /\ LossIsStillToBeHeard'
  BY <1>1 DEF IInv, StreamingMatchesRefs, NewsFits, BusFree, ViewersAreSubscribed,
     LossIsStillToBeHeard
<1> QED
  BY <1>5, <1>6, <1>7, <1>8, <1>9, <1>10, <1>11, <1>12, <1>13, <1>14, <1>15, <1>16 DEF
     IInv

\* A new channel is empty, and whoever had found the one it replaces has lost it.
LEMMA MakeChannelStep ==
    ASSUME IInv, NEW t \in Threads, MakeChannel(t)
    PROVE  IInv'
<1> DEFINE c == call[t]
<1>1. /\ TypeOK
      /\ c.at \in {"make", "remake"}
      /\ UNCHANGED <<phase, link, joins, streaming, crossed, gone, views,
                     wanted, late, subscribers, bus, answer, closing>>
  BY DEF IInv, MakeChannel, hostVars, viewVars, busVars
<1>2. /\ c.live => /\ made' = made \cup {c.k}
                   /\ replaced' = IF c.k \in made THEN replaced \cup {c.k} ELSE replaced
                   /\ nRef' = [nRef EXCEPT ![c.k] = 0]
                   /\ rings' = [rings EXCEPT ![c.k] =
                                  IF c.at = "make" THEN <<c.cl>> ELSE <<>>]
      /\ ~ c.live => UNCHANGED <<made, replaced, nRef, rings>>
  BY DEF MakeChannel
<1>3. call' = [u \in Threads |->
                     IF u = t
                     THEN IF c.at = "make" THEN [c EXCEPT !.at = "count"] ELSE Stopped(t)
                     ELSE IF c.live /\ call[u].live /\ call[u].k = c.k /\ call[u].at = "open"
                     THEN [call[u] EXCEPT !.at = "lost"] ELSE call[u]]
  BY DEF MakeChannel
<1>4. /\ c.cl \in Clients
      /\ c.k \in Streams
      /\ c.live => Registered(c.k)
      /\ c.at = "make" => t # "stopper"
      /\ c.at = "remake" => t # "bus"
      /\ c.live \in BOOLEAN
  BY <1>1, CallFacts, CallTyped DEF IInv
<1>5. /\ call' \in [Threads -> CallType]
      /\ \A u \in Threads : call'[u].cl = call[u].cl /\ call'[u].left = call[u].left
      /\ c.at = "make" => /\ call'[t].at = "count"
                          /\ call'[t].k = c.k
                          /\ call'[t].live = c.live
      /\ c.at = "remake" => call'[t] = Stopped(t)
      /\ \A u \in Threads \ {t} :
             /\ call'[u].k = call[u].k
             /\ call'[u].live = call[u].live
             /\ \/ call'[u].at = call[u].at
                   /\ ~ (c.live /\ call[u].live /\ call[u].k = c.k /\ call[u].at = "open")
                \/ /\ c.live /\ call[u].live /\ call[u].k = c.k
                   /\ call[u].at = "open" /\ call'[u].at = "lost"
  <2>1. "count" \in Places /\ "lost" \in Places
    BY DEF Places
  <2>2. \A u \in Threads : call[u] \in CallType
    BY <1>1, CallTyped
  <2>3. /\ Stopped(t) \in CallType
        /\ Stopped(t).cl = c.cl
        /\ Stopped(t).left = c.left
    BY <1>1, StoppedFacts
  <2>4. \A u \in Threads : /\ [call[u] EXCEPT !.at = "lost"] \in CallType
                           /\ [call[u] EXCEPT !.at = "count"] \in CallType
    BY <2>1, <2>2 DEF CallType
  <2>5. call' \in [Threads -> CallType]
    BY <1>1, <1>3, <2>2, <2>3, <2>4
  <2>6. c.at = "remake" => c.at # "make"
    OBVIOUS
  <2> QED
    BY <1>1, <1>3, <2>2, <2>3, <2>5, <2>6 DEF CallType
<1>6. /\ c.at = "remake" => /\ t = "worker" => /\ call'[t].k = c.k
                                                /\ call'[t].at = "erase"
                                                /\ call'[t].live = c.live
                            /\ t # "worker" => /\ call'[t].k = NoStream
                                               /\ call'[t].at = "read"
                                               /\ ~ call'[t].live
  <2>1. c.at = "remake" => call'[t] = Stopped(t)
    BY <1>5
  <2>2. TypeOK
    BY <1>1
  <2> QED
    BY <2>1, <2>2, StoppedFacts
<1>7. \A u \in Threads : /\ call'[u].at = "idle" <=> call[u].at = "idle"
                         /\ call'[u].at = "leave" <=> call[u].at = "leave"
  BY <1>1, <1>4, <1>5, <1>6
<1>8. \A d \in Clients, j \in Streams :
         /\ Stops("worker", d, j)' <=> Stops("worker", d, j)
         /\ BeingStopped(d, j)' <=> BeingStopped(d, j)
  BY <1>1, <1>4, <1>5, <1>6 DEF BeingStopped, Stops, Threads
<1>9. /\ rings' \in [Streams -> Seq(Clients)]
      /\ nRef' \in [Streams -> Nat]
      /\ replaced' \subseteq Streams /\ made' \subseteq Streams
      /\ \A j \in Streams : j # c.k \/ ~ c.live
            => rings'[j] = rings[j] /\ nRef'[j] = nRef[j] /\ (j \in made' <=> j \in made)
      /\ c.live => /\ nRef'[c.k] = 0
                   /\ c.at = "make" => rings'[c.k] = <<c.cl>>
                   /\ c.at = "remake" => rings'[c.k] = <<>>
                   /\ c.k \in made'
                   /\ c.k \notin replaced' => c.k \notin made
      /\ made \subseteq made' /\ replaced \subseteq replaced'
      /\ c.live /\ c.k \in made => c.k \in replaced'
  <2>1. CASE ~ c.live
    BY <2>1, <1>1, <1>2 DEF TypeOK
  <2>2. CASE c.live
    <3>1. <<c.cl>> \in Seq(Clients) /\ <<>> \in Seq(Clients)
      BY <1>4
    <3> DEFINE ring == IF c.at = "make" THEN <<c.cl>> ELSE <<>>
    <3>2. ring \in Seq(Clients)
      BY <3>1
    <3>3. rings' = [rings EXCEPT ![c.k] = ring]
      BY <2>2, <1>2
    <3>4. /\ c.at = "make" => ring = <<c.cl>>
          /\ c.at = "remake" => ring = <<>>
      OBVIOUS
    <3> HIDE DEF ring
    <3>5. /\ rings' \in [Streams -> Seq(Clients)]
          /\ rings'[c.k] = ring
          /\ \A j \in Streams : j # c.k => rings'[j] = rings[j]
      BY <3>2, <3>3, <1>1, <1>4 DEF TypeOK
    <3>6. /\ made' = made \cup {c.k}
          /\ replaced' = IF c.k \in made THEN replaced \cup {c.k} ELSE replaced
          /\ nRef' = [nRef EXCEPT ![c.k] = 0]
      BY <2>2, <1>2
    <3>7. /\ nRef' \in [Streams -> Nat]
          /\ nRef'[c.k] = 0
          /\ \A j \in Streams : j # c.k => nRef'[j] = nRef[j]
      BY <3>6, <1>1, <1>4 DEF TypeOK
    <3>8. made \subseteq Streams /\ replaced \subseteq Streams
      BY <1>1 DEF TypeOK
    <3> QED
      BY <2>2, <3>4, <3>5, <3>6, <3>7, <3>8, <1>4
  <2> QED
    BY <2>1, <2>2
<1>10. /\ c.live /\ c.k \notin made => /\ nRef[c.k] = 0
                                      /\ \A d : ~ Contains(rings[c.k], d)
       /\ Contains(<<c.cl>>, c.cl) /\ Len(<<c.cl>>) = 1
       /\ \A d : Contains(<<c.cl>>, d) => d = c.cl
  <2>1. c.live /\ c.k \notin made => nRef[c.k] = 0 /\ rings[c.k] = <<>>
    BY <1>4 DEF IInv, UnmadeAreEmpty
  <2>2. /\ Contains(<<c.cl>>, c.cl) /\ Len(<<c.cl>>) = 1
        /\ \A d : Contains(<<c.cl>>, d) => d = c.cl
    BY DEF Contains
  <2> QED
    BY <2>1, <2>2, EmptyFacts
<1>11. TypeOK'
  BY <1>1, <1>4, <1>5, <1>6, <1>7, <1>8, <1>9, <1>10 DEF IInv, TypeOK, CallType
<1>12. CallsFit'
  BY <1>1, <1>4, <1>5, <1>6, <1>7, <1>8, <1>9, <1>10, CallFacts DEF IInv, CallsFit,
     CallFits, PlacesOf, PlayPlaces, StopPlaces, Registered, Threads
<1>13. ThreadsFit'
  BY <1>1, <1>5, <1>7 DEF IInv, ThreadsFit, Threads
<1>14. UnmadeAreEmpty'
  BY <1>1, <1>4, <1>9 DEF IInv, UnmadeAreEmpty, Registered
<1>15. StreamingMatchesRefs'
  <2> SUFFICES ASSUME NEW k \in Streams \ replaced', link[k[1]]
               PROVE  streaming[k] <=> nRef'[k] > 0
    BY <1>1 DEF StreamingMatchesRefs
  <2>1. k \notin replaced /\ nRef'[k] = nRef[k]
    BY <1>9, <1>10
  <2> QED
    BY <2>1 DEF IInv, StreamingMatchesRefs
<1>16. ViewsFit'
  <2>1. call'["bus"].k = call["bus"].k
    BY <1>1, <1>4, <1>5 DEF Threads
  <2>2. /\ call'["worker"].at \in PlayPlaces => call["worker"].at \in PlayPlaces
        /\ call'["worker"].k = call["worker"].k
    BY <1>1, <1>4, <1>5, <1>6 DEF Threads, PlayPlaces
  <2>3. \A v \in Threads : call'[v].cl = call[v].cl /\ call'[v].left = call[v].left
    BY <1>5
  <2> HIDE DEF c
  <2> QED
    BY <1>1, <2>1, <2>2, <2>3 DEF IInv, ViewsFit, Threads
<1>17. CrossingsAreKnown'
  BY <1>1, <1>4, <1>5, <1>6, CallFacts, StreamHost DEF IInv, CrossingsAreKnown, Stops,
     Threads
<1>18. PlaysAreAttached'
  <2> SUFFICES ASSUME NEW u \in Threads, call'[u].live, call'[u].at \in {"count", "list"},
                      call'[u].k \notin replaced',
                      (~ Stops("worker", call[u].cl, call[u].k))'
               PROVE  Contains(rings'[call'[u].k], call'[u].cl)
    BY DEF PlaysAreAttached, Stops
  <2>1. CASE u = t
    <3>1. c.at = "make" /\ c.live /\ call'[u].k = c.k /\ call'[u].cl = c.cl
      BY <2>1, <1>1, <1>4, <1>5, <1>6
    <3>2. rings'[c.k] = <<c.cl>>
      BY <3>1, <1>9
    <3> QED
      BY <3>1, <3>2, <1>10
  <2>2. CASE u # t
    <3>1. /\ call[u].at \in {"count", "list"} /\ call[u].live
          /\ call'[u].k = call[u].k /\ call'[u].cl = call[u].cl
      BY <2>2, <1>5
    <3>2. call[u].k \in made /\ call[u].k \in Streams /\ call[u].cl \in Clients
      BY <3>1, <1>1, CallFacts DEF IInv
    <3>3. rings'[call[u].k] = rings[call[u].k] /\ call[u].k \notin replaced
      BY <3>1, <3>2, <1>9
    <3>4. ~ Stops("worker", call[u].cl, call[u].k)
      BY <3>1, <3>2, <1>8 DEF Stops
    <3>5. Contains(rings[call[u].k], call[u].cl)
      BY <3>1, <3>3, <3>4 DEF IInv, PlaysAreAttached
    <3> QED
      BY <3>1, <3>3, <3>5
  <2> QED
    BY <2>1, <2>2
<1>19. DebtsAreCovered'
  <2> SUFFICES ASSUME NEW k \in Streams, k \notin replaced', k \notin crossed'
               PROVE  (nRef[k] + Owed("worker", k) + Owed("bus", k) + Owed("stopper", k)
                       <= Len(rings[k]))'
    BY DEF DebtsAreCovered
  <2>1. /\ k \notin replaced /\ k \notin crossed
        /\ nRef[k] \in Nat /\ nRef'[k] \in Nat /\ Len(rings[k]) \in Nat /\ Len(rings'[k]) \in Nat
    BY <1>1, <1>9, <1>11 DEF TypeOK
  <2>2. nRef[k] + Owed("worker", k) + Owed("bus", k) + Owed("stopper", k) <= Len(rings[k])
    BY <2>1 DEF IInv, DebtsAreCovered
  <2>3. \A u \in Threads : Owed(u, k) \in {0, 1} /\ Owed(u, k)' \in {0, 1}
    BY DEF Owed
  <2>4. CASE k # c.k \/ ~ c.live
    <3>1. rings'[k] = rings[k] /\ nRef'[k] = nRef[k]
      BY <2>4, <1>9
    <3>2. ASSUME NEW u \in Threads PROVE Owed(u, k)' <= Owed(u, k)
      BY <2>4, <3>1, <1>1, <1>4, <1>5, <1>6 DEF Owed
    <3> QED
      BY <2>1, <2>2, <2>3, <3>1, <3>2 DEF Threads
  <2>5. CASE k = c.k /\ c.live
    <3>1. k \notin made /\ nRef'[k] = 0
      BY <2>5, <1>9
    <3>2. ASSUME NEW u \in Threads \ {t} PROVE Owed(u, k)' = 0
      <4>1. ~ (call[u].live /\ call[u].k = k /\ call[u].at = "count")
        BY <3>1, <1>1, CallFacts DEF IInv
      <4>2. CASE c.at = "remake"
        BY <4>1, <4>2, <2>5, <1>5, <1>9, EmptyFacts DEF Owed
      <4>3. CASE c.at = "make"
        <5>1. call[u].at = "close" /\ call[u].k = k => call[u].cl # c.cl
          BY <4>3, <2>1, <2>5, <1>1, <1>4, CallFacts
             DEF IInv, ThreadsFit, CrossingsAreKnown, Stops, Threads
        <5> QED
          <6>1. /\ rings'[k] = <<c.cl>>
                /\ call'[u].cl = call[u].cl /\ call'[u].k = call[u].k
                /\ call'[u].live = call[u].live
                /\ call'[u].at \in {"count", "close"} => call'[u].at = call[u].at
            BY <4>3, <2>5, <1>5, <1>9
          <6> QED
            BY <4>1, <5>1, <6>1, <1>10 DEF Owed
      <4> QED
        BY <4>2, <4>3, <1>1
    <3>3. Owed(t, k)' <= Len(rings'[k])
      <4>1. CASE c.at = "remake"
        <5>1. ~ (call'[t].live /\ call'[t].at \in {"count", "close"})
          BY <4>1, <1>4, <1>6 DEF Threads
        <5> QED
          BY <5>1, <2>1 DEF Owed
      <4>2. CASE c.at = "make"
        <5>1. Len(rings'[k]) = 1
          BY <4>2, <2>5, <1>9, <1>10
        <5> QED
          BY <5>1, <2>3
      <4> QED
        BY <4>1, <4>2, <1>1
    <3> QED
      BY <2>1, <2>3, <3>1, <3>2, <3>3 DEF Threads
  <2> QED
    BY <2>4, <2>5
<1>20. ConnectedViewsAreAttached'
  BY <1>1, <1>4, <1>8, <1>9, <1>10 DEF IInv, ConnectedViewsAreAttached, Registered,
     Threads
<1>21. AnnouncedHostsFeedTheirViews'
  BY <1>1, <1>4, <1>8, <1>5, <1>9, <1>10 DEF IInv, AnnouncedHostsFeedTheirViews,
     StillToHear, Threads
<1>22. DeliveryGoesOn'
  <2> SUFFICES ASSUME NEW d \in Clients, NEW k \in Streams \ replaced',
                      call'["bus"].cl = d, views'[d][k] = "broken", phase'[k[1]] = "announced",
                      ~ BeingStopped(d, k)',
                      ~ Contains(rings'[k], d), k \notin call'["bus"].left
               PROVE  /\ call'["bus"].k = k
                      /\ call'["bus"].live
                      /\ call'["bus"].at \in {"make", "open"}
    BY DEF DeliveryGoesOn
  <2>1. "bus" \in Threads
    BY DEF Threads
  <2>2. ~ Contains(rings[k], d)
    BY <1>9, <1>10
  <2>3. /\ call["bus"].k = k /\ call["bus"].live
        /\ call["bus"].at \in {"make", "open"}
    <3>1. /\ call["bus"].cl = d /\ k \notin call["bus"].left /\ k \notin replaced
          /\ views[d][k] = "broken" /\ phase[k[1]] = "announced"
      BY <2>1, <1>1, <1>5, <1>9
    <3>2. ~ BeingStopped(d, k)
      BY <1>8
    <3> QED
      BY <2>2, <3>1, <3>2 DEF IInv, DeliveryGoesOn
  <2>4. t # "bus"
    BY <2>3, <1>1, <1>4, <1>5, <1>9, <1>10
  <2>5. ~ (c.live /\ call["bus"].k = c.k /\ call["bus"].at = "open")
    BY <2>1, <2>3, <1>1, <1>9, CallFacts DEF IInv
  <2> QED
    BY <2>1, <2>3, <2>4, <2>5, <1>5
<1>23. NewsFits' /\ ViewersAreSubscribed' /\ LossIsStillToBeHeard'
  BY <1>1 DEF IInv, NewsFits, BusFree, ViewersAreSubscribed, LossIsStillToBeHeard
<1> QED
  BY <1>11, <1>12, <1>13, <1>14, <1>15, <1>16, <1>17, <1>18, <1>19, <1>20, <1>21,
     <1>22, <1>23 DEF IInv

\* A reference is counted; a reconnection that was answered J_OK marks its view.
LEMMA ReqRealPlayStep ==
    ASSUME IInv, NEW t \in Threads, ReqRealPlay(t)
    PROVE  IInv'
<1> DEFINE c == call[t]
<1>1. /\ TypeOK
      /\ c.at = "count"
      /\ IF c.live THEN CountUp(c.k) ELSE UNCHANGED <<nRef, streaming>>
      /\ views' = IF t = "bus" /\ c.live /\ Starts(c.k)
                  THEN [views EXCEPT ![c.cl][c.k] = "connected"] ELSE views
      /\ call' = [call EXCEPT ![t] = IF t = "worker" THEN [c EXCEPT !.at = "list"]
                                     ELSE NextEntry(t)]
      /\ UNCHANGED <<phase, link, joins, made, rings, replaced, crossed,
                     gone, wanted, late, subscribers, bus, answer, closing>>
  BY DEF IInv, ReqRealPlay, hostVars, busVars
<1>2. /\ c.cl \in Clients
      /\ c.k \in Streams
      /\ c.live => Registered(c.k) /\ c.k \in made
      /\ t # "stopper"
      /\ c.live \in BOOLEAN
  BY <1>1, CallFacts, CallTyped DEF IInv
<1>3. /\ call' \in [Threads -> CallType]
      /\ \A u \in Threads \ {t} : call'[u] = call[u]
      /\ call'[t].cl = c.cl /\ call'[t].left = c.left
      /\ t = "worker" => /\ call'[t].k = c.k
                         /\ call'[t].at = "list"
                         /\ call'[t].live = c.live
      /\ t # "worker" => /\ call'[t].k = NoStream
                         /\ call'[t].at = "read"
                         /\ ~ call'[t].live
  <2> DEFINE r == IF t = "worker" THEN [c EXCEPT !.at = "list"] ELSE NextEntry(t)
  <2>1. c \in CallType /\ NextEntry(t) \in CallType /\ "list" \in Places
    BY <1>1, CallTyped, StoppedFacts DEF Places
  <2>2. r \in CallType
    BY <2>1 DEF CallType
  <2>3. /\ call' \in [Threads -> CallType]
        /\ call'[t] = r
        /\ \A u \in Threads \ {t} : call'[u] = call[u]
    BY <1>1, <2>2, CallSet
  <2> QED
    BY <1>1, <2>1, <2>3, StoppedFacts DEF CallType
<1>4. /\ nRef' \in [Streams -> Nat] /\ streaming' \in [Streams -> BOOLEAN]
      /\ \A j \in Streams : j # c.k \/ ~ c.live
            => nRef'[j] = nRef[j] /\ streaming'[j] = streaming[j]
      /\ c.live => /\ nRef'[c.k] = nRef[c.k] + 1
                   /\ (streaming'[c.k] <=> (streaming[c.k] \/ Starts(c.k)))
  <2>1. CASE ~ c.live
    BY <2>1, <1>1 DEF TypeOK
  <2>2. CASE c.live
    <3>1. /\ nRef' = [nRef EXCEPT ![c.k] = nRef[c.k] + 1]
          /\ streaming' = [streaming EXCEPT ![c.k] = streaming[c.k] \/ Starts(c.k)]
      BY <2>2, <1>1 DEF TypeOK, CountUp
    <3>2. (streaming[c.k] \/ Starts(c.k)) \in BOOLEAN
      BY DEF Starts
    <3> DEFINE s == streaming[c.k] \/ Starts(c.k)
    <3> HIDE DEF s
    <3> QED
      BY <2>2, <3>1, <3>2, <1>1, <1>2 DEF TypeOK
  <2> QED
    BY <2>1, <2>2
<1>5. /\ views' \in [Clients -> [Streams -> {"none", "connected", "broken"}]]
      /\ \A d \in Clients, j \in Streams :
            /\ views'[d][j] = "none" <=> views[d][j] = "none"
            /\ \/ views'[d][j] = views[d][j]
               \/ views'[d][j] = "connected" /\ t = "bus" /\ c.live /\ d = c.cl /\ j = c.k
  <2>1. t = "bus" => views[c.cl][c.k] # "none"
    BY <1>2 DEF IInv, ViewsFit
  <2> QED
    BY <1>1, <1>2, <2>1 DEF TypeOK
<1>6. TypeOK'
  BY <1>1, <1>2, <1>3, <1>4, <1>5 DEF IInv, TypeOK, CallType
<1>7. CallsFit'
  BY <1>1, <1>2, <1>3, <1>4, <1>5, StreamHost DEF IInv, CallsFit, CallFits, PlacesOf,
     PlayPlaces, StopPlaces, Registered, Threads
<1>8. ThreadsFit'
  BY <1>1, <1>2, <1>3, <1>4, <1>5 DEF IInv, ThreadsFit, Threads
<1>9. UnmadeAreEmpty'
  <2>1. \A h \in Hosts : phase[h] = "away" => ~ link[h]
    BY DEF IInv, UnmadeAreEmpty
  <2>2. ASSUME NEW k \in Streams, phase[k[1]] = "away" PROVE k \notin made /\ ~ streaming'[k]
    <3>1. ~ (k = c.k /\ c.live)
      BY <2>2, <1>2 DEF Registered
    <3> QED
      BY <2>2, <3>1, <1>4 DEF IInv, UnmadeAreEmpty
  <2>3. ASSUME NEW k \in Streams, k \notin made PROVE nRef'[k] = 0 /\ rings[k] = <<>>
    BY <2>3, <1>2, <1>4 DEF IInv, UnmadeAreEmpty
  <2> QED
    BY <1>1, <2>1, <2>2, <2>3 DEF UnmadeAreEmpty
<1>10. StreamingMatchesRefs'
  <2> SUFFICES ASSUME NEW k \in Streams \ replaced, link[k[1]]
               PROVE  streaming'[k] <=> nRef'[k] > 0
    BY <1>1 DEF StreamingMatchesRefs
  <2>1. (streaming[k] <=> nRef[k] > 0) /\ nRef[k] \in Nat
    BY <1>1 DEF IInv, StreamingMatchesRefs, TypeOK
  <2>2. CASE k = c.k /\ c.live
    BY <2>1, <2>2, <1>4 DEF Starts
  <2>3. CASE ~ (k = c.k /\ c.live)
    BY <2>1, <2>3, <1>4
  <2> QED
    BY <2>2, <2>3
<1>11. ViewsFit'
  BY <1>1, <1>2, <1>3, <1>4, <1>5, StreamHost DEF IInv, ViewsFit, PlayPlaces, Threads
<1>12. CrossingsAreKnown'
  BY <1>1, <1>2, <1>3, <1>4, <1>5, StreamHost DEF IInv, CrossingsAreKnown, Stops,
     Threads
<1>13. PlaysAreAttached'
  BY <1>1, <1>2, <1>3, <1>4, <1>5, StreamHost DEF IInv, PlaysAreAttached, Stops,
     Threads
<1>14. DebtsAreCovered'
  <2> SUFFICES ASSUME NEW k \in Streams, k \notin replaced', k \notin crossed'
               PROVE  (nRef[k] + Owed("worker", k) + Owed("bus", k) + Owed("stopper", k)
                       <= Len(rings[k]))'
    BY DEF DebtsAreCovered
  <2>1. /\ k \notin replaced /\ k \notin crossed
        /\ nRef[k] \in Nat /\ nRef'[k] \in Nat /\ Len(rings[k]) \in Nat /\ Len(rings'[k]) \in Nat
    BY <1>1, <1>4, <1>6 DEF TypeOK
  <2>2. nRef[k] + Owed("worker", k) + Owed("bus", k) + Owed("stopper", k) <= Len(rings[k])
    BY <2>1 DEF IInv, DebtsAreCovered
  <2>3. \A u \in Threads : Owed(u, k) \in {0, 1} /\ Owed(u, k)' \in {0, 1}
    BY DEF Owed
  <2>4. \A u \in Threads \ {t} : Owed(u, k)' = Owed(u, k)
    BY <1>1, <1>3 DEF Owed
  <2>5. Owed(t, k)' = 0
    BY <1>3, <1>2, StreamHost DEF Owed
  <2>6. k = c.k /\ c.live => Owed(t, k) = 1 /\ nRef'[k] = nRef[k] + 1
    BY <1>1, <1>4, <1>2 DEF Owed
  <2>7. ~ (k = c.k /\ c.live) => nRef'[k] = nRef[k]
    BY <1>4
  <2> QED
    BY <1>1, <2>1, <2>2, <2>3, <2>4, <2>5, <2>6, <2>7 DEF Threads
<1>15. ViewersAreSubscribed'
  BY <1>1, <1>2, <1>3, <1>4, <1>5 DEF IInv, ViewersAreSubscribed
<1>16. LossIsStillToBeHeard'
  BY <1>1, <1>2, <1>3, <1>4, <1>5, CallFacts DEF IInv, LossIsStillToBeHeard,
     ThreadsFit
<1>17. ConnectedViewsAreAttached'
  BY <1>1, <1>2, <1>3, <1>4, <1>5 DEF IInv, ConnectedViewsAreAttached, BeingStopped,
     Stops, Registered, Threads, PlaysAreAttached
<1>18. AnnouncedHostsFeedTheirViews'
  BY <1>1, <1>2, <1>3, <1>4, <1>5, StreamHost DEF IInv, AnnouncedHostsFeedTheirViews,
     BeingStopped, Stops, StillToHear, Threads
<1>19. DeliveryGoesOn'
  BY <1>1, <1>2, <1>3, <1>4, <1>5, StreamHost DEF IInv, DeliveryGoesOn, BeingStopped,
     Stops, Threads
<1>20. NewsFits'
  BY <1>1 DEF IInv, NewsFits, BusFree
<1> QED
  BY <1>6, <1>7, <1>8, <1>9, <1>10, <1>11, <1>12, <1>13, <1>14, <1>15, <1>16, <1>17,
     <1>18, <1>19, <1>20 DEF IInv

\* A stop gives its reference back; its buffer is still attached.
LEMMA ReqRealStopStep ==
    ASSUME IInv, NEW t \in Threads, ReqRealStop(t)
    PROVE  IInv'
<1> DEFINE c == call[t]
<1>1. /\ TypeOK
      /\ c.at = "uncount"
      /\ IF c.live THEN CountDown(c.k) ELSE UNCHANGED <<nRef, streaming>>
      /\ call' = [call EXCEPT ![t].at = "close"]
      /\ UNCHANGED <<phase, link, joins, made, rings, replaced, crossed, gone,
                     views, wanted, late, subscribers, bus, answer, closing>>
  BY DEF IInv, ReqRealStop, hostVars, viewVars, busVars
<1>2. /\ c.cl \in Clients
      /\ c.k \in Streams
      /\ c.live => Registered(c.k)
      /\ t # "bus"
      /\ c.live \in BOOLEAN
  BY <1>1, CallFacts, CallTyped DEF IInv
<1>3. /\ call' \in [Threads -> CallType]
      /\ call'[t].cl = c.cl
      /\ call'[t].k = c.k
      /\ call'[t].at = "close"
      /\ call'[t].live = c.live
      /\ call'[t].left = c.left
      /\ \A u \in Threads \ {t} : call'[u] = call[u]
  <2>1. "close" \in Places
    BY DEF Places
  <2> QED BY <1>1, <2>1, PlaceSet
<1>4. /\ nRef' \in [Streams -> Nat] /\ streaming' \in [Streams -> BOOLEAN]
      /\ \A j \in Streams : j # c.k \/ ~ c.live
            => nRef'[j] = nRef[j] /\ streaming'[j] = streaming[j]
      /\ c.live => /\ nRef'[c.k] = IF nRef[c.k] > 0 THEN nRef[c.k] - 1 ELSE 0
                   /\ streaming'[c.k] <=> streaming[c.k] /\ ~ (nRef[c.k] = 1 /\ link[c.k[1]])
  <2>1. CASE ~ c.live
    BY <2>1, <1>1 DEF TypeOK
  <2>2. CASE c.live
    <3> DEFINE n == IF nRef[c.k] > 0 THEN nRef[c.k] - 1 ELSE 0
               s == streaming[c.k] /\ ~ (nRef[c.k] = 1 /\ link[c.k[1]])
    <3>1. nRef' = [nRef EXCEPT ![c.k] = n] /\ streaming' = [streaming EXCEPT ![c.k] = s]
      BY <2>2, <1>1, <1>2 DEF TypeOK, CountDown
    <3>2. n \in Nat /\ s \in BOOLEAN
      BY <1>1, <1>2 DEF TypeOK
    <3>3. /\ n = IF nRef[c.k] > 0 THEN nRef[c.k] - 1 ELSE 0
          /\ s <=> streaming[c.k] /\ ~ (nRef[c.k] = 1 /\ link[c.k[1]])
      OBVIOUS
    <3> HIDE DEF n, s
    <3> QED
      BY <2>2, <3>1, <3>2, <3>3, <1>1, <1>2 DEF TypeOK
  <2> QED
    BY <2>1, <2>2
<1>5. \A d \in Clients, j \in Streams :
         /\ Stops("worker", d, j)' <=> Stops("worker", d, j)
         /\ BeingStopped(d, j)' <=> BeingStopped(d, j)
  BY <1>1, <1>3 DEF BeingStopped, Stops, Threads
<1>6. TypeOK'
  BY <1>1, <1>2, <1>3, <1>4, <1>5 DEF IInv, TypeOK, CallType
<1>7. CallsFit'
  BY <1>1, <1>2, <1>3, <1>4, <1>5 DEF IInv, CallsFit, CallFits, PlacesOf, PlayPlaces,
     StopPlaces, Registered, Threads
<1>8. ThreadsFit'
  BY <1>1, <1>2, <1>3, <1>4, <1>5 DEF IInv, ThreadsFit, Threads
<1>9. UnmadeAreEmpty'
  <2>1. ASSUME NEW k \in Streams, ~ streaming[k] PROVE ~ streaming'[k]
    BY <2>1, <1>2, <1>4
  <2>2. ASSUME NEW k \in Streams, nRef[k] = 0 PROVE nRef'[k] = 0
    BY <2>2, <1>2, <1>4
  <2> QED
    BY <1>1, <2>1, <2>2 DEF IInv, UnmadeAreEmpty
<1>10. StreamingMatchesRefs'
  <2> SUFFICES ASSUME NEW k \in Streams \ replaced, link[k[1]]
               PROVE  streaming'[k] <=> nRef'[k] > 0
    BY <1>1 DEF StreamingMatchesRefs
  <2>1. (streaming[k] <=> nRef[k] > 0) /\ nRef[k] \in Nat
    BY <1>1 DEF IInv, StreamingMatchesRefs, TypeOK
  <2>2. CASE k = c.k /\ c.live
    <3>1. nRef'[k] = IF nRef[k] > 0 THEN nRef[k] - 1 ELSE 0
      BY <2>2, <1>4
    <3>2. streaming'[k] <=> streaming[k] /\ ~ (nRef[k] = 1)
      BY <2>2, <1>4
    <3> QED
      BY <2>1, <3>1, <3>2
  <2>3. CASE ~ (k = c.k /\ c.live)
    BY <2>1, <2>3, <1>4
  <2> QED
    BY <2>2, <2>3
<1>11. ViewsFit'
  BY <1>1, <1>2, <1>3, <1>4, <1>5 DEF IInv, ViewsFit, PlayPlaces, Threads
<1>12. CrossingsAreKnown'
  BY <1>1, <1>2, <1>3, <1>4, <1>5 DEF IInv, CrossingsAreKnown, Stops, Threads
<1>13. PlaysAreAttached'
  BY <1>1, <1>2, <1>3, <1>4, <1>5 DEF IInv, PlaysAreAttached, Stops, Threads
<1>14. DebtsAreCovered'
  <2> SUFFICES ASSUME NEW k \in Streams, k \notin replaced', k \notin crossed'
               PROVE  (nRef[k] + Owed("worker", k) + Owed("bus", k) + Owed("stopper", k)
                       <= Len(rings[k]))'
    BY DEF DebtsAreCovered
  <2>1. /\ k \notin replaced /\ k \notin crossed
        /\ nRef[k] \in Nat /\ nRef'[k] \in Nat /\ Len(rings[k]) \in Nat /\ Len(rings'[k]) \in Nat
    BY <1>1, <1>4, <1>6 DEF TypeOK
  <2>2. nRef[k] + Owed("worker", k) + Owed("bus", k) + Owed("stopper", k) <= Len(rings[k])
    BY <2>1 DEF IInv, DebtsAreCovered
  <2>3. \A u \in Threads : Owed(u, k) \in {0, 1} /\ Owed(u, k)' \in {0, 1}
    BY DEF Owed
  <2>4. \A u \in Threads \ {t} : Owed(u, k)' = Owed(u, k)
    BY <1>1, <1>3 DEF Owed
  <2>5. Owed(t, k) = 0
    BY <1>1 DEF Owed
  <2>6. CASE Owed(t, k)' = 0
    <3>1. nRef'[k] <= nRef[k]
      BY <2>1, <1>2, <1>4
    <3> QED
      BY <1>1, <2>1, <2>2, <2>3, <2>4, <2>5, <2>6, <3>1 DEF Threads
  <2>7. CASE Owed(t, k)' = 1 /\ nRef[k] > 0
    <3>1. k = c.k /\ c.live
      BY <2>7, <1>3 DEF Owed
    <3>2. nRef'[k] = nRef[k] - 1
      BY <2>1, <2>7, <3>1, <1>4
    <3> QED
      BY <1>1, <2>1, <2>2, <2>3, <2>4, <2>5, <2>7, <3>2 DEF Threads
  <2>8. CASE Owed(t, k)' = 1 /\ nRef[k] = 0
    <3>1. k = c.k /\ c.live /\ Contains(rings[k], c.cl)
      BY <2>8, <1>1, <1>3 DEF Owed
    <3>2. nRef'[k] = 0
      BY <2>8, <3>1, <1>4
    <3>3. ASSUME NEW u \in Threads \ {t}, Owed(u, k)' = 1
          PROVE  Contains(rings[k], call[u].cl) /\ call[u].cl # c.cl
      <4>1. /\ call[u].live /\ call[u].k = k
            /\ \/ call[u].at = "count"
               \/ call[u].at = "close" /\ Contains(rings[k], call[u].cl)
        BY <3>3, <2>4 DEF Owed
      <4>2. call[u].cl # c.cl
        BY <3>1, <4>1, <2>1, <1>1, <1>2, CallFacts
           DEF IInv, ThreadsFit, CrossingsAreKnown, Stops, Threads
      <4>3. call[u].at = "count" => ~ Stops("worker", call[u].cl, k)
        <5>1. CASE u = "worker"
          BY <5>1 DEF Stops
        <5>2. CASE u = "bus"
          BY <4>1, <5>2, <2>1 DEF IInv, CrossingsAreKnown
        <5>3. CASE u = "stopper"
          BY <5>3, <1>1, CallFacts DEF IInv
        <5> QED
          BY <5>1, <5>2, <5>3 DEF Threads
      <4>4. call[u].at = "count" => Contains(rings[k], call[u].cl)
        BY <4>1, <4>3, <2>1 DEF IInv, PlaysAreAttached
      <4> QED
        BY <4>1, <4>2, <4>4
    <3>4. ASSUME Owed("worker", k)' = 1, Owed("bus", k)' = 1
          PROVE  call["worker"].cl # call["bus"].cl
      <4>1. CASE t = "worker"
        BY <4>1, <3>3, <3>4 DEF Threads
      <4>2. CASE t # "worker"
        <5>1. /\ call["worker"].k = k /\ call["worker"].at \in {"count", "close"}
              /\ call["bus"].k = k /\ call["bus"].at \in {"count", "close"}
          BY <3>4, <4>2, <2>4, <1>2 DEF Owed, Threads
        <5>2. call["worker"].at = "count" => call["worker"].cl # call["bus"].cl
          BY <5>1, <1>1, CallFacts DEF IInv, ViewsFit, PlayPlaces, Threads
        <5>3. call["worker"].at = "close" => ~ (call["worker"].cl = call["bus"].cl)
          BY <5>1, <2>1 DEF IInv, CrossingsAreKnown, Stops
        <5> QED
          BY <5>1, <5>2, <5>3
      <4> QED
        BY <4>1, <4>2
    <3>5. /\ Len(rings[k]) >= 1
          /\ \A u \in Threads \ {t} : Owed(u, k)' = 1 => Len(rings[k]) >= 2
          /\ (\A u \in Threads \ {t} : Owed(u, k)' = 1) => Len(rings[k]) >= 3
      <4>1. rings[k] \in Seq(Clients)
        BY <1>1 DEF TypeOK
      <4>2. Len(rings[k]) >= 1
        BY <4>1, <3>1, DistinctFacts
      <4>3. ASSUME NEW u \in Threads \ {t}, Owed(u, k)' = 1 PROVE Len(rings[k]) >= 2
        BY <4>1, <4>3, <3>1, <3>3, DistinctFacts
      <4>4. ASSUME \A u \in Threads \ {t} : Owed(u, k)' = 1 PROVE Len(rings[k]) >= 3
        <5>1. CASE t = "worker"
          <6>1. call["bus"].cl # call["stopper"].cl
            BY <5>1, <4>4, <2>4, <1>1, <1>2, CallFacts DEF IInv, ThreadsFit, Owed, Threads
          <6> QED
            BY <5>1, <6>1, <4>1, <4>4, <3>1, <3>3, DistinctFacts DEF Threads
        <5>2. CASE t = "stopper"
          <6>1. call["worker"].cl # call["bus"].cl
            BY <5>2, <4>4, <3>4 DEF Threads
          <6> QED
            BY <5>2, <6>1, <4>1, <4>4, <3>1, <3>3, DistinctFacts DEF Threads
        <5> QED
          BY <5>1, <5>2, <1>2 DEF Threads
      <4> QED
        BY <4>2, <4>3, <4>4
    <3>6. Owed("worker", k)' + Owed("bus", k)' + Owed("stopper", k)' <= Len(rings[k])
      <4> HIDE DEF c
      <4>1. CASE t = "worker"
        BY <4>1, <2>1, <2>3, <2>8, <3>5 DEF Threads
      <4>2. CASE t = "stopper"
        BY <4>2, <2>1, <2>3, <2>8, <3>5 DEF Threads
      <4> QED
        BY <4>1, <4>2, <1>2 DEF Threads
    <3> QED
      BY <1>1, <2>1, <2>3, <3>2, <3>6 DEF Threads
  <2> QED
    BY <2>1, <2>3, <2>6, <2>7, <2>8
<1>15. ConnectedViewsAreAttached'
  BY <1>1, <1>2, <1>3, <1>4, <1>5 DEF IInv, ConnectedViewsAreAttached, Registered,
     Threads
<1>16. AnnouncedHostsFeedTheirViews'
  BY <1>1, <1>2, <1>3, <1>4, <1>5 DEF IInv, AnnouncedHostsFeedTheirViews, StillToHear,
     Threads
<1>17. DeliveryGoesOn'
  BY <1>1, <1>2, <1>3, <1>4, <1>5 DEF IInv, DeliveryGoesOn, Threads
<1>18. NewsFits' /\ ViewersAreSubscribed' /\ LossIsStillToBeHeard'
  BY <1>1 DEF IInv, NewsFits, BusFree, ViewersAreSubscribed, LossIsStillToBeHeard
<1> QED
  BY <1>6, <1>7, <1>8, <1>9, <1>10, <1>11, <1>12, <1>13, <1>14, <1>15, <1>16, <1>17,
     <1>18 DEF IInv

\* A stop takes its client's buffer out, or goes on to make a new channel.
LEMMA CloseStreamStep ==
    ASSUME IInv, NEW t \in Threads, CloseStream(t)
    PROVE  IInv'
<1> DEFINE c == call[t]
<1>1. /\ TypeOK
      /\ c.at = "close"
      /\ UNCHANGED <<phase, link, joins, made, nRef, streaming, replaced, crossed,
                     gone, views, wanted, late, subscribers, bus, answer, closing>>
  BY DEF IInv, CloseStream, hostVars, viewVars, busVars
<1>2. \/ /\ IF c.live THEN DelRingBuffer(c.cl, c.k) ELSE UNCHANGED rings
         /\ call' = [call EXCEPT ![t] = Stopped(t)]
      \/ /\ call' = [call EXCEPT ![t].at = "remake"]
         /\ UNCHANGED rings
  BY DEF CloseStream
<1>3. /\ c.cl \in Clients
      /\ c.k \in Streams
      /\ c.live => Registered(c.k)
      /\ t # "bus"
      /\ c.live \in BOOLEAN
  BY <1>1, CallFacts, CallTyped DEF IInv
<1>4. /\ call' \in [Threads -> CallType]
      /\ \A u \in Threads \ {t} : call'[u] = call[u]
      /\ call'[t].cl = c.cl
      /\ call'[t].left = c.left
      /\ t = "worker" => call'[t].k = c.k /\ call'[t].at \in {"erase", "remake"}
      /\ call'[t].at \in {"erase", "remake"} => call'[t].k = c.k /\ call'[t].live = c.live
      /\ \/ call'[t].at = "erase" /\ t = "worker"
         \/ call'[t].at = "remake" /\ rings' = rings
         \/ /\ call'[t].at = "read" /\ t # "worker"
            /\ call'[t].k = NoStream /\ ~ call'[t].live
  <2>1. CASE call' = [call EXCEPT ![t] = Stopped(t)]
    <3>1. Stopped(t) \in CallType
      BY <1>1, StoppedFacts
    <3>2. /\ call' \in [Threads -> CallType]
          /\ call'[t] = Stopped(t)
          /\ \A u \in Threads \ {t} : call'[u] = call[u]
      BY <1>1, <2>1, <3>1, CallSet
    <3> QED
      BY <1>1, <3>2, StoppedFacts
  <2>2. CASE call' = [call EXCEPT ![t].at = "remake"] /\ rings' = rings
    <3>1. "remake" \in Places
      BY DEF Places
    <3> QED
      BY <1>1, <2>2, <3>1, PlaceSet
  <2> QED
    BY <1>2, <2>1, <2>2
<1>5. /\ rings' \in [Streams -> Seq(Clients)]
      /\ \A j \in Streams : rings'[j] # rings[j] => j = c.k /\ c.live /\ Contains(rings[j], c.cl)
      /\ \A j \in Streams : /\ Len(rings'[j]) \in Nat /\ Len(rings[j]) \in Nat
                            /\ Len(rings'[j]) >= Len(rings[j]) - 1
      /\ \A j \in Streams, d \in Clients : Contains(rings'[j], d) => Contains(rings[j], d)
      /\ \A j \in Streams, d \in Clients \ {c.cl} : Contains(rings[j], d) => Contains(rings'[j], d)
      /\ \A j \in Streams : rings[j] = <<>> => rings'[j] = <<>>
  <2>1. rings \in [Streams -> Seq(Clients)]
    BY <1>1 DEF TypeOK
  <2>2. CASE rings' = rings
    BY <2>1, <2>2
  <2>3. CASE c.live /\ DelRingBuffer(c.cl, c.k)
    <3> DEFINE r == RemoveFirst(rings[c.k], c.cl)
    <3>1. /\ rings[c.k] \in Seq(Clients)
          /\ r \in Seq(Clients)
          /\ Len(r) \in Nat
          /\ Len(r) >= Len(rings[c.k]) - 1
          /\ \A d : d # c.cl /\ Contains(rings[c.k], d) => Contains(r, d)
          /\ \A d : Contains(r, d) => Contains(rings[c.k], d)
          /\ ~ Contains(rings[c.k], c.cl) => r = rings[c.k]
      <4>1. rings[c.k] \in Seq(Clients)
        BY <2>1, <1>3
      <4> QED
        BY <4>1, RemoveFirstFacts
    <3>2. rings' = [rings EXCEPT ![c.k] = r]
      BY <2>1, <2>3 DEF DelRingBuffer
    <3>3. rings[c.k] = <<>> => r = <<>>
      BY <3>1, EmptyFacts
    <3> HIDE DEF r
    <3>4. /\ rings' \in [Streams -> Seq(Clients)]
          /\ rings'[c.k] = r
          /\ \A j \in Streams \ {c.k} : rings'[j] = rings[j]
      BY <2>1, <3>1, <3>2, <1>3
    <3>5. \A j \in Streams : Len(rings[j]) \in Nat /\ Len(rings'[j]) \in Nat
      BY <2>1, <3>4
    <3> QED
      BY <2>3, <3>1, <3>3, <3>4, <3>5, <1>3
  <2> QED
    BY <1>2, <2>2, <2>3
<1>6. \A d \in Clients, j \in Streams :
         /\ Stops("worker", d, j)' <=> Stops("worker", d, j)
         /\ BeingStopped(d, j)' <=> BeingStopped(d, j)
  BY <1>1, <1>4 DEF BeingStopped, Stops, Threads
<1>7. \A d \in Clients, j \in Streams :
         ~ BeingStopped(d, j) /\ Contains(rings[j], d) => Contains(rings'[j], d)
  <2> SUFFICES ASSUME NEW d \in Clients, NEW j \in Streams, Contains(rings[j], d),
                      ~ Contains(rings'[j], d)
               PROVE  BeingStopped(d, j)
    OBVIOUS
  <2>1. d = c.cl /\ j = c.k
    BY <1>5
  <2> QED
    BY <2>1, <1>1, <1>3 DEF BeingStopped, Stops, Threads
<1>8. TypeOK'
  BY <1>1, <1>3, <1>4, <1>5, <1>6, <1>7 DEF IInv, TypeOK, CallType
<1>9. CallsFit'
  BY <1>1, <1>3, <1>4, CallFacts DEF IInv, CallsFit, CallFits, PlacesOf, PlayPlaces,
     StopPlaces, Registered, Threads
<1>10. ThreadsFit'
  BY <1>1, <1>3, <1>4 DEF IInv, ThreadsFit, Threads
<1>11. UnmadeAreEmpty'
  BY <1>1, <1>5 DEF IInv, UnmadeAreEmpty, Registered
<1>12. ViewsFit'
  <2>1. call'["bus"] = call["bus"]
    BY <1>3, <1>4 DEF Threads
  <2>2. call'["worker"].at \in PlayPlaces => call'["worker"] = call["worker"]
    BY <1>4 DEF Threads, PlayPlaces
  <2> HIDE DEF c
  <2> QED
    BY <1>1, <2>1, <2>2 DEF IInv, ViewsFit
<1>13. CrossingsAreKnown'
  <2>1. call'["bus"] = call["bus"]
    BY <1>3, <1>4 DEF Threads
  <2>2. call["bus"].k \in Streams => call["bus"].cl \in Clients
    BY <1>1, CallFacts, StreamHost DEF IInv, Threads
  <2> QED
    BY <1>1, <1>6, <2>1, <2>2 DEF IInv, CrossingsAreKnown
<1>14. PlaysAreAttached'
  <2> SUFFICES ASSUME NEW u \in Threads, call'[u].live, call'[u].at \in {"count", "list"},
                      call'[u].k \notin replaced,
                      (~ Stops("worker", call[u].cl, call[u].k))'
               PROVE  Contains(rings'[call'[u].k], call'[u].cl)
    BY <1>1 DEF PlaysAreAttached, Stops
  <2>1. u # t /\ call'[u] = call[u]
    BY <1>4
  <2>2. call[u].k \in Streams /\ call[u].cl \in Clients
    BY <2>1, <1>1, CallFacts DEF IInv
  <2>3. ~ Stops("worker", call[u].cl, call[u].k)
    BY <2>1, <2>2, <1>6 DEF Stops
  <2>4. Contains(rings[call[u].k], call[u].cl)
    BY <2>1, <2>3 DEF IInv, PlaysAreAttached
  <2>5. ~ (call[u].cl = c.cl /\ call[u].k = c.k)
    <3>1. CASE t = "worker"
      BY <3>1, <2>3, <1>1 DEF Stops
    <3>2. CASE t = "stopper"
      BY <3>2, <2>1, <1>1 DEF IInv, ThreadsFit, Threads
    <3> QED
      BY <3>1, <3>2, <1>3 DEF Threads
  <2> QED
    BY <2>1, <2>2, <2>4, <2>5, <1>5
<1>15. DebtsAreCovered'
  <2> SUFFICES ASSUME NEW k \in Streams, k \notin replaced', k \notin crossed'
               PROVE  (nRef[k] + Owed("worker", k) + Owed("bus", k) + Owed("stopper", k)
                       <= Len(rings[k]))'
    BY DEF DebtsAreCovered
  <2>1. /\ k \notin replaced /\ k \notin crossed
        /\ nRef[k] \in Nat /\ nRef'[k] \in Nat /\ Len(rings[k]) \in Nat /\ Len(rings'[k]) \in Nat
    BY <1>1, <1>5, <1>8 DEF TypeOK
  <2>2. nRef[k] + Owed("worker", k) + Owed("bus", k) + Owed("stopper", k) <= Len(rings[k])
    BY <2>1 DEF IInv, DebtsAreCovered
  <2>3. \A u \in Threads : Owed(u, k) \in {0, 1} /\ Owed(u, k)' \in {0, 1}
    BY DEF Owed
  <2>4. ASSUME NEW u \in Threads PROVE Owed(u, k)' <= Owed(u, k)
    <3>1. CASE u = t
      BY <2>3, <3>1, <1>4 DEF Owed
    <3>2. CASE u # t
      <4>1. call'[u] = call[u] /\ (call[u].at = "close" => call[u].cl \in Clients)
        BY <3>2, <1>1, <1>4, CallFacts DEF IInv
      <4> QED
        BY <4>1, <1>5 DEF Owed
    <3> QED
      BY <3>1, <3>2
  <2>5. CASE rings'[k] = rings[k]
    BY <1>1, <2>1, <2>2, <2>3, <2>4, <2>5 DEF Threads
  <2>6. CASE rings'[k] # rings[k]
    <3>1. Owed(t, k) = 1
      BY <2>6, <1>1, <1>5 DEF Owed
    <3>2. Owed(t, k)' = 0
      BY <1>4 DEF Owed
    <3>3. Len(rings'[k]) >= Len(rings[k]) - 1
      BY <1>5
    <3>4. nRef'[k] = nRef[k]
      BY <1>1
    <3>5. CASE t = "worker"
      <4> HIDE DEF c
      <4> QED BY <2>1, <2>2, <2>3, <2>4, <3>1, <3>2, <3>3, <3>4, <3>5 DEF Threads
    <3>6. CASE t = "stopper"
      <4> HIDE DEF c
      <4> QED BY <2>1, <2>2, <2>3, <2>4, <3>1, <3>2, <3>3, <3>4, <3>6 DEF Threads
    <3> QED
      BY <3>5, <3>6, <1>3 DEF Threads
  <2> QED
    BY <2>5, <2>6
<1>16. ConnectedViewsAreAttached'
  BY <1>1, <1>6, <1>7 DEF IInv, ConnectedViewsAreAttached, Registered, Threads
<1>17. AnnouncedHostsFeedTheirViews'
  BY <1>1, <1>3, <1>4, <1>6, <1>7 DEF IInv, AnnouncedHostsFeedTheirViews, StillToHear,
     Threads
<1>18. DeliveryGoesOn'
  BY <1>1, <1>3, <1>4, <1>6, <1>7 DEF IInv, DeliveryGoesOn, Threads
<1>19. /\ StreamingMatchesRefs'
       /\ NewsFits'
       /\ ViewersAreSubscribed'
       /\ LossIsStillToBeHeard'
  BY <1>1 DEF IInv, StreamingMatchesRefs, NewsFits, BusFree, ViewersAreSubscribed,
     LossIsStillToBeHeard
<1> QED
  BY <1>8, <1>9, <1>10, <1>11, <1>12, <1>13, <1>14, <1>15, <1>16, <1>17, <1>18, <1>19
     DEF IInv

-------------------------------------------------------------------------------

(***************************************************************************)
(* Clients.                                                                *)
(***************************************************************************)

\* The worker starts with a command of a client that is not being deleted.
LEMMA OnReadStep ==
    ASSUME IInv, NEW cl \in Clients, OnRead(cl)
    PROVE  IInv'
<1>1. /\ TypeOK
      /\ call["worker"].at = "idle"
      /\ call["stopper"].at = "idle"
      /\ cl \notin gone
      /\ call' = [call EXCEPT !["worker"] = [NoCall EXCEPT !.cl = cl, !.at = "read"]]
      /\ UNCHANGED <<phase, link, joins, made, nRef, rings, streaming, replaced, crossed,
                     gone, views, wanted, late, subscribers, bus, answer, closing>>
  BY DEF IInv, OnRead, ClientMapFree, hostVars, channelVars, viewVars, busVars
<1>2. /\ call' \in [Threads -> CallType]
      /\ \A u \in Threads \ {"worker"} : call'[u] = call[u]
      /\ call'["worker"].cl = cl
      /\ call'["worker"].k = NoStream
      /\ call'["worker"].at = "read"
      /\ ~ call'["worker"].live
  <2>1. "worker" \in Threads /\ "read" \in Places
    BY DEF Threads, Places
  <2> DEFINE r == [NoCall EXCEPT !.cl = cl, !.at = "read"]
  <2>2. r \in CallType
    BY <2>1, NoCallTyped DEF CallType
  <2>3. /\ call' \in [Threads -> CallType]
        /\ call'["worker"] = r
        /\ \A u \in Threads \ {"worker"} : call'[u] = call[u]
    BY <1>1, <2>1, <2>2, CallSet
  <2> QED
    BY <2>3 DEF NoCall
<1>3. \A d \in Clients, j \in Streams :
         /\ Stops("worker", d, j)' <=> Stops("worker", d, j)
         /\ BeingStopped(d, j)' <=> BeingStopped(d, j)
  BY <1>1, <1>2, RealPlayAssumption DEF BeingStopped, Stops, Threads
<1>4. TypeOK'
  BY <1>1, <1>2, <1>3 DEF IInv, TypeOK, CallType
<1>5. CallsFit'
  BY <1>1, <1>2, <1>3, CallFacts, RealPlayAssumption DEF IInv, CallsFit, CallFits,
     PlacesOf, PlayPlaces, StopPlaces, Registered, Threads
<1>6. ThreadsFit'
  BY <1>1, <1>2, <1>3, CallFacts, GoneFacts, RealPlayAssumption DEF IInv, ThreadsFit,
     Threads
<1>7. ViewsFit'
  BY <1>1, <1>2, <1>3 DEF IInv, ViewsFit, PlayPlaces, Threads
<1>8. CrossingsAreKnown'
  BY <1>1, <1>2, <1>3, StreamHost DEF IInv, CrossingsAreKnown, Stops, Threads
<1>9. PlaysAreAttached'
  BY <1>1, <1>2, <1>3, StreamHost DEF IInv, PlaysAreAttached, Stops, Threads
<1>10. DebtsAreCovered'
  BY <1>1, <1>2, <1>3, StreamHost DEF IInv, DebtsAreCovered, Owed, Threads
<1>11. ConnectedViewsAreAttached'
  BY <1>1, <1>2, <1>3 DEF IInv, ConnectedViewsAreAttached, Registered, Threads
<1>12. AnnouncedHostsFeedTheirViews'
  BY <1>1, <1>2, <1>3 DEF IInv, AnnouncedHostsFeedTheirViews, StillToHear, Threads
<1>13. DeliveryGoesOn'
  BY <1>1, <1>2, <1>3 DEF IInv, DeliveryGoesOn, Threads
<1>14. /\ UnmadeAreEmpty'
       /\ StreamingMatchesRefs'
       /\ NewsFits'
       /\ ViewersAreSubscribed'
       /\ LossIsStillToBeHeard'
  BY <1>1 DEF IInv, UnmadeAreEmpty, StreamingMatchesRefs, NewsFits, BusFree,
     ViewersAreSubscribed, LossIsStillToBeHeard
<1> QED
  BY <1>4, <1>5, <1>6, <1>7, <1>8, <1>9, <1>10, <1>11, <1>12, <1>13, <1>14 DEF IInv

\* The client logs in, and hears the bus from now on.
LEMMA LoginStep ==
    ASSUME IInv, NEW cl \in Clients, Login(cl)
    PROVE  IInv'
<1>1. /\ TypeOK
      /\ call["worker"].at = "read"
      /\ BusFree
      /\ call' = [call EXCEPT !["worker"] = NoCall]
      /\ subscribers' = Append(subscribers, cl)
      /\ UNCHANGED <<phase, link, joins, made, nRef, rings, streaming, replaced,
                     crossed, gone, views, wanted, late, bus, answer, closing>>
  BY DEF IInv, Login, hostVars, channelVars, viewVars
<1>2. /\ call' \in [Threads -> CallType]
      /\ \A u \in Threads \ {"worker"} : call'[u] = call[u]
      /\ call'["worker"].cl = NoClient
      /\ call'["worker"].k = NoStream
      /\ call'["worker"].at = "idle"
      /\ ~ call'["worker"].live
  <2>1. "worker" \in Threads
    BY DEF Threads
  <2>2. /\ call' \in [Threads -> CallType]
        /\ call'["worker"] = NoCall
        /\ \A u \in Threads \ {"worker"} : call'[u] = call[u]
    BY <1>1, <2>1, NoCallTyped, CallSet
  <2> QED
    BY <2>2 DEF NoCall
<1>3. /\ subscribers' \in Seq(Clients)
      /\ \A d : Contains(subscribers, d) => Contains(subscribers', d)
  <2>1. subscribers \in Seq(Clients)
    BY <1>1 DEF TypeOK
  <2> QED
    BY <1>1, <2>1, AppendFacts
<1>4. \A d \in Clients, j \in Streams :
         /\ Stops("worker", d, j)' <=> Stops("worker", d, j)
         /\ BeingStopped(d, j)' <=> BeingStopped(d, j)
  BY <1>1, <1>2, RealPlayAssumption DEF BeingStopped, Stops, Threads
<1>5. TypeOK'
  BY <1>1, <1>2, <1>3, <1>4 DEF IInv, TypeOK, CallType
<1>6. CallsFit'
  BY <1>1, <1>2, <1>3, <1>4, CallFacts, RealPlayAssumption DEF IInv, CallsFit,
     CallFits, PlacesOf, PlayPlaces, StopPlaces, Registered, Threads
<1>7. ThreadsFit'
  BY <1>1, <1>2, <1>3, <1>4, CallFacts, GoneFacts, RealPlayAssumption DEF IInv,
     ThreadsFit, Threads
<1>8. ViewsFit'
  BY <1>1, <1>2, <1>3, <1>4 DEF IInv, ViewsFit, PlayPlaces, Threads
<1>9. CrossingsAreKnown'
  BY <1>1, <1>2, <1>3, <1>4, StreamHost DEF IInv, CrossingsAreKnown, Stops, Threads
<1>10. PlaysAreAttached'
  BY <1>1, <1>2, <1>3, <1>4, StreamHost DEF IInv, PlaysAreAttached, Stops, Threads
<1>11. DebtsAreCovered'
  BY <1>1, <1>2, <1>3, <1>4, StreamHost DEF IInv, DebtsAreCovered, Owed, Threads
<1>12. NewsFits'
  BY <1>1, <1>2, <1>3, <1>4 DEF IInv, NewsFits, BusFree
<1>13. ViewersAreSubscribed'
  BY <1>1, <1>2, <1>3, <1>4 DEF IInv, ViewersAreSubscribed
<1>14. ConnectedViewsAreAttached'
  BY <1>1, <1>2, <1>3, <1>4 DEF IInv, ConnectedViewsAreAttached, Registered, Threads
<1>15. AnnouncedHostsFeedTheirViews'
  BY <1>1, <1>2, <1>3, <1>4 DEF IInv, AnnouncedHostsFeedTheirViews, StillToHear,
     Threads
<1>16. DeliveryGoesOn'
  BY <1>1, <1>2, <1>3, <1>4 DEF IInv, DeliveryGoesOn, Threads
<1>17. UnmadeAreEmpty' /\ StreamingMatchesRefs' /\ LossIsStillToBeHeard'
  BY <1>1 DEF IInv, UnmadeAreEmpty, StreamingMatchesRefs, LossIsStillToBeHeard
<1> QED
  BY <1>5, <1>6, <1>7, <1>8, <1>9, <1>10, <1>11, <1>12, <1>13, <1>14, <1>15, <1>16,
     <1>17 DEF IInv

\* A play looks its host and its channel up.
LEMMA RealPlayStep ==
    ASSUME IInv, NEW cl \in Clients, NEW k \in Streams, RealPlay(cl, k)
    PROVE  IInv'
<1>1. /\ TypeOK
      /\ call["worker"].at = "read" /\ call["worker"].cl = cl
      /\ k \notin wanted[cl]
      /\ wanted' = [wanted EXCEPT ![cl] = @ \cup {k}]
      /\ UNCHANGED <<phase, link, joins, made, nRef, rings, streaming, replaced,
                     crossed, gone, views, late, subscribers, bus, answer, closing>>
  BY DEF IInv, RealPlay, hostVars, channelVars, busVars
<1>2. /\ call' \in [Threads -> CallType]
      /\ \A u \in Threads \ {"worker"} : call'[u] = call[u]
      /\ \/ call'["worker"].cl = NoClient /\ call'["worker"].at = "idle"
            /\ call'["worker"].k = NoStream /\ ~ call'["worker"].live
         \/ /\ Registered(k)
            /\ call'["worker"].cl = cl /\ call'["worker"].k = k /\ call'["worker"].live
            /\ \/ call'["worker"].at = "make"
               \/ call'["worker"].at = "open" /\ k \in made
  <2>1. "worker" \in Threads /\ {} \in SUBSET Streams
    BY DEF Threads
  <2>2. CASE Registered(k) /\ GetForPlay("worker", k, {})
    <3>1. /\ call' \in [Threads -> CallType]
          /\ \A u \in Threads \ {"worker"} : call'[u] = call[u]
          /\ call'["worker"].cl = call["worker"].cl
          /\ call'["worker"].k = k
          /\ call'["worker"].live
          /\ call'["worker"].at = "make" \/ (call'["worker"].at = "open" /\ k \in made)
      BY <1>1, <2>1, <2>2, GetForPlayFacts
    <3> QED
      BY <1>1, <2>2, <3>1
  <2>3. CASE call' = [call EXCEPT !["worker"] = NoCall]
    <3>1. /\ call' \in [Threads -> CallType]
          /\ call'["worker"] = NoCall
          /\ \A u \in Threads \ {"worker"} : call'[u] = call[u]
      BY <1>1, <2>1, <2>3, NoCallTyped, CallSet
    <3> QED
      BY <3>1 DEF NoCall
  <2> QED
    BY <2>2, <2>3 DEF RealPlay
<1>3. /\ views[cl][k] = "none"
      /\ wanted' \in [Clients -> SUBSET Streams]
      /\ \A d \in Clients : wanted[d] \subseteq wanted'[d]
      /\ k \in wanted'[cl]
  BY <1>1 DEF IInv, ViewsFit, TypeOK
<1>4. \A d \in Clients, j \in Streams :
         /\ ~ Stops("worker", d, j)'
         /\ BeingStopped(d, j)' <=> BeingStopped(d, j)
  BY <1>1, <1>2, RealPlayAssumption DEF BeingStopped, Stops, Threads
<1>5. TypeOK'
  BY <1>1, <1>2, <1>3, <1>4 DEF IInv, TypeOK, CallType
<1>6. CallsFit'
  BY <1>1, <1>2, <1>3, <1>4, CallFacts, RealPlayAssumption DEF IInv, CallsFit,
     CallFits, PlacesOf, PlayPlaces, StopPlaces, Registered, Threads
<1>7. ThreadsFit'
  BY <1>1, <1>2, <1>3, <1>4, CallFacts, GoneFacts, RealPlayAssumption DEF IInv,
     ThreadsFit, Threads
<1>8. ViewsFit'
  BY <1>1, <1>2, <1>3, <1>4 DEF IInv, ViewsFit, PlayPlaces, Threads
<1>9. CrossingsAreKnown'
  BY <1>1, <1>2, <1>3, <1>4, StreamHost, RealPlayAssumption DEF IInv,
     CrossingsAreKnown, Stops, Threads
<1>10. PlaysAreAttached'
  <2> SUFFICES ASSUME NEW u \in Threads, call'[u].live, call'[u].at \in {"count", "list"},
                      call'[u].k \notin replaced
               PROVE  Contains(rings[call'[u].k], call'[u].cl)
    BY <1>1 DEF PlaysAreAttached
  <2>1. u # "worker" /\ call'[u] = call[u]
    BY <1>2
  <2>2. ~ Stops("worker", call[u].cl, call[u].k)
    BY <1>1 DEF Stops
  <2> QED
    BY <2>1, <2>2 DEF IInv, PlaysAreAttached
<1>11. DebtsAreCovered'
  BY <1>1, <1>2, <1>3, <1>4, StreamHost DEF IInv, DebtsAreCovered, Owed, Threads
<1>12. ConnectedViewsAreAttached'
  BY <1>1, <1>2, <1>3, <1>4 DEF IInv, ConnectedViewsAreAttached, Registered, Threads
<1>13. AnnouncedHostsFeedTheirViews'
  BY <1>1, <1>2, <1>3, <1>4 DEF IInv, AnnouncedHostsFeedTheirViews, StillToHear,
     Threads
<1>14. DeliveryGoesOn'
  BY <1>1, <1>2, <1>3, <1>4 DEF IInv, DeliveryGoesOn, Threads
<1>15. /\ UnmadeAreEmpty'
       /\ StreamingMatchesRefs'
       /\ NewsFits'
       /\ ViewersAreSubscribed'
       /\ LossIsStillToBeHeard'
  BY <1>1 DEF IInv, UnmadeAreEmpty, StreamingMatchesRefs, NewsFits, BusFree,
     ViewersAreSubscribed, LossIsStillToBeHeard
<1> QED
  BY <1>5, <1>6, <1>7, <1>8, <1>9, <1>10, <1>11, <1>12, <1>13, <1>14, <1>15 DEF IInv

\* StartView enters the view, if its host answered.
LEMMA PushViewStep ==
    ASSUME IInv, NEW cl \in Clients, PushView(cl)
    PROVE  IInv'
<1> DEFINE c == call["worker"]
<1>1. /\ TypeOK
      /\ c.cl = cl /\ c.at = "list"
      /\ VecFree(cl)
      /\ \/ /\ views' = [views EXCEPT ![cl][c.k] = "connected"]
            /\ late' = IF c.live /\ WillHear(cl, c.k[1]) THEN late
                       ELSE [late EXCEPT ![cl] = @ \cup {c.k}]
         \/ UNCHANGED <<views, late>>
      /\ call' = [call EXCEPT !["worker"] = NoCall]
      /\ UNCHANGED <<phase, link, joins, made, nRef, rings, streaming, replaced,
                     crossed, gone, wanted, subscribers, bus, answer, closing>>
  BY DEF IInv, PushView, hostVars, channelVars, busVars
<1>2. /\ call' \in [Threads -> CallType]
      /\ \A u \in Threads \ {"worker"} : call'[u] = call[u]
      /\ call'["worker"].cl = NoClient
      /\ call'["worker"].k = NoStream
      /\ call'["worker"].at = "idle"
      /\ ~ call'["worker"].live
  <2>1. "worker" \in Threads
    BY DEF Threads
  <2>2. /\ call' \in [Threads -> CallType]
        /\ call'["worker"] = NoCall
        /\ \A u \in Threads \ {"worker"} : call'[u] = call[u]
    BY <1>1, <2>1, NoCallTyped, CallSet
  <2> QED
    BY <2>2 DEF NoCall
<1>3. /\ c.k \in Streams /\ "worker" \in Threads
      /\ c.live => Registered(c.k) /\ c.k \in made
      /\ call["bus"].cl # cl /\ call["stopper"].cl # cl
      /\ c.k \in wanted[cl] /\ cl \notin gone
  <2>1. "worker" \in Threads /\ "stopper" \in Threads
    BY DEF Threads
  <2>2. c.at # "idle" /\ c.at \in PlayPlaces
    BY <1>1 DEF PlayPlaces
  <2>3. c.k \in Streams /\ (c.live => Registered(c.k) /\ c.k \in made)
    BY <1>1, <2>1, CallFacts DEF IInv
  <2>4. c.k \in wanted[cl]
    BY <1>1, <2>2 DEF IInv, ViewsFit
  <2>5. call["bus"].cl # cl /\ cl \notin gone
    BY <1>1 DEF VecFree, IInv, ThreadsFit
  <2>6. call["stopper"].cl # cl
    BY <1>1, <2>1, CallFacts, RealPlayAssumption DEF IInv, ThreadsFit
  <2> QED
    BY <2>1, <2>3, <2>4, <2>5, <2>6
<1>4. /\ views' \in [Clients -> [Streams -> {"none", "connected", "broken"}]]
      /\ late' \in [Clients -> SUBSET Streams]
      /\ \A d \in Clients, j \in Streams :
            \/ views'[d][j] = views[d][j] /\ (j \in late'[d] <=> j \in late[d])
            \/ /\ d = cl /\ j = c.k /\ views'[d][j] = "connected"
               /\ j \notin late'[d] => c.live /\ WillHear(cl, j[1])
  <2>1. CASE UNCHANGED <<views, late>>
    BY <2>1, <1>1 DEF TypeOK
  <2>2. CASE /\ views' = [views EXCEPT ![cl][c.k] = "connected"]
             /\ late' = IF c.live /\ WillHear(cl, c.k[1]) THEN late
                        ELSE [late EXCEPT ![cl] = @ \cup {c.k}]
    <3>1. /\ views' \in [Clients -> [Streams -> {"none", "connected", "broken"}]]
          /\ views'[cl][c.k] = "connected"
          /\ \A d \in Clients, j \in Streams : d # cl \/ j # c.k => views'[d][j] = views[d][j]
      BY <2>2, <1>1, <1>3 DEF TypeOK
    <3>2. /\ late' \in [Clients -> SUBSET Streams]
          /\ \A d \in Clients, j \in Streams :
                d # cl \/ j # c.k => (j \in late'[d] <=> j \in late[d])
          /\ c.k \notin late'[cl] => c.live /\ WillHear(cl, c.k[1])
      <4>1. CASE c.live /\ WillHear(cl, c.k[1])
        BY <2>2, <4>1, <1>1, <1>3 DEF TypeOK
      <4>2. CASE ~ (c.live /\ WillHear(cl, c.k[1]))
        BY <2>2, <4>2, <1>1, <1>3 DEF TypeOK
      <4> QED
        BY <4>1, <4>2
    <3> QED
      BY <3>1, <3>2
  <2> QED
    BY <1>1, <2>1, <2>2
<1>5. c.live /\ c.k \notin replaced => Contains(rings[c.k], cl)
  BY <1>1, <1>3 DEF IInv, PlaysAreAttached, Stops
<1>6. \A d \in Clients, j \in Streams :
         /\ Stops("worker", d, j)' <=> Stops("worker", d, j)
         /\ BeingStopped(d, j)' <=> BeingStopped(d, j)
  BY <1>1, <1>2, RealPlayAssumption DEF BeingStopped, Stops, Threads
<1>7. TypeOK'
  BY <1>1, <1>2, <1>3, <1>4, <1>5, <1>6 DEF IInv, TypeOK, CallType
<1>8. CallsFit'
  BY <1>1, <1>2, <1>3, <1>4, <1>5, <1>6, CallFacts, RealPlayAssumption DEF IInv,
     CallsFit, CallFits, PlacesOf, PlayPlaces, StopPlaces, Registered, Threads
<1>9. ThreadsFit'
  BY <1>1, <1>2, <1>3, <1>4, <1>5, <1>6, CallFacts, GoneFacts, RealPlayAssumption DEF
     IInv, ThreadsFit, Threads
<1>10. ViewsFit'
  BY <1>1, <1>2, <1>3, <1>4, <1>5, <1>6 DEF IInv, ViewsFit, PlayPlaces, Threads
<1>11. CrossingsAreKnown'
  BY <1>1, <1>2, <1>3, <1>4, <1>5, <1>6, StreamHost DEF IInv, CrossingsAreKnown,
     Stops, Threads
<1>12. PlaysAreAttached'
  BY <1>1, <1>2, <1>3, <1>4, <1>5, <1>6, StreamHost DEF IInv, PlaysAreAttached, Stops,
     Threads
<1>13. DebtsAreCovered'
  BY <1>1, <1>2, <1>3, <1>4, <1>5, <1>6, StreamHost DEF IInv, DebtsAreCovered, Owed,
     Threads
<1>14. ViewersAreSubscribed'
  BY <1>1, <1>4 DEF IInv, ViewersAreSubscribed, WillHear
<1>15. LossIsStillToBeHeard'
  BY <1>1, <1>4 DEF IInv, LossIsStillToBeHeard, WillHear
<1>16. ConnectedViewsAreAttached'
  BY <1>1, <1>3, <1>4, <1>5, <1>6 DEF IInv, ConnectedViewsAreAttached, Registered,
     Threads
<1>17. AnnouncedHostsFeedTheirViews'
  BY <1>1, <1>2, <1>3, <1>4, <1>5, <1>6 DEF IInv, AnnouncedHostsFeedTheirViews,
     StillToHear, Threads
<1>18. DeliveryGoesOn'
  BY <1>1, <1>2, <1>3, <1>4, <1>6 DEF IInv, DeliveryGoesOn, Threads
<1>19. UnmadeAreEmpty' /\ StreamingMatchesRefs' /\ NewsFits'
  BY <1>1 DEF IInv, UnmadeAreEmpty, StreamingMatchesRefs, NewsFits, BusFree
<1> QED
  BY <1>7, <1>8, <1>9, <1>10, <1>11, <1>12, <1>13, <1>14, <1>15, <1>16, <1>17, <1>18,
     <1>19 DEF IInv

\* A stop looks its host up; the view may be just being opened again.
LEMMA RealStopStep ==
    ASSUME IInv, NEW cl \in Clients, NEW k \in Streams, RealStop(cl, k)
    PROVE  IInv'
<1>1. /\ TypeOK
      /\ call["worker"].at = "read" /\ call["worker"].cl = cl
      /\ crossed' = IF call["bus"].cl = cl /\ call["bus"].k = k THEN crossed \cup {k} ELSE crossed
      /\ UNCHANGED <<phase, link, joins, made, nRef, rings, streaming, replaced,
                     gone, views, wanted, late, subscribers, bus, answer, closing>>
  BY DEF IInv, RealStop, hostVars, viewVars, busVars
<1>2. /\ call' \in [Threads -> CallType]
      /\ \A u \in Threads \ {"worker"} : call'[u] = call[u]
      /\ call'["worker"].cl = cl /\ call'["worker"].k = k
      /\ \/ call'["worker"].at = "uncount" /\ Registered(k)
         \/ call'["worker"].at = "erase" /\ ~ call'["worker"].live
  <2>1. "worker" \in Threads /\ {} \in SUBSET Streams
    BY DEF Threads
  <2>2. CASE Registered(k) /\ GetForStop("worker", k, {})
    <3>1. "uncount" \in Places
      BY DEF Places
    <3>2. /\ call' \in [Threads -> CallType]
          /\ \A u \in Threads \ {"worker"} : call'[u] = call[u]
          /\ call'["worker"].cl = call["worker"].cl
          /\ call'["worker"].k = k
          /\ call'["worker"].at = "uncount"
      BY <1>1, <2>1, <2>2, <3>1, GetDeviceFacts DEF GetForStop, GetDeviceObj
    <3> QED
      BY <1>1, <2>2, <3>2
  <2>3. CASE call' = [call EXCEPT !["worker"].k = k, !["worker"].at = "erase"]
    <3> DEFINE r == [call["worker"] EXCEPT !.k = k, !.at = "erase"]
    <3>1. call \in [Threads -> CallType] /\ call["worker"] \in CallType
      BY <1>1, <2>1, CallTyped
    <3>2. r \in CallType
      <4>1. "erase" \in Places
        BY DEF Places
      <4> QED
        BY <3>1, <4>1 DEF CallType
    <3>3. call' = [call EXCEPT !["worker"] = r]
      BY <2>1, <2>3, <3>1
    <3>4. /\ call' \in [Threads -> CallType]
          /\ call'["worker"] = r
          /\ \A u \in Threads \ {"worker"} : call'[u] = call[u]
      BY <1>1, <2>1, <3>2, <3>3, CallSet
    <3>5. ~ call["worker"].live
      BY <1>1, <2>1, CallFacts DEF IInv
    <3>6. r.cl = call["worker"].cl /\ r.k = k /\ r.at = "erase" /\ r.live = call["worker"].live
      BY <3>1 DEF CallType
    <3> HIDE DEF r
    <3> QED
      BY <1>1, <3>4, <3>5, <3>6
  <2> QED
    BY <2>2, <2>3 DEF RealStop
<1>3. /\ crossed' \subseteq Streams /\ crossed \subseteq crossed'
      /\ call["bus"].cl = cl /\ call["bus"].k = k => k \in crossed'
  BY <1>1 DEF TypeOK
<1>4. \A d \in Clients, j \in Streams : BeingStopped(d, j) => BeingStopped(d, j)'
  BY <1>1, <1>2, RealPlayAssumption DEF BeingStopped, Stops, Threads
<1>5. TypeOK'
  BY <1>1, <1>2, <1>3, <1>4 DEF IInv, TypeOK, CallType
<1>6. CallsFit'
  BY <1>1, <1>2, <1>3, <1>4, CallFacts, RealPlayAssumption DEF IInv, CallsFit,
     CallFits, PlacesOf, PlayPlaces, StopPlaces, Registered, Threads
<1>7. ThreadsFit'
  BY <1>1, <1>2, <1>3, <1>4, CallFacts, GoneFacts, RealPlayAssumption DEF IInv,
     ThreadsFit, Threads
<1>8. ViewsFit'
  BY <1>1, <1>2, <1>3, <1>4 DEF IInv, ViewsFit, PlayPlaces, Threads
<1>9. CrossingsAreKnown'
  BY <1>1, <1>2, <1>3 DEF IInv, CrossingsAreKnown, Stops, Threads
<1>10. PlaysAreAttached'
  <2> SUFFICES ASSUME NEW u \in Threads, call'[u].live, call'[u].at \in {"count", "list"},
                      call'[u].k \notin replaced,
                      (~ Stops("worker", call[u].cl, call[u].k))'
               PROVE  Contains(rings[call'[u].k], call'[u].cl)
    BY <1>1 DEF PlaysAreAttached, Stops
  <2>1. call'[u] = call[u]
    BY <1>2
  <2>2. ~ Stops("worker", call[u].cl, call[u].k)
    BY <1>1, <2>1, <1>2, CallFacts, RealPlayAssumption DEF IInv, Stops, Threads
  <2> QED
    BY <2>1, <2>2 DEF IInv, PlaysAreAttached
<1>11. DebtsAreCovered'
  BY <1>1, <1>2, <1>3, <1>4, StreamHost DEF IInv, DebtsAreCovered, Owed, Threads
<1>12. ConnectedViewsAreAttached'
  BY <1>1, <1>2, <1>3, <1>4 DEF IInv, ConnectedViewsAreAttached, Registered, Threads
<1>13. AnnouncedHostsFeedTheirViews'
  BY <1>1, <1>2, <1>3, <1>4 DEF IInv, AnnouncedHostsFeedTheirViews, StillToHear,
     Threads
<1>14. DeliveryGoesOn'
  BY <1>1, <1>2, <1>3, <1>4 DEF IInv, DeliveryGoesOn, Threads
<1>15. /\ UnmadeAreEmpty'
       /\ StreamingMatchesRefs'
       /\ NewsFits'
       /\ ViewersAreSubscribed'
       /\ LossIsStillToBeHeard'
  BY <1>1 DEF IInv, UnmadeAreEmpty, StreamingMatchesRefs, NewsFits, BusFree,
     ViewersAreSubscribed, LossIsStillToBeHeard
<1> QED
  BY <1>5, <1>6, <1>7, <1>8, <1>9, <1>10, <1>11, <1>12, <1>13, <1>14, <1>15 DEF IInv

\* StopView has erased the view.
LEMMA EraseViewStep ==
    ASSUME IInv, NEW cl \in Clients, EraseView(cl)
    PROVE  IInv'
<1> DEFINE c == call["worker"]
<1>1. /\ TypeOK
      /\ c.cl = cl /\ c.at = "erase"
      /\ VecFree(cl)
      /\ views' = [views EXCEPT ![cl][c.k] = "none"]
      /\ wanted' = [wanted EXCEPT ![cl] = @ \ {c.k}]
      /\ late' = [late EXCEPT ![cl] = @ \ {c.k}]
      /\ call' = [call EXCEPT !["worker"] = NoCall]
      /\ UNCHANGED <<phase, link, joins, made, nRef, rings, streaming,
                     replaced, crossed, gone, subscribers, bus, answer, closing>>
  BY DEF IInv, EraseView, hostVars, channelVars, busVars
<1>2. /\ call' \in [Threads -> CallType]
      /\ \A u \in Threads \ {"worker"} : call'[u] = call[u]
      /\ call'["worker"].cl = NoClient
      /\ call'["worker"].k = NoStream
      /\ call'["worker"].at = "idle"
      /\ ~ call'["worker"].live
  <2>1. "worker" \in Threads
    BY DEF Threads
  <2>2. /\ call' \in [Threads -> CallType]
        /\ call'["worker"] = NoCall
        /\ \A u \in Threads \ {"worker"} : call'[u] = call[u]
    BY <1>1, <2>1, NoCallTyped, CallSet
  <2> QED
    BY <2>2 DEF NoCall
<1>3. /\ c.k \in Streams /\ "worker" \in Threads
      /\ call["bus"].cl # cl /\ call["stopper"].cl # cl
  <2>1. "worker" \in Threads /\ "stopper" \in Threads
    BY DEF Threads
  <2>2. c.k \in Streams
    BY <1>1, <2>1, CallFacts DEF IInv
  <2>3. call["bus"].cl # cl
    BY <1>1 DEF VecFree
  <2>4. call["stopper"].cl # cl
    BY <1>1, <2>1, CallFacts, RealPlayAssumption DEF IInv, ThreadsFit
  <2> QED
    BY <2>1, <2>2, <2>3, <2>4
<1>4. /\ views' \in [Clients -> [Streams -> {"none", "connected", "broken"}]]
      /\ late' \in [Clients -> SUBSET Streams] /\ wanted' \in [Clients -> SUBSET Streams]
      /\ \A d \in Clients, j \in Streams :
            \/ /\ d = cl /\ j = c.k /\ views'[d][j] = "none"
            \/ /\ d # cl \/ j # c.k
               /\ views'[d][j] = views[d][j]
               /\ j \in late'[d] <=> j \in late[d]
               /\ j \in wanted'[d] <=> j \in wanted[d]
      /\ \A d \in Clients \ {cl} : wanted'[d] = wanted[d]
  BY <1>1, <1>3 DEF TypeOK
<1>5. \A d \in Clients, j \in Streams :
         BeingStopped(d, j) => BeingStopped(d, j)' \/ (d = cl /\ j = c.k)
  BY <1>1, <1>2 DEF BeingStopped, Stops, Threads
<1>6. TypeOK'
  BY <1>1, <1>2, <1>3, <1>4, <1>5 DEF IInv, TypeOK, CallType
<1>7. CallsFit'
  BY <1>1, <1>2, <1>3, <1>4, <1>5, CallFacts, RealPlayAssumption DEF IInv, CallsFit,
     CallFits, PlacesOf, PlayPlaces, StopPlaces, Registered, Threads
<1>8. ThreadsFit'
  BY <1>1, <1>2, <1>3, <1>4, <1>5, CallFacts, GoneFacts, RealPlayAssumption DEF IInv,
     ThreadsFit, Threads
<1>9. ViewsFit'
  BY <1>1, <1>2, <1>3, <1>4, <1>5 DEF IInv, ViewsFit, PlayPlaces, Threads
<1>10. CrossingsAreKnown'
  BY <1>1, <1>2, <1>3, <1>4, <1>5, StreamHost DEF IInv, CrossingsAreKnown, Stops,
     Threads
<1>11. PlaysAreAttached'
  <2> SUFFICES ASSUME NEW u \in Threads, call'[u].live, call'[u].at \in {"count", "list"},
                      call'[u].k \notin replaced,
                      (~ Stops("worker", call[u].cl, call[u].k))'
               PROVE  Contains(rings[call'[u].k], call'[u].cl)
    BY <1>1 DEF PlaysAreAttached, Stops
  <2>1. call'[u] = call[u]
    BY <1>2
  <2>2. ~ Stops("worker", call[u].cl, call[u].k)
    BY <1>1, <1>3, <2>1, <1>2, CallFacts, RealPlayAssumption DEF IInv, Stops, Threads
  <2> QED
    BY <2>1, <2>2 DEF IInv, PlaysAreAttached
<1>12. DebtsAreCovered'
  BY <1>1, <1>2, <1>3, <1>4, <1>5, StreamHost DEF IInv, DebtsAreCovered, Owed, Threads
<1>13. ViewersAreSubscribed'
  BY <1>1, <1>4 DEF IInv, ViewersAreSubscribed
<1>14. LossIsStillToBeHeard'
  BY <1>1, <1>4 DEF IInv, LossIsStillToBeHeard
<1>15. ConnectedViewsAreAttached'
  BY <1>1, <1>3, <1>4, <1>5 DEF IInv, ConnectedViewsAreAttached, Registered, Threads
<1>16. AnnouncedHostsFeedTheirViews'
  BY <1>1, <1>2, <1>3, <1>4, <1>5 DEF IInv, AnnouncedHostsFeedTheirViews, StillToHear,
     Threads
<1>17. DeliveryGoesOn'
  BY <1>1, <1>2, <1>3, <1>4, <1>5 DEF IInv, DeliveryGoesOn, Threads
<1>18. UnmadeAreEmpty' /\ StreamingMatchesRefs' /\ NewsFits'
  BY <1>1 DEF IInv, UnmadeAreEmpty, StreamingMatchesRefs, NewsFits, BusFree
<1> QED
  BY <1>6, <1>7, <1>8, <1>9, <1>10, <1>11, <1>12, <1>13, <1>14, <1>15, <1>16, <1>17,
     <1>18 DEF IInv

\* The deletion of a client begins: nobody works for it.
LEMMA BrokenStep ==
    ASSUME IInv, NEW cl \in Clients, Broken(cl)
    PROVE  IInv'
<1>1. /\ TypeOK
      /\ call["stopper"].at = "idle"
      /\ cl \notin gone
      /\ call["worker"].cl # cl /\ call["bus"].cl # cl
      /\ call' = [call EXCEPT !["stopper"] =
                     [NoCall EXCEPT !.cl = cl, !.at = "read", !.left = Viewed(cl)]]
      /\ UNCHANGED <<phase, link, joins, made, nRef, rings, streaming, replaced, crossed,
                     gone, views, wanted, late, subscribers, bus, answer, closing>>
  BY DEF IInv, Broken, ClientMapFree, hostVars, channelVars, viewVars, busVars
<1>2. /\ call' \in [Threads -> CallType]
      /\ \A u \in Threads \ {"stopper"} : call'[u] = call[u]
      /\ call'["stopper"].cl = cl
      /\ call'["stopper"].k = NoStream
      /\ call'["stopper"].at = "read"
      /\ ~ call'["stopper"].live
  <2>1. "stopper" \in Threads /\ "read" \in Places
    BY DEF Threads, Places
  <2> DEFINE r == [NoCall EXCEPT !.cl = cl, !.at = "read", !.left = Viewed(cl)]
  <2>2. r \in CallType
    BY <2>1, NoCallTyped DEF CallType, Viewed
  <2>3. /\ call' \in [Threads -> CallType]
        /\ call'["stopper"] = r
        /\ \A u \in Threads \ {"stopper"} : call'[u] = call[u]
    BY <1>1, <2>1, <2>2, CallSet
  <2> QED
    BY <2>3 DEF NoCall
<1>3. call["stopper"].cl = NoClient
  BY <1>1, CallFacts DEF IInv, Threads
<1>4. \A d \in Clients, j \in Streams :
         /\ Stops("worker", d, j)' <=> Stops("worker", d, j)
         /\ BeingStopped(d, j) => BeingStopped(d, j)'
  BY <1>1, <1>2, <1>3, RealPlayAssumption DEF BeingStopped, Stops, Threads
<1>5. TypeOK'
  BY <1>1, <1>2, <1>3, <1>4 DEF IInv, TypeOK, CallType
<1>6. CallsFit'
  BY <1>1, <1>2, <1>3, <1>4, CallFacts, RealPlayAssumption DEF IInv, CallsFit,
     CallFits, PlacesOf, PlayPlaces, StopPlaces, Registered, Threads
<1>7. ThreadsFit'
  BY <1>1, <1>2, <1>3, <1>4, CallFacts, GoneFacts, RealPlayAssumption DEF IInv,
     ThreadsFit, Threads
<1>8. ViewsFit'
  BY <1>1, <1>2, <1>3, <1>4 DEF IInv, ViewsFit, PlayPlaces, Threads
<1>9. CrossingsAreKnown'
  BY <1>1, <1>2, <1>3, <1>4, StreamHost DEF IInv, CrossingsAreKnown, Stops, Threads
<1>10. PlaysAreAttached'
  BY <1>1, <1>2, <1>3, <1>4, StreamHost DEF IInv, PlaysAreAttached, Stops, Threads
<1>11. DebtsAreCovered'
  BY <1>1, <1>2, <1>3, <1>4, StreamHost DEF IInv, DebtsAreCovered, Owed, Threads
<1>12. ConnectedViewsAreAttached'
  BY <1>1, <1>2, <1>3, <1>4 DEF IInv, ConnectedViewsAreAttached, Registered, Threads
<1>13. AnnouncedHostsFeedTheirViews'
  BY <1>1, <1>2, <1>3, <1>4 DEF IInv, AnnouncedHostsFeedTheirViews, StillToHear,
     Threads
<1>14. DeliveryGoesOn'
  BY <1>1, <1>2, <1>3, <1>4 DEF IInv, DeliveryGoesOn, Threads
<1>15. /\ UnmadeAreEmpty'
       /\ StreamingMatchesRefs'
       /\ NewsFits'
       /\ ViewersAreSubscribed'
       /\ LossIsStillToBeHeard'
  BY <1>1 DEF IInv, UnmadeAreEmpty, StreamingMatchesRefs, NewsFits, BusFree,
     ViewersAreSubscribed, LossIsStillToBeHeard
<1> QED
  BY <1>5, <1>6, <1>7, <1>8, <1>9, <1>10, <1>11, <1>12, <1>13, <1>14, <1>15 DEF IInv

\* StopAllReal looks the host of its next entry up.
LEMMA StopAllRealStep ==
    ASSUME IInv, NEW k \in Streams, StopAllReal(k)
    PROVE  IInv'
<1>1. /\ TypeOK
      /\ call["stopper"].at = "read"
      /\ UNCHANGED <<phase, link, joins, made, nRef, rings, streaming, replaced, crossed,
                     gone, views, wanted, late, subscribers, bus, answer, closing>>
  BY DEF IInv, StopAllReal, hostVars, channelVars, viewVars, busVars
<1>2. /\ call' \in [Threads -> CallType]
      /\ \A u \in Threads \ {"stopper"} : call'[u] = call[u]
      /\ call'["stopper"].cl = call["stopper"].cl
      /\ \/ call'["stopper"].at = "uncount" /\ Registered(k) /\ call'["stopper"].k = k
         \/ /\ call'["stopper"].at = "read" /\ call'["stopper"].k = NoStream
            /\ ~ call'["stopper"].live
  <2>1. "stopper" \in Threads /\ call["stopper"].left \in SUBSET Streams
    BY <1>1, CallTyped DEF Threads
  <2>2. CASE Registered(k) /\ GetForStop("stopper", k, call["stopper"].left \ {k})
    <3>1. "uncount" \in Places /\ call["stopper"].left \ {k} \in SUBSET Streams
      BY <2>1 DEF Places
    <3>2. /\ call' \in [Threads -> CallType]
          /\ \A u \in Threads \ {"stopper"} : call'[u] = call[u]
          /\ call'["stopper"].cl = call["stopper"].cl
          /\ call'["stopper"].k = k
          /\ call'["stopper"].at = "uncount"
      BY <1>1, <2>1, <2>2, <3>1, GetDeviceFacts DEF GetForStop, GetDeviceObj
    <3> QED
      BY <2>2, <3>2
  <2>3. CASE call' = [call EXCEPT !["stopper"].left = @ \ {k}]
    <3> DEFINE r == [call["stopper"] EXCEPT !.left = @ \ {k}]
    <3>1. call \in [Threads -> CallType] /\ call["stopper"] \in CallType
      BY <1>1, <2>1, CallTyped
    <3>2. r \in CallType
      BY <2>1, <3>1 DEF CallType
    <3>3. call' = [call EXCEPT !["stopper"] = r]
      BY <2>1, <2>3, <3>1
    <3>4. /\ call' \in [Threads -> CallType]
          /\ call'["stopper"] = r
          /\ \A u \in Threads \ {"stopper"} : call'[u] = call[u]
      BY <1>1, <2>1, <3>2, <3>3, CallSet
    <3>5. call["stopper"].k = NoStream /\ ~ call["stopper"].live
      BY <1>1, <2>1, CallFacts DEF IInv
    <3>6. /\ r.cl = call["stopper"].cl /\ r.k = call["stopper"].k
          /\ r.at = call["stopper"].at /\ r.live = call["stopper"].live
      BY <3>1 DEF CallType
    <3> HIDE DEF r
    <3> QED
      BY <1>1, <3>4, <3>5, <3>6
  <2> QED
    BY <2>2, <2>3 DEF StopAllReal
<1>3. \A d \in Clients, j \in Streams :
         /\ Stops("worker", d, j)' <=> Stops("worker", d, j)
         /\ BeingStopped(d, j)' <=> BeingStopped(d, j)
  BY <1>1, <1>2, RealPlayAssumption DEF BeingStopped, Stops, Threads
<1>4. TypeOK'
  BY <1>1, <1>2, <1>3 DEF IInv, TypeOK, CallType
<1>5. CallsFit'
  BY <1>1, <1>2, <1>3, CallFacts, RealPlayAssumption DEF IInv, CallsFit, CallFits,
     PlacesOf, PlayPlaces, StopPlaces, Registered, Threads
<1>6. ThreadsFit'
  BY <1>1, <1>2, <1>3, CallFacts, GoneFacts, RealPlayAssumption DEF IInv, ThreadsFit,
     Threads
<1>7. ViewsFit'
  BY <1>1, <1>2, <1>3 DEF IInv, ViewsFit, PlayPlaces, Threads
<1>8. CrossingsAreKnown'
  BY <1>1, <1>2, <1>3, StreamHost DEF IInv, CrossingsAreKnown, Stops, Threads
<1>9. PlaysAreAttached'
  BY <1>1, <1>2, <1>3, StreamHost DEF IInv, PlaysAreAttached, Stops, Threads
<1>10. DebtsAreCovered'
  BY <1>1, <1>2, <1>3, StreamHost DEF IInv, DebtsAreCovered, Owed, Threads
<1>11. ConnectedViewsAreAttached'
  BY <1>1, <1>2, <1>3 DEF IInv, ConnectedViewsAreAttached, Registered, Threads
<1>12. AnnouncedHostsFeedTheirViews'
  BY <1>1, <1>2, <1>3 DEF IInv, AnnouncedHostsFeedTheirViews, StillToHear, Threads
<1>13. DeliveryGoesOn'
  BY <1>1, <1>2, <1>3 DEF IInv, DeliveryGoesOn, Threads
<1>14. /\ UnmadeAreEmpty'
       /\ StreamingMatchesRefs'
       /\ NewsFits'
       /\ ViewersAreSubscribed'
       /\ LossIsStillToBeHeard'
  BY <1>1 DEF IInv, UnmadeAreEmpty, StreamingMatchesRefs, NewsFits, BusFree,
     ViewersAreSubscribed, LossIsStillToBeHeard
<1> QED
  BY <1>4, <1>5, <1>6, <1>7, <1>8, <1>9, <1>10, <1>11, <1>12, <1>13, <1>14 DEF IInv

\* StopAllReal has forgotten all views of the client.
LEMMA ClearViewsStep ==
    ASSUME IInv, ClearViews
    PROVE  IInv'
<1> DEFINE c == call["stopper"]
<1>1. /\ TypeOK
      /\ c.at = "read"
      /\ views' = [views EXCEPT ![c.cl] = [k \in Streams |-> "none"]]
      /\ wanted' = [wanted EXCEPT ![c.cl] = {}]
      /\ late' = [late EXCEPT ![c.cl] = {}]
      /\ call' = [call EXCEPT !["stopper"] = [NoCall EXCEPT !.cl = c.cl, !.at = "leave"]]
      /\ UNCHANGED <<phase, link, joins, made, nRef, rings, streaming,
                     replaced, crossed, gone, subscribers, bus, answer, closing>>
  BY DEF IInv, ClearViews, hostVars, channelVars, busVars
<1>2. c.cl \in Clients /\ call["worker"].cl # c.cl /\ call["bus"].cl # c.cl
  BY <1>1, CallFacts DEF IInv, ThreadsFit, Threads
<1>3. /\ call' \in [Threads -> CallType]
      /\ \A u \in Threads \ {"stopper"} : call'[u] = call[u]
      /\ call'["stopper"].cl = c.cl
      /\ call'["stopper"].k = NoStream
      /\ call'["stopper"].at = "leave"
      /\ ~ call'["stopper"].live
  <2>1. "stopper" \in Threads /\ "leave" \in Places
    BY DEF Threads, Places
  <2> DEFINE r == [NoCall EXCEPT !.cl = c.cl, !.at = "leave"]
  <2>2. r \in CallType
    BY <2>1, NoCallTyped, <1>2 DEF CallType
  <2>3. /\ call' \in [Threads -> CallType]
        /\ call'["stopper"] = r
        /\ \A u \in Threads \ {"stopper"} : call'[u] = call[u]
    BY <1>1, <2>1, <2>2, CallSet
  <2> QED
    BY <2>3 DEF NoCall
<1>4. /\ views' \in [Clients -> [Streams -> {"none", "connected", "broken"}]]
      /\ late' \in [Clients -> SUBSET Streams] /\ wanted' \in [Clients -> SUBSET Streams]
      /\ \A j \in Streams : views'[c.cl][j] = "none"
      /\ \A d \in Clients \ {c.cl} : /\ views'[d] = views[d]
                                   /\ late'[d] = late[d]
                                   /\ wanted'[d] = wanted[d]
  BY <1>1, <1>2 DEF TypeOK
<1>5. \A d \in Clients, j \in Streams :
         /\ Stops("worker", d, j)' <=> Stops("worker", d, j)
         /\ BeingStopped(d, j)' <=> BeingStopped(d, j)
  BY <1>1, <1>3, RealPlayAssumption DEF BeingStopped, Stops, Threads
<1>6. TypeOK'
  BY <1>1, <1>2, <1>3, <1>4, <1>5 DEF IInv, TypeOK, CallType
<1>7. CallsFit'
  BY <1>1, <1>2, <1>3, <1>4, <1>5, CallFacts, RealPlayAssumption DEF IInv, CallsFit,
     CallFits, PlacesOf, PlayPlaces, StopPlaces, Registered, Threads
<1>8. ThreadsFit'
  BY <1>1, <1>2, <1>3, <1>4, CallFacts, GoneFacts, RealPlayAssumption DEF IInv,
     ThreadsFit, Threads
<1>9. ViewsFit'
  BY <1>1, <1>2, <1>3, <1>4, <1>5 DEF IInv, ViewsFit, PlayPlaces, Threads
<1>10. CrossingsAreKnown'
  BY <1>1, <1>2, <1>3, <1>4, <1>5, StreamHost DEF IInv, CrossingsAreKnown, Stops,
     Threads
<1>11. PlaysAreAttached'
  BY <1>1, <1>2, <1>3, <1>4, <1>5, StreamHost DEF IInv, PlaysAreAttached, Stops,
     Threads
<1>12. DebtsAreCovered'
  BY <1>1, <1>2, <1>3, <1>4, <1>5, StreamHost DEF IInv, DebtsAreCovered, Owed, Threads
<1>13. ViewersAreSubscribed'
  BY <1>1, <1>2, <1>4 DEF IInv, ViewersAreSubscribed
<1>14. LossIsStillToBeHeard'
  BY <1>1, <1>2, <1>4 DEF IInv, LossIsStillToBeHeard
<1>15. ConnectedViewsAreAttached'
  BY <1>1, <1>2, <1>4, <1>5 DEF IInv, ConnectedViewsAreAttached, Registered, Threads
<1>16. AnnouncedHostsFeedTheirViews'
  BY <1>1, <1>2, <1>3, <1>4, <1>5 DEF IInv, AnnouncedHostsFeedTheirViews, StillToHear,
     Threads
<1>17. DeliveryGoesOn'
  BY <1>1, <1>2, <1>3, <1>4, <1>5 DEF IInv, DeliveryGoesOn, Threads
<1>18. UnmadeAreEmpty' /\ StreamingMatchesRefs' /\ NewsFits'
  BY <1>1 DEF IInv, UnmadeAreEmpty, StreamingMatchesRefs, NewsFits, BusFree
<1> QED
  BY <1>6, <1>7, <1>8, <1>9, <1>10, <1>11, <1>12, <1>13, <1>14, <1>15, <1>16, <1>17,
     <1>18 DEF IInv

\* A client without views leaves the bus and is deleted.
LEMMA UnsubscribeStep ==
    ASSUME IInv, Unsubscribe
    PROVE  IInv'
<1> DEFINE c == call["stopper"]
<1>1. /\ TypeOK
      /\ c.at = "leave" /\ BusFree
      /\ subscribers' = RemoveFirst(subscribers, c.cl)
      /\ gone' = gone \cup {c.cl}
      /\ call' = [call EXCEPT !["stopper"] = NoCall]
      /\ UNCHANGED <<phase, link, joins, made, nRef, rings, streaming, replaced,
                     crossed, views, wanted, late, bus, answer, closing>>
  BY DEF IInv, Unsubscribe, hostVars, channelVars, viewVars
<1>2. /\ c.cl \in Clients /\ call["worker"].cl # c.cl
      /\ \A j \in Streams : views[c.cl][j] = "none"
  BY <1>1, CallFacts DEF IInv, ThreadsFit, Threads
<1>3. /\ call' \in [Threads -> CallType]
      /\ \A u \in Threads \ {"stopper"} : call'[u] = call[u]
      /\ call'["stopper"].cl = NoClient
      /\ call'["stopper"].k = NoStream
      /\ call'["stopper"].at = "idle"
      /\ ~ call'["stopper"].live
  <2>1. "stopper" \in Threads
    BY DEF Threads
  <2>2. /\ call' \in [Threads -> CallType]
        /\ call'["stopper"] = NoCall
        /\ \A u \in Threads \ {"stopper"} : call'[u] = call[u]
    BY <1>1, <2>1, NoCallTyped, CallSet
  <2> QED
    BY <2>2 DEF NoCall
<1>4. /\ subscribers' \in Seq(Clients)
      /\ \A d \in Clients \ {c.cl} : Contains(subscribers, d) => Contains(subscribers', d)
  <2>1. subscribers \in Seq(Clients)
    BY <1>1 DEF TypeOK
  <2> QED
    BY <1>1, <1>2, <2>1, RemoveFirstFacts
<1>5. \A d \in Clients \ {c.cl}, j \in Streams :
         BeingStopped(d, j)' <=> BeingStopped(d, j)
  BY <1>1, <1>3, RealPlayAssumption DEF BeingStopped, Stops, Threads
<1>6. TypeOK'
  BY <1>1, <1>2, <1>3, <1>4, <1>5 DEF IInv, TypeOK, CallType
<1>7. CallsFit'
  BY <1>1, <1>2, <1>3, <1>4, <1>5, CallFacts, RealPlayAssumption DEF IInv, CallsFit,
     CallFits, PlacesOf, PlayPlaces, StopPlaces, Registered, Threads
<1>8. ThreadsFit'
  BY <1>1, <1>2, <1>3, CallFacts, GoneFacts, RealPlayAssumption DEF IInv, ThreadsFit,
     Threads
<1>9. ViewsFit'
  BY <1>1, <1>2, <1>3, <1>4, <1>5 DEF IInv, ViewsFit, PlayPlaces, Threads
<1>10. CrossingsAreKnown'
  BY <1>1, <1>2, <1>3, <1>4, <1>5, StreamHost DEF IInv, CrossingsAreKnown, Stops,
     Threads
<1>11. PlaysAreAttached'
  BY <1>1, <1>2, <1>3, <1>4, <1>5, StreamHost DEF IInv, PlaysAreAttached, Stops,
     Threads
<1>12. DebtsAreCovered'
  BY <1>1, <1>2, <1>3, <1>4, <1>5, StreamHost DEF IInv, DebtsAreCovered, Owed, Threads
<1>13. NewsFits'
  BY <1>1, <1>4, EmptyFacts DEF IInv, NewsFits, BusFree
<1>14. ViewersAreSubscribed'
  BY <1>1, <1>2, <1>4 DEF IInv, ViewersAreSubscribed
<1>15. ConnectedViewsAreAttached'
  BY <1>1, <1>2, <1>5 DEF IInv, ConnectedViewsAreAttached, Registered, Threads
<1>16. AnnouncedHostsFeedTheirViews'
  BY <1>1, <1>2, <1>3, <1>5 DEF IInv, AnnouncedHostsFeedTheirViews, StillToHear,
     Threads
<1>17. DeliveryGoesOn'
  BY <1>1, <1>2, <1>3, <1>5 DEF IInv, DeliveryGoesOn, Threads
<1>18. UnmadeAreEmpty' /\ StreamingMatchesRefs' /\ LossIsStillToBeHeard'
  BY <1>1 DEF IInv, UnmadeAreEmpty, StreamingMatchesRefs, LossIsStillToBeHeard
<1> QED
  BY <1>6, <1>7, <1>8, <1>9, <1>10, <1>11, <1>12, <1>13, <1>14, <1>15, <1>16, <1>17,
     <1>18 DEF IInv

-------------------------------------------------------------------------------

(***************************************************************************)
(* Hosts.                                                                  *)
(***************************************************************************)

\* A host registers with a fresh object.
LEMMA RegisterStep ==
    ASSUME IInv, NEW h \in Hosts, Register(h)
    PROVE  IInv'
<1>1. /\ TypeOK
      /\ phase[h] = "away"
      /\ joins < MaxJoins
      /\ joins' = joins + 1
      /\ phase' = [phase EXCEPT ![h] = "silent"]
      /\ link' = [link EXCEPT ![h] = TRUE]
      /\ UNCHANGED <<made, nRef, rings, streaming, replaced, crossed, gone, views,
                     wanted, late, call, subscribers, bus, answer, closing>>
  BY DEF IInv, Register, channelVars, viewVars, busVars
<1>2. /\ phase' \in [Hosts -> {"away", "silent", "announced"}]
      /\ link' \in [Hosts -> BOOLEAN]
      /\ phase'[h] = "silent" /\ link'[h]
      /\ \A g \in Hosts \ {h} : phase'[g] = phase[g] /\ (link'[g] <=> link[g])
      /\ joins' \in 0 .. MaxJoins
  BY <1>1, RealPlayAssumption DEF TypeOK
<1>3. TypeOK'
  BY <1>1, <1>2 DEF IInv, TypeOK, CallType
<1>4. CallsFit'
  BY <1>1, <1>2, CallFacts, StreamHost DEF IInv, CallsFit, CallFits, PlacesOf,
     PlayPlaces, StopPlaces, Registered, Threads
<1>5. UnmadeAreEmpty'
  BY <1>1, <1>2, StreamHost DEF IInv, UnmadeAreEmpty, Registered
<1>6. StreamingMatchesRefs'
  <2> SUFFICES ASSUME NEW k \in Streams \ replaced, link'[k[1]]
               PROVE  streaming[k] <=> nRef[k] > 0
    BY <1>1 DEF StreamingMatchesRefs
  <2>1. CASE k[1] = h
    <3>1. k \notin made /\ ~ streaming[k] /\ nRef[k] = 0
      BY <2>1, <1>1 DEF IInv, UnmadeAreEmpty
    <3> QED
      BY <3>1
  <2>2. CASE k[1] # h
    <3>1. link[k[1]]
      BY <2>2, <1>2, StreamHost
    <3> QED
      BY <3>1 DEF IInv, StreamingMatchesRefs
  <2> QED
    BY <2>1, <2>2
<1>7. ConnectedViewsAreAttached'
  BY <1>1, <1>2, StreamHost DEF IInv, ConnectedViewsAreAttached, BeingStopped, Stops,
     Registered, Threads
<1>8. AnnouncedHostsFeedTheirViews'
  BY <1>1, <1>2, StreamHost DEF IInv, AnnouncedHostsFeedTheirViews, BeingStopped,
     Stops, StillToHear, Threads
<1>9. DeliveryGoesOn'
  BY <1>1, <1>2, StreamHost DEF IInv, DeliveryGoesOn, BeingStopped, Stops, Threads
<1>10. /\ ThreadsFit'
       /\ ViewsFit'
       /\ CrossingsAreKnown'
       /\ PlaysAreAttached'
       /\ DebtsAreCovered'
       /\ NewsFits'
       /\ ViewersAreSubscribed'
       /\ LossIsStillToBeHeard'
  BY <1>1 DEF IInv, ThreadsFit, Threads, ViewsFit, CrossingsAreKnown, Stops,
     PlaysAreAttached, DebtsAreCovered, Owed, NewsFits, BusFree, ViewersAreSubscribed,
     LossIsStillToBeHeard
<1> QED
  BY <1>3, <1>4, <1>5, <1>6, <1>7, <1>8, <1>9, <1>10 DEF IInv

\* A device answers.
LEMMA OnAnswerStep ==
    ASSUME IInv, NEW h \in Hosts, OnAnswer(h)
    PROVE  IInv'
<1>1. /\ TypeOK
      /\ answer' = [host |-> h, live |-> TRUE]
      /\ UNCHANGED <<phase, link, joins, made, nRef, rings, streaming, replaced, crossed,
                     gone, views, wanted, late, call, subscribers, bus, closing>>
  BY DEF IInv, OnAnswer, hostVars, channelVars, viewVars
<1>2. TypeOK'
  BY <1>1 DEF IInv, TypeOK, CallType
<1>3. /\ CallsFit'
      /\ ThreadsFit'
      /\ UnmadeAreEmpty'
      /\ StreamingMatchesRefs'
      /\ ViewsFit'
      /\ CrossingsAreKnown'
      /\ PlaysAreAttached'
      /\ DebtsAreCovered'
      /\ NewsFits'
      /\ ViewersAreSubscribed'
      /\ LossIsStillToBeHeard'
      /\ ConnectedViewsAreAttached'
      /\ AnnouncedHostsFeedTheirViews'
      /\ DeliveryGoesOn'
  BY <1>1 DEF IInv, CallsFit, CallFits, Registered, ThreadsFit, Threads,
     UnmadeAreEmpty, StreamingMatchesRefs, ViewsFit, CrossingsAreKnown, Stops,
     PlaysAreAttached, DebtsAreCovered, Owed, NewsFits, BusFree, ViewersAreSubscribed,
     LossIsStillToBeHeard, ConnectedViewsAreAttached, BeingStopped,
     AnnouncedHostsFeedTheirViews, StillToHear, DeliveryGoesOn
<1> QED
  BY <1>2, <1>3 DEF IInv

\* The answer is published to all subscribers.
LEMMA OnSetSysTimeStep ==
    ASSUME IInv, OnSetSysTime
    PROVE  IInv'
<1>1. /\ TypeOK
      /\ BusFree
      /\ phase' = IF answer.live THEN [phase EXCEPT ![answer.host] = "announced"] ELSE phase
      /\ bus' = [msg |-> "connected", host |-> answer.host, todo |-> subscribers]
      /\ answer' = NoAnswer
      /\ UNCHANGED <<link, joins, made, nRef, rings, streaming, replaced, crossed,
                     gone, views, wanted, late, call, subscribers, closing>>
  BY DEF IInv, OnSetSysTime, channelVars, viewVars
<1>2. /\ phase' \in [Hosts -> {"away", "silent", "announced"}]
      /\ \A g \in Hosts : phase'[g] # phase[g] => g = answer.host /\ phase'[g] = "announced"
      /\ answer.host \in Hosts \cup {NoHost}
  BY <1>1 DEF TypeOK
<1>3. /\ bus'.msg = "connected" /\ bus'.host = answer.host /\ bus'.todo = subscribers
      /\ call["bus"].at = "idle" /\ call["bus"].cl = NoClient
  <2>1. call["bus"].at = "idle"
    BY <1>1 DEF BusFree, IInv, ThreadsFit
  <2> QED
    BY <1>1, <2>1, CallFacts DEF IInv, Threads
<1>4. TypeOK'
  BY <1>1, <1>2, <1>3 DEF IInv, TypeOK, CallType, NoAnswer
<1>5. CallsFit'
  BY <1>1, <1>2, <1>3, CallFacts, StreamHost DEF IInv, CallsFit, CallFits, PlacesOf,
     PlayPlaces, StopPlaces, Registered, Threads
<1>6. ThreadsFit'
  BY <1>1, <1>2, <1>3 DEF IInv, ThreadsFit, Threads
<1>7. UnmadeAreEmpty'
  BY <1>1, <1>2, <1>3, StreamHost DEF IInv, UnmadeAreEmpty, Registered
<1>8. NewsFits'
  BY <1>1, <1>2, <1>3 DEF IInv, NewsFits, BusFree
<1>9. LossIsStillToBeHeard'
  BY <1>1, <1>3 DEF IInv, LossIsStillToBeHeard
<1>10. ConnectedViewsAreAttached'
  BY <1>1, <1>2, <1>3, StreamHost DEF IInv, ConnectedViewsAreAttached, BeingStopped,
     Stops, Registered, Threads
<1>11. AnnouncedHostsFeedTheirViews'
  <2> SUFFICES ASSUME NEW d \in Clients, NEW k \in Streams \ replaced,
                      views[d][k] # "none", k \notin late[d], ~ BeingStopped(d, k),
                      phase'[k[1]] = "announced", d \notin StillToHear(k[1])'
               PROVE  Contains(rings[k], d)
    BY <1>1 DEF AnnouncedHostsFeedTheirViews, BeingStopped, Stops
  <2>1. CASE k[1] = answer.host
    <3>1. Contains(subscribers, d)
      BY DEF IInv, ViewersAreSubscribed
    <3> QED
      BY <2>1, <3>1, <1>3 DEF StillToHear
  <2>2. CASE k[1] # answer.host
    <3>1. phase[k[1]] = "announced"
      BY <2>2, <1>2, StreamHost
    <3>2. d \notin StillToHear(k[1])
      BY <1>1 DEF StillToHear, BusFree
    <3> QED
      BY <3>1, <3>2 DEF IInv, AnnouncedHostsFeedTheirViews
  <2> QED
    BY <2>1, <2>2
<1>12. DeliveryGoesOn'
  BY <1>1, <1>3, RealPlayAssumption DEF IInv, DeliveryGoesOn, Threads
<1>13. /\ StreamingMatchesRefs'
       /\ ViewsFit'
       /\ CrossingsAreKnown'
       /\ PlaysAreAttached'
       /\ DebtsAreCovered'
       /\ ViewersAreSubscribed'
  BY <1>1 DEF IInv, StreamingMatchesRefs, ViewsFit, CrossingsAreKnown, Stops,
     PlaysAreAttached, DebtsAreCovered, Owed, ViewersAreSubscribed
<1> QED
  BY <1>4, <1>5, <1>6, <1>7, <1>8, <1>9, <1>10, <1>11, <1>12, <1>13 DEF IInv

\* A connection dies.
LEMMA LinkDownStep ==
    ASSUME IInv, NEW h \in Hosts, LinkDown(h)
    PROVE  IInv'
<1>1. /\ TypeOK
      /\ link' = [link EXCEPT ![h] = FALSE]
      /\ UNCHANGED <<phase, joins, made, nRef, rings, streaming, replaced, crossed, gone,
                     views, wanted, late, call, subscribers, bus, answer, closing>>
  BY DEF IInv, LinkDown, channelVars, viewVars, busVars
<1>2. /\ link' \in [Hosts -> BOOLEAN]
      /\ \A g \in Hosts : link'[g] => link[g]
  BY <1>1 DEF TypeOK
<1>3. TypeOK'
  BY <1>1, <1>2 DEF IInv, TypeOK, CallType
<1>4. UnmadeAreEmpty'
  BY <1>1, <1>2, StreamHost DEF IInv, UnmadeAreEmpty, Registered
<1>5. StreamingMatchesRefs'
  BY <1>1, <1>2, StreamHost DEF IInv, StreamingMatchesRefs
<1>6. /\ CallsFit'
      /\ ThreadsFit'
      /\ ViewsFit'
      /\ CrossingsAreKnown'
      /\ PlaysAreAttached'
      /\ DebtsAreCovered'
      /\ NewsFits'
      /\ ViewersAreSubscribed'
      /\ LossIsStillToBeHeard'
      /\ ConnectedViewsAreAttached'
      /\ AnnouncedHostsFeedTheirViews'
      /\ DeliveryGoesOn'
  BY <1>1 DEF IInv, CallsFit, CallFits, Registered, ThreadsFit, Threads, ViewsFit,
     CrossingsAreKnown, Stops, PlaysAreAttached, DebtsAreCovered, Owed, NewsFits,
     BusFree, ViewersAreSubscribed, LossIsStillToBeHeard, ConnectedViewsAreAttached,
     BeingStopped, AnnouncedHostsFeedTheirViews, StillToHear, DeliveryGoesOn
<1> QED
  BY <1>3, <1>4, <1>5, <1>6 DEF IInv

\* The deletion of a host begins.
LEMMA DelDeviceStep ==
    ASSUME IInv, NEW h \in Hosts, DelDevice(h)
    PROVE  IInv'
<1>1. /\ TypeOK
      /\ closing = NoHost /\ closing' = h
      /\ UNCHANGED <<phase, link, joins, made, nRef, rings, streaming, replaced, crossed,
                     gone, views, wanted, late, call, subscribers, bus, answer>>
  BY DEF IInv, DelDevice, DevMapFree, hostVars, channelVars, viewVars, busVars
<1>2. TypeOK'
  BY <1>1 DEF IInv, TypeOK, CallType
<1>3. NewsFits'
  BY <1>1, RealPlayAssumption DEF IInv, NewsFits, BusFree
<1>4. /\ CallsFit'
      /\ ThreadsFit'
      /\ UnmadeAreEmpty'
      /\ StreamingMatchesRefs'
      /\ ViewsFit'
      /\ CrossingsAreKnown'
      /\ PlaysAreAttached'
      /\ DebtsAreCovered'
      /\ ViewersAreSubscribed'
      /\ LossIsStillToBeHeard'
      /\ ConnectedViewsAreAttached'
      /\ AnnouncedHostsFeedTheirViews'
      /\ DeliveryGoesOn'
  BY <1>1 DEF IInv, CallsFit, CallFits, Registered, ThreadsFit, Threads,
     UnmadeAreEmpty, StreamingMatchesRefs, ViewsFit, CrossingsAreKnown, Stops,
     PlaysAreAttached, DebtsAreCovered, Owed, ViewersAreSubscribed,
     LossIsStillToBeHeard, ConnectedViewsAreAttached, BeingStopped,
     AnnouncedHostsFeedTheirViews, StillToHear, DeliveryGoesOn
<1> QED
  BY <1>2, <1>3, <1>4 DEF IInv

\* The deletion is published to all subscribers.
LEMMA OnBrokenStep ==
    ASSUME IInv, OnBroken
    PROVE  IInv'
<1>1. /\ TypeOK
      /\ closing # NoHost /\ BusFree
      /\ bus' = [msg |-> "broken", host |-> closing, todo |-> subscribers]
      /\ UNCHANGED <<phase, link, joins, made, nRef, rings, streaming, replaced, crossed,
                     gone, views, wanted, late, call, subscribers, answer, closing>>
  BY DEF IInv, OnBroken, DevMapFree, hostVars, channelVars, viewVars
<1>2. /\ bus'.msg = "broken" /\ bus'.host = closing /\ bus'.todo = subscribers
      /\ closing \in Hosts /\ bus.msg = "none"
      /\ call["bus"].at = "idle"
  BY <1>1 DEF BusFree, TypeOK, IInv, ThreadsFit
<1>3. TypeOK'
  BY <1>1, <1>2 DEF IInv, TypeOK, CallType
<1>4. ThreadsFit'
  BY <1>1, <1>2 DEF IInv, ThreadsFit, Threads
<1>5. NewsFits'
  BY <1>1, <1>2 DEF IInv, NewsFits, BusFree
<1>6. LossIsStillToBeHeard'
  BY <1>1, <1>2 DEF IInv, LossIsStillToBeHeard, ViewersAreSubscribed
<1>7. AnnouncedHostsFeedTheirViews'
  BY <1>1, <1>2 DEF IInv, AnnouncedHostsFeedTheirViews, BeingStopped, Stops,
     StillToHear, Threads
<1>8. /\ CallsFit'
      /\ UnmadeAreEmpty'
      /\ StreamingMatchesRefs'
      /\ ViewsFit'
      /\ CrossingsAreKnown'
      /\ PlaysAreAttached'
      /\ DebtsAreCovered'
      /\ ViewersAreSubscribed'
      /\ ConnectedViewsAreAttached'
      /\ DeliveryGoesOn'
  BY <1>1 DEF IInv, CallsFit, CallFits, Registered, UnmadeAreEmpty,
     StreamingMatchesRefs, ViewsFit, CrossingsAreKnown, Stops, PlaysAreAttached,
     DebtsAreCovered, Owed, ViewersAreSubscribed, ConnectedViewsAreAttached,
     BeingStopped, DeliveryGoesOn
<1> QED
  BY <1>3, <1>4, <1>5, <1>6, <1>7, <1>8 DEF IInv

-------------------------------------------------------------------------------

(***************************************************************************)
(* The data bus.                                                           *)
(***************************************************************************)

\* The next client marks its views of the lost host.
LEMMA SendBrokenStep ==
    ASSUME IInv, SendMsgInfo, bus.msg = "broken"
    PROVE  IInv'
<1>1. /\ TypeOK
      /\ bus.todo # <<>> /\ call["bus"].at = "idle"
      /\ bus' = [bus EXCEPT !.todo = Tail(@)]
      /\ bus.msg = "broken"
      /\ DeliverBroken(Head(bus.todo))
      /\ UNCHANGED <<phase, link, joins, made, nRef, rings, streaming, replaced,
                     crossed, gone, wanted, late, call, subscribers, answer, closing>>
  BY DEF IInv, SendMsgInfo, DeliverBroken, hostVars, channelVars, busVars
<1>2. /\ bus'.msg = bus.msg /\ bus'.host = bus.host /\ bus'.todo = Tail(bus.todo)
      /\ bus' \in [msg : {"none", "connected", "broken"}, host : Hosts \cup {NoHost},
                  todo : Seq(Clients)]
      /\ Contains(bus.todo, Head(bus.todo)) /\ Head(bus.todo) \in Clients
      /\ \A d : Contains(bus.todo, d) /\ d # Head(bus.todo) => Contains(Tail(bus.todo), d)
      /\ \A d : Contains(Tail(bus.todo), d) => Contains(bus.todo, d)
      /\ bus.msg # "none"
  <2>1. bus.todo \in Seq(Clients) /\ bus.todo # <<>>
    BY <1>1 DEF TypeOK
  <2>2. /\ Head(bus.todo) \in Clients
        /\ Tail(bus.todo) \in Seq(Clients)
        /\ \A d : Contains(bus.todo, d) /\ d # Head(bus.todo) => Contains(Tail(bus.todo), d)
        /\ \A d : Contains(Tail(bus.todo), d) => Contains(bus.todo, d)
    BY <2>1, TailFacts
  <2>3. Contains(bus.todo, Head(bus.todo))
    <3>1. 1 \in 1 .. Len(bus.todo) /\ Head(bus.todo) = bus.todo[1]
      BY <2>1
    <3> QED
      BY <3>1 DEF Contains
  <2>4. bus.msg # "none"
    BY <1>1 DEF IInv, NewsFits, BusFree
  <2>5. bus' = [bus EXCEPT !.todo = Tail(bus.todo)]
    BY <1>1
  <2> QED
    BY <1>1, <2>2, <2>3, <2>4, <2>5 DEF TypeOK
<1>3. /\ call["bus"].cl = NoClient
      /\ \A h \in Hosts, k \in Streams : k \in StreamsOf(h) <=> k[1] = h
      /\ bus.host \in Hosts
  BY <1>1, CallFacts, StreamHost DEF IInv, NewsFits, Threads
<1>4. /\ views' \in [Clients -> [Streams -> {"none", "connected", "broken"}]]
      /\ \A d \in Clients, j \in Streams :
            /\ views'[d][j] = "none" <=> views[d][j] = "none"
            /\ \/ views'[d][j] = views[d][j]
               \/ views'[d][j] = "broken" /\ d = Head(bus.todo)
      /\ \A j \in Streams : j[1] = bus.host => views'[Head(bus.todo)][j] # "connected"
  <2> DEFINE cl == Head(bus.todo)
             r == [k \in Streams |-> IF k \in Viewed(cl) \cap StreamsOf(bus.host)
                                    THEN "broken" ELSE views[cl][k]]
  <2>1. cl \in Clients
    BY <1>2
  <2>2. /\ r \in [Streams -> {"none", "connected", "broken"}]
        /\ \A j \in Streams : /\ r[j] = "none" <=> views[cl][j] = "none"
                              /\ r[j] = views[cl][j] \/ r[j] = "broken"
                              /\ j[1] = bus.host => r[j] # "connected"
    BY <1>1, <1>3, <2>1 DEF TypeOK, Viewed
  <2>3. views' = [views EXCEPT ![cl] = r]
    BY <1>1 DEF DeliverBroken
  <2> HIDE DEF cl, r
  <2>4. /\ views' \in [Clients -> [Streams -> {"none", "connected", "broken"}]]
        /\ views'[cl] = r
        /\ \A d \in Clients \ {cl} : views'[d] = views[d]
    BY <1>1, <2>1, <2>2, <2>3 DEF TypeOK
  <2> QED
    BY <2>2, <2>4 DEF cl
<1>5. TypeOK'
  BY <1>1, <1>2, <1>4 DEF IInv, TypeOK, CallType
<1>6. ThreadsFit'
  BY <1>1, <1>2, <1>4 DEF IInv, ThreadsFit, Threads
<1>7. ViewsFit'
  BY <1>1, <1>4, <1>3, CallFacts, RealPlayAssumption DEF IInv, ViewsFit, PlayPlaces,
     Threads
<1>8. NewsFits'
  BY <1>1, <1>2 DEF IInv, NewsFits, BusFree
<1>9. ViewersAreSubscribed'
  BY <1>1, <1>2, <1>4 DEF IInv, ViewersAreSubscribed, NewsFits
<1>10. LossIsStillToBeHeard'
  BY <1>1, <1>2, <1>4 DEF IInv, LossIsStillToBeHeard
<1>11. ConnectedViewsAreAttached'
  BY <1>1, <1>4 DEF IInv, ConnectedViewsAreAttached, BeingStopped, Stops, Registered,
     Threads
<1>12. AnnouncedHostsFeedTheirViews'
  BY <1>1, <1>2, <1>4 DEF IInv, AnnouncedHostsFeedTheirViews, BeingStopped, Stops,
     StillToHear, Threads
<1>13. DeliveryGoesOn'
  BY <1>1, <1>3, RealPlayAssumption DEF IInv, DeliveryGoesOn, BeingStopped, Stops,
     Threads
<1>14. /\ CallsFit'
       /\ UnmadeAreEmpty'
       /\ StreamingMatchesRefs'
       /\ CrossingsAreKnown'
       /\ PlaysAreAttached'
       /\ DebtsAreCovered'
  BY <1>1 DEF IInv, CallsFit, CallFits, Registered, UnmadeAreEmpty,
     StreamingMatchesRefs, CrossingsAreKnown, Stops, PlaysAreAttached,
     DebtsAreCovered, Owed
<1> QED
  BY <1>5, <1>6, <1>7, <1>8, <1>9, <1>10, <1>11, <1>12, <1>13, <1>14 DEF IInv

\* The next client begins to open its broken views again.
LEMMA SendConnectedStep ==
    ASSUME IInv, SendMsgInfo, bus.msg # "broken"
    PROVE  IInv'
<1>1. /\ TypeOK
      /\ bus.todo # <<>> /\ call["bus"].at = "idle"
      /\ VecFree(Head(bus.todo))
      /\ bus' = [bus EXCEPT !.todo = Tail(@)]
      /\ bus.msg # "broken"
      /\ DeliverConnected(Head(bus.todo))
      /\ UNCHANGED <<phase, link, joins, made, nRef, rings, streaming, replaced,
                     crossed, gone, views, wanted, late, subscribers, answer, closing>>
  BY DEF IInv, SendMsgInfo, DeliverConnected, hostVars, channelVars, busVars
<1>2. /\ bus'.msg = bus.msg /\ bus'.host = bus.host /\ bus'.todo = Tail(bus.todo)
      /\ bus' \in [msg : {"none", "connected", "broken"}, host : Hosts \cup {NoHost},
                  todo : Seq(Clients)]
      /\ Contains(bus.todo, Head(bus.todo)) /\ Head(bus.todo) \in Clients
      /\ \A d : Contains(bus.todo, d) /\ d # Head(bus.todo) => Contains(Tail(bus.todo), d)
      /\ \A d : Contains(Tail(bus.todo), d) => Contains(bus.todo, d)
      /\ bus.msg # "none"
  <2>1. bus.todo \in Seq(Clients) /\ bus.todo # <<>>
    BY <1>1 DEF TypeOK
  <2>2. /\ Head(bus.todo) \in Clients
        /\ Tail(bus.todo) \in Seq(Clients)
        /\ \A d : Contains(bus.todo, d) /\ d # Head(bus.todo) => Contains(Tail(bus.todo), d)
        /\ \A d : Contains(Tail(bus.todo), d) => Contains(bus.todo, d)
    BY <2>1, TailFacts
  <2>3. Contains(bus.todo, Head(bus.todo))
    <3>1. 1 \in 1 .. Len(bus.todo) /\ Head(bus.todo) = bus.todo[1]
      BY <2>1
    <3> QED
      BY <3>1 DEF Contains
  <2>4. bus.msg # "none"
    BY <1>1 DEF IInv, NewsFits, BusFree
  <2>5. bus' = [bus EXCEPT !.todo = Tail(bus.todo)]
    BY <1>1
  <2> QED
    BY <1>1, <2>2, <2>3, <2>4, <2>5 DEF TypeOK
<1>3. /\ call["bus"].cl = NoClient
      /\ bus.msg = "connected"
  BY <1>1, <1>2, CallFacts DEF IInv, TypeOK, Threads
<1>4. /\ call' \in [Threads -> CallType]
      /\ \A u \in Threads \ {"bus"} : call'[u] = call[u]
      /\ call'["bus"].cl = Head(bus.todo)
      /\ call'["bus"].k = NoStream
      /\ call'["bus"].at = "read"
      /\ ~ call'["bus"].live
      /\ \A j \in Streams : j \in call'["bus"].left <=> views[Head(bus.todo)][j] = "broken"
  <2>1. "bus" \in Threads /\ "read" \in Places
    BY DEF Threads, Places
  <2> DEFINE cl == Head(bus.todo)
             left == {k \in Streams : views[cl][k] = "broken"}
             r == [NoCall EXCEPT !.cl = cl, !.at = "read", !.left = left]
  <2>2. cl \in Clients /\ left \in SUBSET Streams
    BY <1>2
  <2>3. r \in CallType
    BY <2>1, <2>2, NoCallTyped DEF CallType
  <2>4. call' = [call EXCEPT !["bus"] = r]
    BY <1>1 DEF DeliverConnected
  <2>5. /\ call' \in [Threads -> CallType]
        /\ call'["bus"] = r
        /\ \A u \in Threads \ {"bus"} : call'[u] = call[u]
    BY <1>1, <2>1, <2>3, <2>4, CallSet
  <2>6. /\ r.cl = cl /\ r.k = NoStream /\ r.at = "read" /\ ~ r.live /\ r.left = left
    BY DEF NoCall
  <2> HIDE DEF r
  <2> QED
    BY <2>5, <2>6
<1>5. call["stopper"].at \notin {"idle", "leave"} => call["stopper"].cl # Head(bus.todo)
  BY <1>1, <1>2, CallFacts DEF VecFree, IInv, Threads
<1>6. \A d \in Clients, j \in Streams : BeingStopped(d, j)' <=> BeingStopped(d, j)
  BY <1>1, <1>4 DEF BeingStopped, Stops, Threads
<1>7. TypeOK'
  BY <1>1, <1>2, <1>4 DEF IInv, TypeOK, CallType
<1>8. CallsFit'
  BY <1>1, <1>4, <1>2, CallFacts, RealPlayAssumption DEF IInv, CallsFit, CallFits,
     PlacesOf, PlayPlaces, StopPlaces, Registered, Threads
<1>9. ThreadsFit'
  BY <1>1, <1>2, <1>3, <1>4, <1>5, CallFacts DEF IInv, ThreadsFit, Threads
<1>10. ViewsFit'
  BY <1>1, <1>4, <1>3, StreamHost DEF IInv, ViewsFit, PlayPlaces, Threads
<1>11. CrossingsAreKnown'
  BY <1>1, <1>4, StreamHost DEF IInv, CrossingsAreKnown, Stops, Threads
<1>12. PlaysAreAttached'
  BY <1>1, <1>4 DEF IInv, PlaysAreAttached, Stops, Threads
<1>13. DebtsAreCovered'
  BY <1>1, <1>4, StreamHost DEF IInv, DebtsAreCovered, Owed, Threads
<1>14. NewsFits'
  BY <1>1, <1>2 DEF IInv, NewsFits, BusFree
<1>15. LossIsStillToBeHeard'
  BY <1>1, <1>2 DEF IInv, LossIsStillToBeHeard
<1>16. ConnectedViewsAreAttached'
  BY <1>1, <1>6 DEF IInv, ConnectedViewsAreAttached, Registered, Threads
<1>17. AnnouncedHostsFeedTheirViews'
  BY <1>1, <1>2, <1>3, <1>4, <1>6, RealPlayAssumption DEF IInv,
     AnnouncedHostsFeedTheirViews, StillToHear, Threads
<1>18. DeliveryGoesOn'
  BY <1>1, <1>4 DEF IInv, DeliveryGoesOn, Threads
<1>19. UnmadeAreEmpty' /\ StreamingMatchesRefs' /\ ViewersAreSubscribed'
  BY <1>1 DEF IInv, UnmadeAreEmpty, StreamingMatchesRefs, ViewersAreSubscribed
<1> QED
  BY <1>7, <1>8, <1>9, <1>10, <1>11, <1>12, <1>13, <1>14, <1>15, <1>16, <1>17, <1>18,
     <1>19 DEF IInv

LEMMA SendMsgInfoStep ==
    ASSUME IInv, SendMsgInfo
    PROVE  IInv'
  BY SendBrokenStep, SendConnectedStep

\* The next view of the client is opened again, if its host is there.
LEMMA ReConnectStep ==
    ASSUME IInv, NEW k \in Streams, ReConnect(k)
    PROVE  IInv'
<1> DEFINE c == call["bus"]
<1>1. /\ TypeOK
      /\ c.at = "read" /\ k \in c.left
      /\ UNCHANGED <<phase, link, joins, made, nRef, rings, streaming, replaced,
                     gone, views, wanted, late, subscribers, bus, answer, closing>>
  BY DEF IInv, ReConnect, hostVars, viewVars, busVars
<1>2. /\ call' \in [Threads -> CallType]
      /\ \A u \in Threads \ {"bus"} : call'[u] = call[u]
      /\ call'["bus"].cl = c.cl /\ call'["bus"].left = c.left \ {k}
      /\ crossed' \subseteq Streams /\ crossed \subseteq crossed'
      /\ \/ /\ Registered(k) /\ call'["bus"].k = k /\ call'["bus"].live
            /\ \/ call'["bus"].at = "make"
               \/ call'["bus"].at = "open" /\ k \in made
            /\ Stops("worker", c.cl, k) => k \in crossed'
         \/ /\ ~ Registered(k) /\ call'["bus"].k = NoStream /\ call'["bus"].at = "read"
            /\ ~ call'["bus"].live
  <2>1. "bus" \in Threads /\ c.left \ {k} \in SUBSET Streams
    BY <1>1, CallTyped DEF Threads
  <2>2. CASE /\ Registered(k) /\ GetForPlay("bus", k, c.left \ {k})
             /\ crossed' = IF Stops("worker", c.cl, k) THEN crossed \cup {k} ELSE crossed
    <3>1. /\ call' \in [Threads -> CallType]
          /\ \A u \in Threads \ {"bus"} : call'[u] = call[u]
          /\ call'["bus"].cl = c.cl
          /\ call'["bus"].k = k
          /\ call'["bus"].live
          /\ call'["bus"].left = c.left \ {k}
          /\ call'["bus"].at = "make" \/ (call'["bus"].at = "open" /\ k \in made)
      BY <1>1, <2>1, <2>2, GetForPlayFacts
    <3>2. /\ crossed' \subseteq Streams /\ crossed \subseteq crossed'
          /\ Stops("worker", c.cl, k) => k \in crossed'
      BY <1>1, <2>2 DEF TypeOK
    <3> QED
      BY <2>2, <3>1, <3>2
  <2>3. CASE /\ ~ Registered(k)
             /\ call' = [call EXCEPT !["bus"].left = @ \ {k}] /\ crossed' = crossed
    <3> DEFINE r == [call["bus"] EXCEPT !.left = @ \ {k}]
    <3>1. call \in [Threads -> CallType] /\ call["bus"] \in CallType
      BY <1>1, <2>1, CallTyped
    <3>2. r \in CallType
      BY <2>1, <3>1 DEF CallType
    <3>3. call' = [call EXCEPT !["bus"] = r]
      BY <2>1, <2>3, <3>1
    <3>4. /\ call' \in [Threads -> CallType]
          /\ call'["bus"] = r
          /\ \A u \in Threads \ {"bus"} : call'[u] = call[u]
      BY <1>1, <2>1, <3>2, <3>3, CallSet
    <3>5. call["bus"].k = NoStream /\ ~ call["bus"].live
      BY <1>1, <2>1, CallFacts DEF IInv
    <3>6. /\ r.cl = call["bus"].cl /\ r.k = call["bus"].k
          /\ r.at = call["bus"].at /\ r.live = call["bus"].live
          /\ r.left = call["bus"].left \ {k}
      BY <3>1 DEF CallType
    <3>7. crossed \subseteq Streams
      BY <1>1 DEF TypeOK
    <3> HIDE DEF r
    <3> QED
      BY <1>1, <2>3, <3>4, <3>5, <3>6, <3>7
  <2> QED
    BY <2>2, <2>3 DEF ReConnect
<1>3. c.cl \in Clients /\ views[c.cl][k] # "none"
  BY <1>1, CallFacts DEF IInv, ViewsFit, Threads
<1>4. \A d \in Clients, j \in Streams :
         /\ Stops("worker", d, j)' <=> Stops("worker", d, j)
         /\ BeingStopped(d, j)' <=> BeingStopped(d, j)
  BY <1>1, <1>2 DEF BeingStopped, Stops, Threads
<1>5. TypeOK'
  BY <1>1, <1>2, <1>3, <1>4 DEF IInv, TypeOK, CallType
<1>6. CallsFit'
  BY <1>1, <1>3, <1>2, CallFacts, RealPlayAssumption DEF IInv, CallsFit, CallFits,
     PlacesOf, PlayPlaces, StopPlaces, Registered, Threads
<1>7. ThreadsFit'
  BY <1>1, <1>3, <1>2, CallFacts DEF IInv, ThreadsFit, Threads
<1>8. ViewsFit'
  BY <1>1, <1>3, <1>2, StreamHost DEF IInv, ViewsFit, PlayPlaces, Threads
<1>9. CrossingsAreKnown'
  BY <1>1, <1>3, <1>2, <1>4, StreamHost DEF IInv, CrossingsAreKnown, Threads
<1>10. PlaysAreAttached'
  BY <1>1, <1>2, <1>3, <1>4 DEF IInv, PlaysAreAttached, Stops, Threads
<1>11. DebtsAreCovered'
  BY <1>1, <1>2, StreamHost DEF IInv, DebtsAreCovered, Owed, Threads
<1>12. ConnectedViewsAreAttached'
  BY <1>1, <1>4 DEF IInv, ConnectedViewsAreAttached, Registered, Threads
<1>13. AnnouncedHostsFeedTheirViews'
  BY <1>1, <1>2, <1>4 DEF IInv, AnnouncedHostsFeedTheirViews, StillToHear, Threads
<1>14. DeliveryGoesOn'
  BY <1>1, <1>2, <1>3, <1>4 DEF IInv, DeliveryGoesOn, Threads, Registered
<1>15. /\ UnmadeAreEmpty'
       /\ StreamingMatchesRefs'
       /\ NewsFits'
       /\ ViewersAreSubscribed'
       /\ LossIsStillToBeHeard'
  BY <1>1 DEF IInv, UnmadeAreEmpty, StreamingMatchesRefs, NewsFits, BusFree,
     ViewersAreSubscribed, LossIsStillToBeHeard
<1> QED
  BY <1>5, <1>6, <1>7, <1>8, <1>9, <1>10, <1>11, <1>12, <1>13, <1>14, <1>15 DEF IInv

\* A client has opened all its views again.
LEMMA DeliveredStep ==
    ASSUME IInv, Delivered
    PROVE  IInv'
<1>1. /\ TypeOK
      /\ call["bus"].at = "read" /\ call["bus"].left = {}
      /\ call' = [call EXCEPT !["bus"] = NoCall]
      /\ UNCHANGED <<phase, link, joins, made, nRef, rings, streaming, replaced, crossed,
                     gone, views, wanted, late, subscribers, bus, answer, closing>>
  BY DEF IInv, Delivered, hostVars, channelVars, viewVars, busVars
<1>2. /\ call' \in [Threads -> CallType]
      /\ \A u \in Threads \ {"bus"} : call'[u] = call[u]
      /\ call'["bus"].cl = NoClient
      /\ call'["bus"].k = NoStream
      /\ call'["bus"].at = "idle"
      /\ ~ call'["bus"].live
  <2>1. "bus" \in Threads
    BY DEF Threads
  <2>2. /\ call' \in [Threads -> CallType]
        /\ call'["bus"] = NoCall
        /\ \A u \in Threads \ {"bus"} : call'[u] = call[u]
    BY <1>1, <2>1, NoCallTyped, CallSet
  <2> QED
    BY <2>2 DEF NoCall
<1>3. \A d \in Clients, j \in Streams :
         /\ Stops("worker", d, j)' <=> Stops("worker", d, j)
         /\ BeingStopped(d, j)' <=> BeingStopped(d, j)
  BY <1>1, <1>2, RealPlayAssumption DEF BeingStopped, Stops, Threads
<1>4. NoStream \notin Streams /\ call["bus"].k = NoStream /\ call["bus"].cl \in Clients
  BY <1>1, CallFacts, StreamHost DEF IInv, Threads
<1>5. TypeOK'
  BY <1>1, <1>2, <1>3, <1>4 DEF IInv, TypeOK, CallType
<1>6. CallsFit'
  BY <1>1, <1>2, <1>3, <1>4, CallFacts, RealPlayAssumption DEF IInv, CallsFit,
     CallFits, PlacesOf, PlayPlaces, StopPlaces, Registered, Threads
<1>7. ThreadsFit'
  BY <1>1, <1>2, <1>3, <1>4, CallFacts, GoneFacts, RealPlayAssumption DEF IInv,
     ThreadsFit, Threads
<1>8. ViewsFit'
  BY <1>1, <1>2, RealPlayAssumption DEF IInv, ViewsFit, PlayPlaces, Threads
<1>9. CrossingsAreKnown'
  BY <1>1, <1>2, <1>3, <1>4, StreamHost DEF IInv, CrossingsAreKnown, Stops, Threads
<1>10. PlaysAreAttached'
  BY <1>1, <1>2, <1>3, <1>4, StreamHost DEF IInv, PlaysAreAttached, Stops, Threads
<1>11. DebtsAreCovered'
  BY <1>1, <1>2, <1>3, <1>4, StreamHost DEF IInv, DebtsAreCovered, Owed, Threads
<1>12. ConnectedViewsAreAttached'
  BY <1>1, <1>2, <1>3, <1>4 DEF IInv, ConnectedViewsAreAttached, Registered, Threads
<1>13. AnnouncedHostsFeedTheirViews'
  <2> SUFFICES ASSUME NEW d \in Clients, NEW k \in Streams \ replaced,
                      views[d][k] # "none", k \notin late[d], ~ BeingStopped(d, k),
                      phase[k[1]] = "announced", d \notin StillToHear(k[1])'
               PROVE  Contains(rings[k], d)
    BY <1>1, <1>3 DEF AnnouncedHostsFeedTheirViews
  <2>1. CASE call["bus"].cl = d
    <3>1. CASE views[d][k] = "connected"
      BY <3>1 DEF IInv, ConnectedViewsAreAttached
    <3>2. CASE views[d][k] = "broken"
      BY <2>1, <3>2, <1>1 DEF IInv, DeliveryGoesOn
    <3> QED
      BY <3>1, <3>2, <1>1 DEF TypeOK
  <2>2. CASE call["bus"].cl # d
    <3>1. d \notin StillToHear(k[1])
      BY <2>2, <1>1, <1>2 DEF StillToHear
    <3> QED
      BY <3>1 DEF IInv, AnnouncedHostsFeedTheirViews
  <2> QED
    BY <2>1, <2>2
<1>14. DeliveryGoesOn'
  BY <1>1, <1>2, RealPlayAssumption DEF IInv, DeliveryGoesOn, Threads
<1>15. /\ UnmadeAreEmpty'
       /\ StreamingMatchesRefs'
       /\ NewsFits'
       /\ ViewersAreSubscribed'
       /\ LossIsStillToBeHeard'
  BY <1>1 DEF IInv, UnmadeAreEmpty, StreamingMatchesRefs, NewsFits, BusFree,
     ViewersAreSubscribed, LossIsStillToBeHeard
<1> QED
  BY <1>5, <1>6, <1>7, <1>8, <1>9, <1>10, <1>11, <1>12, <1>13, <1>14, <1>15 DEF IInv

\* All clients have been told that a host is back.
LEMMA ConnectedSentStep ==
    ASSUME IInv, MessageSent, bus.msg # "broken"
    PROVE  IInv'
<1>1. /\ TypeOK
      /\ bus.todo = <<>> /\ call["bus"].at = "idle"
      /\ bus' = NoMessage
      /\ UNCHANGED <<phase, link, joins, made, nRef, rings, streaming, replaced, crossed,
                     gone, views, wanted, late, call, subscribers, answer, closing>>
  BY DEF IInv, MessageSent, channelVars
<1>2. call["bus"].cl = NoClient
  BY <1>1, CallFacts DEF IInv, Threads
<1>3. TypeOK'
  BY <1>1, <1>2 DEF IInv, TypeOK, CallType, NoMessage
<1>4. ThreadsFit'
  BY <1>1, <1>2 DEF IInv, ThreadsFit, Threads
<1>5. NewsFits'
  BY <1>1, <1>2, EmptyFacts DEF IInv, NewsFits, BusFree, NoMessage
<1>6. LossIsStillToBeHeard'
  BY <1>1, <1>2 DEF IInv, LossIsStillToBeHeard, NoMessage
<1>7. AnnouncedHostsFeedTheirViews'
  BY <1>1, <1>2, EmptyFacts, RealPlayAssumption DEF IInv,
     AnnouncedHostsFeedTheirViews, BeingStopped, Stops, StillToHear, Threads,
     NoMessage
<1>8. /\ CallsFit'
      /\ UnmadeAreEmpty'
      /\ StreamingMatchesRefs'
      /\ ViewsFit'
      /\ CrossingsAreKnown'
      /\ PlaysAreAttached'
      /\ DebtsAreCovered'
      /\ ViewersAreSubscribed'
      /\ ConnectedViewsAreAttached'
      /\ DeliveryGoesOn'
  BY <1>1 DEF IInv, CallsFit, CallFits, Registered, UnmadeAreEmpty,
     StreamingMatchesRefs, ViewsFit, CrossingsAreKnown, Stops, PlaysAreAttached,
     DebtsAreCovered, Owed, ViewersAreSubscribed, ConnectedViewsAreAttached,
     BeingStopped, DeliveryGoesOn
<1> QED
  BY <1>3, <1>4, <1>5, <1>6, <1>7, <1>8 DEF IInv

\* All clients have been told of the loss: the host object is deleted.
LEMMA BrokenSentStep ==
    ASSUME IInv, MessageSent, bus.msg = "broken"
    PROVE  IInv'
<1>1. /\ TypeOK
      /\ bus.todo = <<>> /\ call["bus"].at = "idle"
      /\ bus' = NoMessage /\ bus.msg = "broken"
      /\ closing' = NoHost
      /\ UNCHANGED <<joins, gone, views, wanted, subscribers>>
  BY DEF IInv, MessageSent
<1>2. /\ bus.host \in Hosts
      /\ \A k \in Streams : k[1] \in Hosts
      /\ \A k \in Streams : k \in StreamsOf(bus.host) <=> k[1] = bus.host
      /\ NoStream \notin Streams
      /\ call["bus"].cl = NoClient /\ call["bus"].k = NoStream /\ ~ call["bus"].live
  BY <1>1, CallFacts, StreamHost DEF IInv, NewsFits, Threads
<1>3. /\ phase' \in [Hosts -> {"away", "silent", "announced"}]
      /\ link' \in [Hosts -> BOOLEAN]
      /\ phase'[bus.host] = "away" /\ ~ link'[bus.host]
      /\ \A g \in Hosts \ {bus.host} : phase'[g] = phase[g] /\ (link'[g] <=> link[g])
      /\ answer' \in [host : Hosts \cup {NoHost}, live : BOOLEAN]
  <2>1. /\ phase' = [phase EXCEPT ![bus.host] = "away"]
        /\ link' = [link EXCEPT ![bus.host] = FALSE]
        /\ answer' = [answer EXCEPT !.live = @ /\ answer.host # bus.host]
    BY <1>1 DEF MessageSent
  <2>2. /\ phase' \in [Hosts -> {"away", "silent", "announced"}]
        /\ link' \in [Hosts -> BOOLEAN]
        /\ phase'[bus.host] = "away" /\ ~ link'[bus.host]
        /\ \A g \in Hosts \ {bus.host} : phase'[g] = phase[g] /\ (link'[g] <=> link[g])
    BY <1>1, <1>2, <2>1 DEF TypeOK
  <2>3. answer' \in [host : Hosts \cup {NoHost}, live : BOOLEAN]
    BY <1>1, <2>1 DEF TypeOK
  <2> QED
    BY <2>2, <2>3
<1>4. /\ made' \subseteq Streams /\ replaced' \subseteq Streams /\ crossed' \subseteq Streams
      /\ nRef' \in [Streams -> Nat] /\ rings' \in [Streams -> Seq(Clients)]
      /\ streaming' \in [Streams -> BOOLEAN]
      /\ \A k \in Streams :
            IF k[1] = bus.host
            THEN /\ k \notin made' /\ nRef'[k] = 0 /\ rings'[k] = <<>> /\ ~ streaming'[k]
            ELSE /\ k \in made' <=> k \in made
                 /\ k \in replaced' <=> k \in replaced
                 /\ k \in crossed' <=> k \in crossed
                 /\ nRef'[k] = nRef[k] /\ rings'[k] = rings[k]
                 /\ streaming'[k] <=> streaming[k]
  <2> DEFINE ks == StreamsOf(bus.host)
  <2>1. /\ made' = made \ ks
        /\ nRef' = [k \in Streams |-> IF k \in ks THEN 0 ELSE nRef[k]]
        /\ rings' = [k \in Streams |-> IF k \in ks THEN <<>> ELSE rings[k]]
        /\ streaming' = [k \in Streams |-> streaming[k] /\ k \notin ks]
        /\ replaced' = replaced \ ks
        /\ crossed' = crossed \ ks
    BY <1>1 DEF MessageSent
  <2>2. <<>> \in Seq(Clients)
    OBVIOUS
  <2> HIDE DEF ks
  <2>3. \A k \in Streams : k \in ks <=> k[1] = bus.host
    BY <1>2 DEF ks
  <2>4. /\ nRef' \in [Streams -> Nat]
        /\ \A k \in Streams : nRef'[k] = IF k \in ks THEN 0 ELSE nRef[k]
    BY <2>1, <1>1 DEF TypeOK
  <2>5. /\ rings' \in [Streams -> Seq(Clients)]
        /\ \A k \in Streams : rings'[k] = IF k \in ks THEN <<>> ELSE rings[k]
    BY <2>1, <2>2, <1>1 DEF TypeOK
  <2>6. /\ streaming' \in [Streams -> BOOLEAN]
        /\ \A k \in Streams : streaming'[k] <=> (streaming[k] /\ k \notin ks)
    BY <2>1, <1>1 DEF TypeOK
  <2>7. made' \subseteq Streams /\ replaced' \subseteq Streams /\ crossed' \subseteq Streams
    BY <2>1, <1>1 DEF TypeOK
  <2> QED
    BY <2>1, <2>3, <2>4, <2>5, <2>6, <2>7
<1>5. /\ late' \in [Clients -> SUBSET Streams]
      /\ \A d \in Clients, k \in Streams :
            k \in late'[d] <=> k \in late[d] /\ (k[1] = bus.host => views[d][k] = "connected")
  <2>1. late' = [cl \in Clients |->
                    {k \in late[cl] : k \in StreamsOf(bus.host) => views[cl][k] = "connected"}]
    BY <1>1 DEF MessageSent
  <2> QED
    BY <1>1, <1>2, <2>1 DEF TypeOK
<1>6. /\ call' \in [Threads -> CallType]
      /\ \A t \in Threads :
            /\ call'[t].cl = call[t].cl /\ call'[t].k = call[t].k
            /\ call'[t].at = call[t].at /\ call'[t].left = call[t].left
            /\ call'[t].live <=> (call[t].live /\ call[t].k[1] # bus.host)
  <2>1. call' = [t \in Threads |->
                    [call[t] EXCEPT !.live = @ /\ call[t].k \notin StreamsOf(bus.host)]]
    BY <1>1 DEF MessageSent
  <2> SUFFICES ASSUME NEW t \in Threads
               PROVE  /\ call'[t] \in CallType
                      /\ call'[t].cl = call[t].cl /\ call'[t].k = call[t].k
                      /\ call'[t].at = call[t].at /\ call'[t].left = call[t].left
                      /\ call'[t].live <=> (call[t].live /\ call[t].k[1] # bus.host)
    BY <2>1
  <2> DEFINE b == call[t].live /\ call[t].k \notin StreamsOf(bus.host)
  <2>2. call[t] \in CallType
    BY <1>1, CallTyped
  <2>3. call'[t] = [call[t] EXCEPT !.live = b]
    BY <2>1
  <2>4. call[t].live => call[t].k \in Streams
    BY <1>1, CallFacts DEF IInv, CallsFit, CallFits, Places, CallType
  <2>5. b <=> (call[t].live /\ call[t].k[1] # bus.host)
    BY <2>4, <1>2
  <2>6. b \in BOOLEAN
    BY <2>2 DEF CallType
  <2> HIDE DEF b
  <2>7. /\ call'[t] \in CallType
        /\ call'[t].cl = call[t].cl /\ call'[t].k = call[t].k
        /\ call'[t].at = call[t].at /\ call'[t].left = call[t].left
        /\ call'[t].live = b
    BY <2>2, <2>3, <2>6 DEF CallType
  <2> QED
    BY <2>5, <2>7
<1>7. \A d \in Clients, j \in Streams :
         /\ Stops("worker", d, j)' <=> Stops("worker", d, j)
         /\ BeingStopped(d, j)' <=> BeingStopped(d, j)
  BY <1>6 DEF BeingStopped, Stops, Threads
<1>8. TypeOK'
  BY <1>1, <1>2, <1>3, <1>4, <1>5, <1>6, <1>7 DEF IInv, TypeOK, CallType, NoMessage
<1>9. CallsFit'
  BY <1>1, <1>2, <1>3, <1>4, <1>6, CallFacts, RealPlayAssumption DEF IInv, CallsFit,
     CallFits, PlacesOf, PlayPlaces, StopPlaces, Registered, Threads
<1>10. ThreadsFit'
  BY <1>1, <1>2, <1>6 DEF IInv, ThreadsFit, Threads
<1>11. UnmadeAreEmpty'
  BY <1>1, <1>2, <1>3, <1>4 DEF IInv, UnmadeAreEmpty, Registered
<1>12. StreamingMatchesRefs'
  BY <1>1, <1>2, <1>3, <1>4 DEF IInv, StreamingMatchesRefs
<1>13. ViewsFit'
  BY <1>1, <1>2, <1>6 DEF IInv, ViewsFit, PlayPlaces, Threads
<1>14. CrossingsAreKnown'
  BY <1>2, <1>6 DEF IInv, CrossingsAreKnown, Stops, Threads
<1>15. PlaysAreAttached'
  <2> SUFFICES ASSUME NEW t \in Threads, call'[t].live, call'[t].at \in {"count", "list"},
                      call'[t].k \notin replaced',
                      (~ Stops("worker", call[t].cl, call[t].k))'
               PROVE  Contains(rings'[call'[t].k], call'[t].cl)
    BY DEF PlaysAreAttached, Stops
  <2>1. /\ call[t].live /\ call[t].k[1] # bus.host /\ call'[t].k = call[t].k
        /\ call'[t].cl = call[t].cl /\ call[t].at \in {"count", "list"}
    BY <1>6
  <2>2. call[t].k \in Streams /\ call[t].cl \in Clients
    BY <2>1, <1>1, CallFacts DEF IInv
  <2>3. rings'[call[t].k] = rings[call[t].k] /\ call[t].k \notin replaced
    BY <2>1, <2>2, <1>4
  <2>4. ~ Stops("worker", call[t].cl, call[t].k)
    BY <2>1, <2>2, <1>7 DEF Stops
  <2>5. Contains(rings[call[t].k], call[t].cl)
    BY <2>1, <2>3, <2>4 DEF IInv, PlaysAreAttached
  <2> QED
    BY <2>1, <2>3, <2>5
<1>16. DebtsAreCovered'
  <2> SUFFICES ASSUME NEW k \in Streams, k \notin replaced', k \notin crossed'
               PROVE  (nRef[k] + Owed("worker", k) + Owed("bus", k) + Owed("stopper", k)
                       <= Len(rings[k]))'
    BY DEF DebtsAreCovered
  <2>1. CASE k[1] = bus.host
    <3>1. \A t \in Threads : Owed(t, k)' = 0
      BY <2>1, <1>6 DEF Owed
    <3>2. nRef'[k] = 0 /\ Len(rings'[k]) = 0
      BY <2>1, <1>4
    <3> QED
      BY <3>1, <3>2 DEF Threads
  <2>2. CASE k[1] # bus.host
    <3>1. /\ k \notin replaced /\ k \notin crossed
          /\ nRef'[k] = nRef[k] /\ rings'[k] = rings[k]
      BY <2>2, <1>4
    <3>2. ASSUME NEW t \in Threads PROVE Owed(t, k)' = Owed(t, k)
      BY <2>2, <3>1, <1>6 DEF Owed
    <3>3. nRef[k] + Owed("worker", k) + Owed("bus", k) + Owed("stopper", k) <= Len(rings[k])
      BY <3>1 DEF IInv, DebtsAreCovered
    <3> QED
      BY <3>1, <3>2, <3>3 DEF Threads
  <2> QED
    BY <2>1, <2>2
<1>17. NewsFits'
  BY <1>1, EmptyFacts DEF IInv, NewsFits, BusFree, NoMessage
<1>18. ViewersAreSubscribed'
  BY <1>1, <1>5 DEF IInv, ViewersAreSubscribed, TypeOK
<1>19. LossIsStillToBeHeard'
  BY <1>1 DEF IInv, LossIsStillToBeHeard, NoMessage
<1>20. ConnectedViewsAreAttached'
  <2> SUFFICES ASSUME NEW d \in Clients, NEW k \in Streams, k \notin replaced',
                      views[d][k] = "connected", k \notin late'[d], ~ BeingStopped(d, k)
               PROVE  phase'[k[1]] # "away" /\ Contains(rings'[k], d)
    BY <1>1, <1>7 DEF ConnectedViewsAreAttached, Registered
  <2>1. k \notin late[d]
    BY <1>5
  <2>2. k[1] # bus.host
    BY <2>1, <1>1, EmptyFacts DEF IInv, LossIsStillToBeHeard
  <2>3. phase'[k[1]] = phase[k[1]] /\ rings'[k] = rings[k] /\ k \notin replaced
    BY <2>2, <1>2, <1>3, <1>4
  <2> QED
    BY <2>1, <2>3 DEF IInv, ConnectedViewsAreAttached, Registered
<1>21. AnnouncedHostsFeedTheirViews'
  <2> SUFFICES ASSUME NEW d \in Clients, NEW k \in Streams, k \notin replaced',
                      views[d][k] # "none", k \notin late'[d], ~ BeingStopped(d, k),
                      phase'[k[1]] = "announced"
               PROVE  Contains(rings'[k], d)
    BY <1>1, <1>7 DEF AnnouncedHostsFeedTheirViews
  <2>1. k[1] # bus.host
    BY <1>2, <1>3
  <2>2. /\ phase[k[1]] = "announced" /\ rings'[k] = rings[k]
        /\ k \notin replaced /\ k \notin late[d]
    BY <2>1, <1>2, <1>3, <1>4, <1>5
  <2>3. d \notin StillToHear(k[1])
    BY <1>1 DEF StillToHear
  <2> QED
    BY <2>2, <2>3 DEF IInv, AnnouncedHostsFeedTheirViews
<1>22. DeliveryGoesOn'
  BY <1>2, <1>6, RealPlayAssumption DEF IInv, DeliveryGoesOn, Threads
<1> QED
  BY <1>8, <1>9, <1>10, <1>11, <1>12, <1>13, <1>14, <1>15, <1>16, <1>17, <1>18, <1>19,
     <1>20, <1>21, <1>22 DEF IInv

LEMMA MessageSentStep ==
    ASSUME IInv, MessageSent
    PROVE  IInv'
  BY BrokenSentStep, ConnectedSentStep

-------------------------------------------------------------------------------

(***************************************************************************)
(* The theorems.                                                           *)
(***************************************************************************)

LEMMA InitIInv == Init => IInv
<1> SUFFICES ASSUME Init PROVE IInv
  OBVIOUS
<1>1. /\ NoCall \in CallType
      /\ NoCall.cl = NoClient /\ NoCall.k = NoStream /\ NoCall.at = "idle"
      /\ ~ NoCall.live
  BY NoCallTyped DEF NoCall
<1>2. /\ call \in [Threads -> CallType]
      /\ \A t \in Threads : call[t] = NoCall
  BY <1>1 DEF Init
<1>3. /\ bus.msg = "none" /\ bus.todo = <<>>
      /\ \A d : ~ Contains(<<>>, d)
  BY EmptyFacts DEF Init, NoMessage
<1>4. TypeOK
  <2>1. /\ <<>> \in Seq(Clients)
        /\ NoMessage \in [msg : {"none", "connected", "broken"}, host : Hosts \cup {NoHost},
                          todo : Seq(Clients)]
        /\ NoAnswer \in [host : Hosts \cup {NoHost}, live : BOOLEAN]
    BY DEF NoMessage, NoAnswer
  <2>2. joins \in 0 .. MaxJoins
    BY RealPlayAssumption DEF Init
  <2>3. call \in [Threads -> [cl : Clients \cup {NoClient}, k : Streams \cup {NoStream},
                             at : Places, live : BOOLEAN, left : SUBSET Streams]]
    BY <1>2 DEF CallType
  <2> QED
    BY <2>1, <2>2, <2>3 DEF Init, TypeOK
<1>5. CallsFit
  BY <1>1, <1>2 DEF CallsFit, CallFits, PlacesOf, PlayPlaces, StopPlaces, Threads
<1>6. ThreadsFit
  <2>1. gone = {} /\ \A cl \in Clients, k \in Streams : views[cl][k] = "none"
    BY DEF Init
  <2> QED
    BY <1>1, <1>2, <2>1 DEF ThreadsFit, Threads
<1>7. UnmadeAreEmpty /\ StreamingMatchesRefs
  BY StreamHost DEF Init, UnmadeAreEmpty, StreamingMatchesRefs
<1>8. \A cl \in Clients, k \in Streams : views[cl][k] = "none"
  BY DEF Init
<1>9. ViewsFit
  BY <1>1, <1>2, <1>8, RealPlayAssumption DEF ViewsFit, Threads
<1>10. CrossingsAreKnown
  BY <1>1, <1>2, StreamHost DEF CrossingsAreKnown, Threads
<1>11. PlaysAreAttached
  BY <1>1, <1>2 DEF PlaysAreAttached
<1>12. DebtsAreCovered
  <2>1. \A t \in Threads, k \in Streams : Owed(t, k) = 0
    BY <1>1, <1>2 DEF Owed
  <2>2. \A k \in Streams : nRef[k] = 0 /\ Len(rings[k]) = 0
    BY DEF Init
  <2> QED
    BY <2>1, <2>2 DEF DebtsAreCovered, Threads
<1>13. NewsFits
  BY <1>3 DEF NewsFits
<1>14. /\ ViewersAreSubscribed /\ LossIsStillToBeHeard /\ ConnectedViewsAreAttached
       /\ AnnouncedHostsFeedTheirViews /\ DeliveryGoesOn
  BY <1>8 DEF ViewersAreSubscribed, LossIsStillToBeHeard, ConnectedViewsAreAttached,
     AnnouncedHostsFeedTheirViews, DeliveryGoesOn
<1> QED
  BY <1>4, <1>5, <1>6, <1>7, <1>9, <1>10, <1>11, <1>12, <1>13, <1>14 DEF IInv

LEMMA StutterStep ==
    ASSUME IInv, UNCHANGED vars
    PROVE  IInv'
<1>1. UNCHANGED <<phase, link, joins, made, nRef, rings, streaming, replaced, crossed, gone,
                  views, wanted, late, call, subscribers, bus, answer, closing>>
  BY DEF vars, hostVars, channelVars, viewVars, busVars
<1>2. TypeOK'
  BY <1>1 DEF IInv, TypeOK
<1>3. CallsFit' /\ ThreadsFit' /\ UnmadeAreEmpty' /\ StreamingMatchesRefs' /\ ViewsFit'
  BY <1>1 DEF IInv, CallsFit, CallFits, Registered, ThreadsFit, UnmadeAreEmpty,
     StreamingMatchesRefs, ViewsFit
<1>4. CrossingsAreKnown' /\ PlaysAreAttached' /\ DebtsAreCovered'
  BY <1>1 DEF IInv, CrossingsAreKnown, PlaysAreAttached, Stops, DebtsAreCovered, Owed
<1>5. NewsFits' /\ ViewersAreSubscribed' /\ LossIsStillToBeHeard'
  BY <1>1 DEF IInv, NewsFits, BusFree, ViewersAreSubscribed, LossIsStillToBeHeard
<1>6. ConnectedViewsAreAttached' /\ AnnouncedHostsFeedTheirViews' /\ DeliveryGoesOn'
  BY <1>1 DEF IInv, ConnectedViewsAreAttached, AnnouncedHostsFeedTheirViews,
     DeliveryGoesOn, BeingStopped, Stops, StillToHear, Registered
<1> QED
  BY <1>2, <1>3, <1>4, <1>5, <1>6 DEF IInv

LEMMA NextIInv == IInv /\ [Next]_vars => IInv'
<1> SUFFICES ASSUME IInv, [Next]_vars PROVE IInv'
  OBVIOUS
<1>1. ASSUME NEW t \in Threads, CallStep(t) PROVE IInv'
  BY <1>1, MakeChannelStep, OpenStreamStep, ReqRealPlayStep, ReqRealStopStep, CloseStreamStep
     DEF CallStep
<1>2. ASSUME NEW cl \in Clients, ClientStep(cl) PROVE IInv'
  BY <1>2, OnReadStep, LoginStep, RealPlayStep, PushViewStep, RealStopStep, EraseViewStep,
     BrokenStep DEF ClientStep
<1>3. ASSUME StopperStep PROVE IInv'
  BY <1>3, StopAllRealStep, ClearViewsStep, UnsubscribeStep DEF StopperStep
<1>4. ASSUME NEW h \in Hosts, HostStep(h) PROVE IInv'
  BY <1>4, RegisterStep, OnAnswerStep, LinkDownStep, DelDeviceStep DEF HostStep
<1>5. ASSUME BusStep PROVE IInv'
  BY <1>5, OnSetSysTimeStep, OnBrokenStep, SendMsgInfoStep, ReConnectStep, DeliveredStep,
     MessageSentStep DEF BusStep
<1>6. CASE UNCHANGED vars
  BY <1>6, StutterStep
<1> QED
  BY <1>1, <1>2, <1>3, <1>4, <1>5, <1>6 DEF Next

\* The inductive invariant holds in every reachable state.
THEOREM Invariance == Spec => []IInv
  BY InitIInv, NextIInv, PTL DEF Spec

\* The reference counts and lists are well typed for any number of clients,
\* hosts and channels; in particular no count goes below zero (ReqRealPlay,
\* ReqRealStop).
THEOREM TypeCorrect == Spec => []TypeOK
<1>1. IInv => TypeOK
  BY DEF IInv
<1> QED
  BY <1>1, Invariance, PTL

\* A device that can be told streams exactly when a reference is counted, in any
\* interleaving of the three threads, but for channels that were made twice
\* (ReqRealPlay, ReqRealStop, MakeChannel).
THEOREM StreamingAlwaysMatchesRefs == Spec => []StreamingMatchesRefs
<1>1. IInv => StreamingMatchesRefs
  BY DEF IInv
<1> QED
  BY <1>1, Invariance, PTL

\* Every reference is backed by a buffer, but for channels that were made twice
\* and views stopped while they were opened again (StartView, StopView,
\* StopAllReal).
THEOREM RefsAlwaysHaveRings == Spec => []RefsHaveRings
<1>1. ASSUME IInv PROVE RefsHaveRings
  <2> SUFFICES ASSUME NEW k \in Streams, k \notin replaced, k \notin crossed
               PROVE  nRef[k] <= Len(rings[k])
    BY DEF RefsHaveRings
  <2>1. nRef[k] + Owed("worker", k) + Owed("bus", k) + Owed("stopper", k) <= Len(rings[k])
    BY <1>1 DEF IInv, DebtsAreCovered
  <2>2. \A t \in Threads : Owed(t, k) \in {0, 1}
    BY DEF Owed
  <2>3. nRef[k] \in Nat /\ Len(rings[k]) \in Nat
    BY <1>1 DEF IInv, TypeOK
  <2> QED
    BY <2>1, <2>2, <2>3 DEF Threads
<1> QED
  BY <1>1, Invariance, PTL

\* A view marked connected is of a registered host whose channel feeds it: it
\* does not outlive the object it was opened on (SendMsgInfo, DelDevice).
THEOREM ConnectedViewsStayAttached == Spec => []ConnectedViewsAreAttached
<1>1. IInv => ConnectedViewsAreAttached
  BY DEF IInv
<1> QED
  BY <1>1, Invariance, PTL

\* Whoever has been told that a host is back has its views of it attached
\* (OnSetSysTime, SendMsgInfo, StartView).
THEOREM AnnouncedHostsAlwaysFeed == Spec => []AnnouncedHostsFeedTheirViews
<1>1. IInv => AnnouncedHostsFeedTheirViews
  BY DEF IInv
<1> QED
  BY <1>1, Invariance, PTL

-------------------------------------------------------------------------------

(***************************************************************************)
(* Crossed locks: DelDevice holds m_devLocker and waits for the bus, while *)
(* the delivery that holds the bus waits for m_devLocker, to look up a     *)
(* host, or for a client whose StopAllReal does.                           *)
(***************************************************************************)

\* A loop over views that has still hosts to look up.
HasToLookUp(t) == call[t].at = "read" /\ call[t].left # {}

LocksAreCrossed ==
    /\ closing # NoHost
    /\ bus.msg = "connected"
    /\ \/ HasToLookUp("bus")
       \/ /\ call["bus"].at = "idle"
          /\ bus.todo # <<>>
          /\ Head(bus.todo) = call["stopper"].cl
          /\ HasToLookUp("stopper")

\* No step resolves it, be it a client that leaves, a link that breaks or a
\* timer: no host comes or goes, nobody logs in or leaves the bus, and no view
\* that is broken is ever restored (DelDevice, OnMessage, SendMsgInfo,
\* StopAllReal).
CrossedLocksStopEverything ==
    [][LocksAreCrossed =>
           /\ LocksAreCrossed'
           /\ UNCHANGED <<phase, subscribers, bus, closing>>
           /\ \A cl \in Clients, k \in Streams :
                  views[cl][k] = "broken" => views'[cl][k] # "connected"]_vars

LEMMA NextLocksAreCrossed ==
    ASSUME IInv, [Next]_vars, LocksAreCrossed
    PROVE  /\ LocksAreCrossed'
           /\ UNCHANGED <<phase, subscribers, bus, closing>>
           /\ \A cl \in Clients, k \in Streams :
                  views[cl][k] = "broken" => views'[cl][k] # "connected"
<1> DEFINE Still == UNCHANGED <<phase, subscribers, bus, closing>>
           Kept  == /\ call'["bus"] = call["bus"]
                    /\ HasToLookUp("stopper") => call'["stopper"] = call["stopper"]
           NoneRestored == \A cl \in Clients, k \in Streams :
                               views[cl][k] = "broken" => views'[cl][k] # "connected"
<1>1. /\ ~ DevMapFree /\ ~ BusFree /\ bus.msg = "connected"
      /\ call["bus"].at \in {"read", "idle"}
      /\ call["bus"].at = "idle" => /\ bus.todo # <<>>
                                   /\ ~ VecFree(Head(bus.todo))
      /\ call["bus"].at = "read" => call["bus"].left # {}
  BY DEF LocksAreCrossed, HasToLookUp, DevMapFree, BusFree, VecFree
<1>2. TypeOK /\ call \in [Threads -> CallType] /\ Threads = {"worker", "bus", "stopper"}
  BY CallTyped DEF IInv, Threads
<1>3. ASSUME NEW t \in Threads, CallStep(t) PROVE Still /\ Kept /\ NoneRestored
  <2>1. t # "bus"
    BY <1>1, <1>3 DEF CallStep, MakeChannel, OpenStream, ReqRealPlay, ReqRealStop, CloseStream
  <2>2. ~ (t = "stopper" /\ HasToLookUp("stopper"))
    BY <1>3 DEF CallStep, MakeChannel, OpenStream, ReqRealPlay, ReqRealStop, CloseStream,
       HasToLookUp
  <2>3. CASE MakeChannel(t)
    BY <1>1, <1>2, <2>1, <2>2, <2>3
       DEF MakeChannel, HasToLookUp, hostVars, viewVars, busVars
  <2>4. CASE OpenStream(t)
    BY <1>2, <2>1, <2>2, <2>4 DEF OpenStream, hostVars, viewVars, busVars
  <2>5. CASE ReqRealPlay(t)
    <3>1. views' = views
      BY <2>1, <2>5 DEF ReqRealPlay
    <3> QED
      BY <1>2, <2>1, <2>2, <2>5, <3>1 DEF ReqRealPlay, hostVars, busVars
  <2>6. CASE ReqRealStop(t)
    BY <1>2, <2>1, <2>2, <2>6 DEF ReqRealStop, hostVars, viewVars, busVars
  <2>7. CASE CloseStream(t)
    BY <1>2, <2>1, <2>2, <2>7 DEF CloseStream, hostVars, viewVars, busVars
  <2> QED
    BY <1>3, <2>3, <2>4, <2>5, <2>6, <2>7 DEF CallStep
<1>4. ASSUME NEW cl \in Clients, ClientStep(cl) PROVE Still /\ Kept /\ NoneRestored
  <2>1. CASE OnRead(cl)
    BY <1>2, <2>1 DEF OnRead, hostVars, viewVars, busVars
  <2>2. ~ Login(cl) /\ ~ (\E k \in Streams : RealPlay(cl, k) \/ RealStop(cl, k))
    BY <1>1 DEF Login, RealPlay, RealStop
  <2>3. CASE PushView(cl)
    <3>1. views[cl][call["worker"].k] = "none" /\ call["worker"].k \in Streams
      BY <2>3, <1>2, CallFacts DEF PushView, IInv, ViewsFit, PlayPlaces
    <3>2. views' = views \/ views' = [views EXCEPT ![cl][call["worker"].k] = "connected"]
      BY <2>3 DEF PushView
    <3>3. views \in [Clients -> [Streams -> {"none", "connected", "broken"}]]
      BY <1>2 DEF TypeOK
    <3>4. ASSUME views' = views PROVE NoneRestored
      BY <3>4
    <3>5. ASSUME views' = [views EXCEPT ![cl][call["worker"].k] = "connected"]
          PROVE  NoneRestored
      <4> DEFINE w == call["worker"].k
      <4>1. /\ w \in Streams
            /\ views[cl][w] = "none"
            /\ views' = [views EXCEPT ![cl][w] = "connected"]
        BY <3>1, <3>5
      <4> HIDE DEF w
      <4>2. ASSUME NEW d \in Clients, NEW k \in Streams, views[d][k] = "broken"
            PROVE  views'[d][k] # "connected"
        BY <3>3, <4>1, <4>2
      <4> QED
        BY <4>2
    <3>6. NoneRestored
      BY <3>2, <3>4, <3>5
    <3> QED
      BY <1>2, <2>3, <3>6 DEF PushView, hostVars, busVars
  <2>4. CASE EraseView(cl)
    <3>1. views' = [views EXCEPT ![cl][call["worker"].k] = "none"]
      BY <2>4 DEF EraseView
    <3>2. NoneRestored
      BY <1>2, <3>1 DEF TypeOK
    <3> QED
      BY <1>2, <2>4, <3>2 DEF EraseView, hostVars, busVars
  <2>5. CASE Broken(cl)
    BY <1>2, <2>5 DEF Broken, ClientMapFree, HasToLookUp, hostVars, viewVars, busVars
  <2> QED
    BY <1>4, <2>1, <2>2, <2>3, <2>4, <2>5 DEF ClientStep
<1>5. ASSUME StopperStep PROVE Still /\ Kept /\ NoneRestored
  <2>1. ~ (\E k \in Streams : StopAllReal(k)) /\ ~ Unsubscribe
    BY <1>1 DEF StopAllReal, Unsubscribe
  <2>2. ClearViews
    BY <1>5, <2>1 DEF StopperStep
  <2>3. NoneRestored
    <3>1. views' = [views EXCEPT ![call["stopper"].cl] = [k \in Streams |-> "none"]]
      BY <2>2 DEF ClearViews
    <3> QED
      BY <1>2, <3>1 DEF TypeOK
  <2> QED
    BY <1>2, <2>2, <2>3 DEF ClearViews, HasToLookUp, hostVars, busVars
<1>6. ASSUME NEW h \in Hosts, HostStep(h) PROVE Still /\ Kept /\ NoneRestored
  BY <1>1, <1>6 DEF HostStep, Register, OnAnswer, LinkDown, DelDevice, viewVars, busVars
<1>7. ASSUME BusStep PROVE FALSE
  BY <1>1, <1>7
     DEF BusStep, OnSetSysTime, OnBroken, SendMsgInfo, ReConnect, Delivered, MessageSent
<1>8. ASSUME UNCHANGED vars PROVE Still /\ Kept /\ NoneRestored
  BY <1>8 DEF vars, hostVars, viewVars, busVars
<1>9. Still /\ Kept /\ NoneRestored
  BY <1>3, <1>4, <1>5, <1>6, <1>7, <1>8 DEF Next
<1>10. LocksAreCrossed'
  BY <1>9 DEF LocksAreCrossed, HasToLookUp
<1> QED
  BY <1>9, <1>10

\* Once the locks are crossed they stay so and no view is restored, for any
\* number of clients, hosts and channels (DelDevice, OnMessage, SendMsgInfo,
\* StopAllReal).
THEOREM CrossedLocksAreForGood == Spec => CrossedLocksStopEverything
<1> DEFINE Standstill ==
               LocksAreCrossed =>
                   /\ LocksAreCrossed'
                   /\ UNCHANGED <<phase, subscribers, bus, closing>>
                   /\ \A cl \in Clients, k \in Streams :
                          views[cl][k] = "broken" => views'[cl][k] # "connected"
<1>1. IInv /\ [Next]_vars => [Standstill]_vars
  BY NextLocksAreCrossed
<1>2. CrossedLocksStopEverything <=> [][Standstill]_vars
  BY DEF CrossedLocksStopEverything
<1> QED
  BY <1>1, <1>2, Invariance, PTL DEF Spec

===============================================================================
