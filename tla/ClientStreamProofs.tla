-------------------------- MODULE ClientStreamProofs --------------------------
(***************************************************************************)
(* Proofs about ClientStream for any number of clients and hosts and any   *)
(* bounds: what the counters and states of a client say about its write    *)
(* loops and about the lists of buffers in the hosts is always so.         *)
(***************************************************************************)
EXTENDS ClientStream, TLAPS, FiniteSetTheorems

\* m_nAlarmRefCnt is the length of m_alarmInfoVec.
AlarmRefsCountEntries ==
    \A c \in Clients : /\ IsFiniteSet(alarms[c])
                       /\ alarmRef[c] = Cardinality(alarms[c])

\* A host that has a client's alarm buffer is in m_devMap, so that a stop finds
\* it, and in the client's m_alarmInfoVec, so that a start does not add it again.
RingsHaveEntries ==
    \A c \in Clients, h \in Hosts :
        alarmRings[h][c] > 0 => h \in registered /\ h \in alarms[c]

\* The inductive invariant.
IInv ==
    /\ TypeOK
    /\ PlaysAreServed
    /\ AlarmRefsCountEntries
    /\ AlarmsAreServed
    /\ RingsHaveEntries
    /\ AlarmsGoWhereTheyAreWanted
    /\ OneRcdLoopWhenBusy

\* A server without clients and hosts satisfies it.
LEMMA InitIInv == Init => IInv
<1> SUFFICES ASSUME Init PROVE IInv
  OBVIOUS
<1> USE ClientStreamAssumption
<1>1. TypeOK
  BY DEF Init, TypeOK
<1>2. AlarmRefsCountEntries
  BY FS_EmptySet DEF Init, AlarmRefsCountEntries
<1>3. PlaysAreServed /\ AlarmsAreServed /\ OneRcdLoopWhenBusy
  BY DEF Init, PlaysAreServed, AlarmsAreServed, OneRcdLoopWhenBusy
<1>4. RingsHaveEntries /\ AlarmsGoWhereTheyAreWanted
  BY DEF Init, RingsHaveEntries, AlarmsGoWhereTheyAreWanted
<1> QED
  BY <1>1, <1>2, <1>3, <1>4 DEF IInv

-------------------------------------------------------------------------------

\* What a start enters is one host or none.
LEMMA OneHostOrNone ==
    ASSUME NEW h, NEW S, S = {} \/ S = {h}
    PROVE  IsFiniteSet(S) /\ Cardinality(S) \in Nat /\ (Cardinality(S) = 0 <=> S = {})
<1>1. CASE S = {}
  BY <1>1, FS_EmptySet
<1>2. CASE S = {h}
  <2>1. IsFiniteSet({h}) /\ Cardinality({h}) = 1
    BY FS_Singleton
  <2> QED
    BY <1>2, <2>1
<1> QED
  BY <1>1, <1>2

\* MakeRcdData pops at most one completion and leaves as many loops as it found.
LEMMA MakeRcdDataFacts ==
    ASSUME TypeOK, NEW c \in Clients, NEW wanted \in Hosts \cup {NoHost},
           NEW lists \in [Hosts -> SUBSET Clients], NEW others \in Nat,
           MakeRcdData(c, wanted, lists, others)
    PROVE  /\ rcdBuffer' \in [Clients -> Seq(Hosts)]
           /\ rcdWanted' \in [Clients -> Hosts \cup {NoHost}]
           /\ rcdRings' \in [Hosts -> SUBSET Clients]
           /\ rcdLoops' \in [Clients -> Nat]
           /\ keepLoops' \in [Clients -> Nat]
           /\ rcdLoops'[c] + keepLoops'[c] = others + keepLoops[c] + 1
           /\ \A d \in Clients \ {c} : /\ rcdLoops'[d] = rcdLoops[d]
                                       /\ keepLoops'[d] = keepLoops[d]
<1> DEFINE b == rcdBuffer[c]
           done == IF b = <<>> THEN NoHost ELSE Head(b)
           ends == done \in registered
<1> USE DEF TypeOK
<1>1. b \in Seq(Hosts)
  OBVIOUS
<1>2. (IF b = <<>> THEN b ELSE Tail(b)) \in Seq(Hosts)
  BY <1>1
<1>3. rcdBuffer' = [rcdBuffer EXCEPT ![c] = IF b = <<>> THEN b ELSE Tail(b)]
  BY DEF MakeRcdData
<1>4. rcdBuffer' \in [Clients -> Seq(Hosts)]
  <2> HIDE DEF b
  <2> QED
    BY <1>2, <1>3
<1>5. rcdWanted' \in [Clients -> Hosts \cup {NoHost}]
  <2>1. rcdWanted' = [rcdWanted EXCEPT ![c] = IF done = wanted THEN NoHost ELSE wanted]
    BY DEF MakeRcdData
  <2> HIDE DEF done
  <2> QED
    BY <2>1
<1>6. rcdRings' \in [Hosts -> SUBSET Clients]
  <2>1. rcdRings' = [h \in Hosts |-> IF ends /\ h = done THEN lists[h] \ {c} ELSE lists[h]]
    BY DEF MakeRcdData
  <2> HIDE DEF ends, done
  <2> QED
    BY <2>1
<1>7. /\ rcdLoops' = [rcdLoops EXCEPT ![c] = IF ends THEN others ELSE others + 1]
      /\ keepLoops' = [keepLoops EXCEPT ![c] = IF ends THEN @ + 1 ELSE @]
  BY DEF MakeRcdData
<1>8. rcdLoops \in [Clients -> Nat] /\ keepLoops \in [Clients -> Nat]
  OBVIOUS
<1>9. CASE ends
  <2> HIDE DEF ends, TypeOK
  <2> QED
    BY <1>4, <1>5, <1>6, <1>7, <1>8, <1>9
<1>10. CASE ~ ends
  <2> HIDE DEF ends, TypeOK
  <2>1. rcdLoops' = [rcdLoops EXCEPT ![c] = others + 1] /\ keepLoops' = keepLoops
    BY <1>7, <1>8, <1>10
  <2>2. rcdLoops' \in [Clients -> Nat] /\ keepLoops' \in [Clients -> Nat]
    BY <1>8, <2>1
  <2>3. rcdLoops'[c] = others + 1 /\ keepLoops'[c] = keepLoops[c] /\ keepLoops[c] \in Nat
    BY <1>8, <2>1
  <2>4. \A d \in Clients \ {c} : rcdLoops'[d] = rcdLoops[d] /\ keepLoops'[d] = keepLoops[d]
    BY <1>8, <2>1
  <2>5. rcdLoops'[c] + keepLoops'[c] = others + keepLoops[c] + 1
    <3>1. \A k \in Nat : others + 1 + k = others + k + 1
      OBVIOUS
    <3> QED
      BY <2>3, <3>1
  <2> QED
    BY <1>4, <1>5, <1>6, <2>2, <2>4, <2>5
<1> QED
  BY <1>9, <1>10

\* GetRcdInfo and RcdWritten call it on proper arguments.
LEMMA GetRcdInfoFacts ==
    ASSUME TypeOK, NEW c \in Clients, NEW h \in Hosts, GetRcdInfo(c, h)
    PROVE  \E wanted \in Hosts \cup {NoHost}, lists \in [Hosts -> SUBSET Clients] :
               MakeRcdData(c, wanted, lists, rcdLoops[c])
<1> DEFINE wanted == IF h \in registered THEN h ELSE NoHost
           lists == [rcdRings EXCEPT ![h] = IF h \in registered THEN {c} ELSE @]
<1>1. wanted \in Hosts \cup {NoHost} /\ lists \in [Hosts -> SUBSET Clients]
  BY DEF TypeOK
<1>2. MakeRcdData(c, wanted, lists, rcdLoops[c])
  BY Zenon DEF GetRcdInfo
<1> HIDE DEF wanted, lists
<1> QED
  BY <1>1, <1>2, Zenon

LEMMA RcdWrittenFacts ==
    ASSUME TypeOK, NEW c \in Clients, RcdWritten(c)
    PROVE  /\ rcdLoops[c] - 1 \in Nat
           /\ rcdWanted[c] \in Hosts \cup {NoHost}
           /\ rcdRings \in [Hosts -> SUBSET Clients]
           /\ MakeRcdData(c, rcdWanted[c], rcdRings, rcdLoops[c] - 1)
BY DEF TypeOK, RcdWritten

-------------------------------------------------------------------------------

\* Every step keeps the variables within their types and bounds.
LEMMA NextTypeOK ==
    ASSUME TypeOK, [Next]_vars
    PROVE  TypeOK'
<1> USE ClientStreamAssumption DEF TypeOK
<1>1. ASSUME NEW c \in Clients, Connect(c) PROVE TypeOK'
  BY <1>1 DEF Connect, dataVars, alarmVars, rcdVars, loopVars
<1>2. ASSUME NEW c \in Clients, Release(c) PROVE TypeOK'
  <2>1. alarmRings' \in [Hosts -> [Clients -> Nat]]
    BY <1>2 DEF Release, Detach
  <2>2. rcdBuffer' \in [Clients -> Seq(Hosts)]
    BY <1>2 DEF Release
  <2> QED
    BY <1>2, <2>1, <2>2 DEF Release
<1>3. ASSUME NEW c \in Clients, Play(c) PROVE TypeOK'
  <2>1. nRef' \in [Clients -> 0 .. MaxPlays]
    BY <1>3 DEF Play
  <2>2. dataLoops' \in [Clients -> 0 .. MaxLoops]
    BY <1>3 DEF Play
  <2> QED
    BY <1>3, <2>1, <2>2 DEF Play, alarmVars, rcdVars, loopVars
<1>4. ASSUME NEW c \in Clients, Stop(c) PROVE TypeOK'
  <2>1. (IF nRef[c] > 0 THEN nRef[c] - 1 ELSE nRef[c]) \in 0 .. MaxPlays
    <3>1. nRef[c] \in 0 .. MaxPlays
      OBVIOUS
    <3> HIDE DEF TypeOK
    <3> QED
      BY <3>1
  <2>2. nRef' \in [Clients -> 0 .. MaxPlays]
    <3>1. nRef' = [nRef EXCEPT ![c] = IF nRef[c] > 0 THEN nRef[c] - 1 ELSE nRef[c]]
      BY <1>4 DEF Stop
    <3> QED
      BY <2>1, <3>1
  <2> QED
    BY <1>4, <2>2 DEF Stop, alarmVars, rcdVars, loopVars
<1>5. ASSUME NEW c \in Clients, DataWritten(c) PROVE TypeOK'
  <2>1. dataLoops' \in [Clients -> 0 .. MaxLoops]
    <3>1. dataLoops[c] - 1 \in 0 .. MaxLoops
      BY <1>5 DEF DataWritten
    <3>2. dataLoops' = [dataLoops EXCEPT ![c] = dataLoops[c] - 1]
      BY <1>5 DEF DataWritten
    <3> QED
      BY <3>1, <3>2
  <2>2. UNCHANGED <<state, registered, nRef, alarmVars, rcdVars>>
    BY <1>5 DEF DataWritten
  <2> QED
    BY <2>1, <2>2 DEF alarmVars, rcdVars, loopVars
<1>6. ASSUME NEW c \in Clients, AlarmWritten(c) PROVE TypeOK'
  <2>1. CASE alarmRef[c] = 0
    <3>1. alarmLoops[c] - 1 \in 0 .. MaxLoops
      BY <1>6 DEF AlarmWritten
    <3>2. alarmLoops' \in [Clients -> 0 .. MaxLoops]
      BY <1>6, <2>1, <3>1 DEF AlarmWritten
    <3>3. UNCHANGED <<state, registered, dataVars, alarms, alarmRef, alarmRings, alarmsWanted, rcdVars>>
      BY <1>6 DEF AlarmWritten
    <3>4. UNCHANGED alarmBusy
      BY <1>6, <2>1 DEF AlarmWritten
    <3> QED
      BY <3>2, <3>3, <3>4 DEF dataVars, rcdVars, loopVars
  <2>2. CASE alarmRef[c] # 0
    BY <1>6, <2>2 DEF AlarmWritten, dataVars, rcdVars, loopVars
  <2> QED
    BY <2>1, <2>2
<1>7. ASSUME NEW c \in Clients, RcdWritten(c) PROVE TypeOK'
  <2>1. /\ rcdBuffer' \in [Clients -> Seq(Hosts)]
        /\ rcdWanted' \in [Clients -> Hosts \cup {NoHost}]
        /\ rcdRings' \in [Hosts -> SUBSET Clients]
        /\ rcdLoops' \in [Clients -> Nat]
        /\ keepLoops' \in [Clients -> Nat]
    <3> HIDE DEF TypeOK
    <3> QED
      BY <1>7, RcdWrittenFacts, MakeRcdDataFacts
  <2>2. UNCHANGED <<state, registered, dataVars, alarmVars, rcdBusy, asked, requests>>
    BY <1>7 DEF RcdWritten
  <2> QED
    BY <2>1, <2>2 DEF dataVars, alarmVars
<1>8. ASSUME NEW c \in Clients, KeepWritten(c) PROVE TypeOK'
  <2>1. keepLoops' \in [Clients -> Nat]
    BY <1>8 DEF KeepWritten
  <2>2. rcdBusy' \in [Clients -> BOOLEAN]
    BY <1>8 DEF KeepWritten
  <2>3. UNCHANGED <<state, registered, dataVars, alarmVars, rcdLoops, rcdBuffer, rcdRings, rcdWanted,
                   asked, requests>>
    BY <1>8 DEF KeepWritten
  <2> QED
    BY <2>1, <2>2, <2>3 DEF dataVars, alarmVars
<1>9. ASSUME NEW c \in Clients, NEW h \in Hosts, StartAlarm(c, h) PROVE TypeOK'
  <2> DEFINE new == IF alarmBusy[c] THEN {} ELSE {h} \cap (registered \ alarms[c])
             loops == IF ~ alarmBusy[c] /\ alarmRef[c] + Cardinality(new) > 0 THEN 1 ELSE 0
  <2>1. Cardinality(new) \in Nat
    <3>1. new = {} \/ new = {h}
      OBVIOUS
    <3> QED
      BY <3>1, OneHostOrNone
  <2>2. loops \in 0 .. 1 /\ alarmLoops[c] + loops <= MaxLoops
    BY <1>9 DEF StartAlarm
  <2>3. alarmRef' \in [Clients -> Nat]
    <3>1. alarmRef' = [alarmRef EXCEPT ![c] = @ + Cardinality(new)]
      BY <1>9 DEF StartAlarm
    <3> HIDE DEF new
    <3> QED
      BY <2>1, <3>1
  <2>4. alarmLoops' \in [Clients -> 0 .. MaxLoops]
    <3>1. alarmLoops' = [alarmLoops EXCEPT ![c] = @ + loops]
      BY <1>9 DEF StartAlarm
    <3> HIDE DEF loops
    <3> QED
      BY <2>2, <3>1
  <2>5. alarmRings' \in [Hosts -> [Clients -> Nat]]
    BY <1>9 DEF StartAlarm, Attach
  <2>6. alarms' \in [Clients -> SUBSET Hosts] /\ alarmsWanted' \in [Clients -> SUBSET Hosts]
    BY <1>9 DEF StartAlarm
  <2> QED
    BY <1>9, <2>3, <2>4, <2>5, <2>6 DEF StartAlarm, dataVars, rcdVars, loopVars
<1>10. ASSUME NEW c \in Clients, NEW h \in Hosts, StopAlarm(c, h) PROVE TypeOK'
  <2>1. alarmRings' \in [Hosts -> [Clients -> Nat]]
    BY <1>10 DEF StopAlarm, Detach
  <2>2. alarmRef' \in [Clients -> Nat]
    BY <1>10 DEF StopAlarm
  <2> QED
    BY <1>10, <2>1, <2>2 DEF StopAlarm, dataVars, rcdVars, loopVars
<1>11. ASSUME NEW c \in Clients, NEW h \in Hosts, GetRcdInfo(c, h) PROVE TypeOK'
  <2>1. rcdLoops[c] \in Nat
    OBVIOUS
  <2>2. /\ rcdBuffer' \in [Clients -> Seq(Hosts)]
        /\ rcdWanted' \in [Clients -> Hosts \cup {NoHost}]
        /\ rcdRings' \in [Hosts -> SUBSET Clients]
        /\ rcdLoops' \in [Clients -> Nat]
        /\ keepLoops' \in [Clients -> Nat]
    BY <1>11, <2>1, GetRcdInfoFacts, MakeRcdDataFacts
  <2>3. /\ requests' \in 0 .. MaxRequests
        /\ rcdBusy' \in [Clients -> BOOLEAN]
        /\ alarmBusy' \in [Clients -> BOOLEAN]
        /\ asked' \in [Hosts -> Nat]
    BY <1>11 DEF GetRcdInfo
  <2> QED
    BY <1>11, <2>2, <2>3 DEF GetRcdInfo, dataVars
<1>12. ASSUME NEW h \in Hosts, AddDevice(h) PROVE TypeOK'
  BY <1>12 DEF AddDevice, dataVars, alarmVars, rcdVars, loopVars
<1>13. ASSUME NEW h \in Hosts, DelDevice(h) PROVE TypeOK'
  <2>1. alarmsWanted' \in [Clients -> SUBSET Hosts]
    BY <1>13 DEF DelDevice
  <2>2. rcdWanted' \in [Clients -> Hosts \cup {NoHost}]
    BY <1>13 DEF DelDevice
  <2> QED
    BY <1>13, <2>1, <2>2 DEF DelDevice, dataVars, loopVars
<1>14. ASSUME NEW h \in Hosts, OnRcdComplete(h) PROVE TypeOK'
  <2>1. rcdBuffer' \in [Clients -> Seq(Hosts)]
    BY <1>14 DEF OnRcdComplete
  <2> QED
    BY <1>14, <2>1 DEF OnRcdComplete, dataVars, alarmVars, loopVars
<1>15. ASSUME UNCHANGED vars PROVE TypeOK'
  BY <1>15 DEF vars, dataVars, alarmVars, rcdVars, loopVars
<1> QED
  BY <1>1, <1>2, <1>3, <1>4, <1>5, <1>6, <1>7, <1>8, <1>9, <1>10, <1>11, <1>12,
     <1>13, <1>14, <1>15 DEF Next, ClientStep, HostStep

-------------------------------------------------------------------------------

\* Which steps change what: the counter and loops of video; entries, counter
\* and loops of alarms; the lists of alarm buffers and what they are compared
\* with; the state and loops of record info.
DataSteps(c) == Play(c) \/ Stop(c) \/ DataWritten(c) \/ Release(c)
AlarmSteps(c) ==
    AlarmWritten(c) \/ Release(c) \/ \E h \in Hosts : StartAlarm(c, h) \/ StopAlarm(c, h)
ClientRingSteps(c) ==
    Connect(c) \/ Release(c) \/ \E h \in Hosts : StartAlarm(c, h) \/ StopAlarm(c, h)
RcdSteps(c) ==
    RcdWritten(c) \/ KeepWritten(c) \/ Release(c) \/ \E h \in Hosts : GetRcdInfo(c, h)

LEMMA StepsByPart ==
    ASSUME [Next]_vars
    PROVE  /\ \/ UNCHANGED dataVars
              \/ \E c \in Clients : DataSteps(c)
           /\ \/ UNCHANGED <<alarms, alarmRef, alarmLoops>>
              \/ \E c \in Clients : AlarmSteps(c)
           /\ \/ UNCHANGED <<state, registered, alarms, alarmRings, alarmsWanted>>
              \/ \E c \in Clients : ClientRingSteps(c)
              \/ \E h \in Hosts : AddDevice(h) \/ DelDevice(h)
           /\ \/ UNCHANGED loopVars
              \/ \E c \in Clients : RcdSteps(c)
<1> DEFINE Goal ==
           /\ \/ UNCHANGED dataVars
              \/ \E c \in Clients : DataSteps(c)
           /\ \/ UNCHANGED <<alarms, alarmRef, alarmLoops>>
              \/ \E c \in Clients : AlarmSteps(c)
           /\ \/ UNCHANGED <<state, registered, alarms, alarmRings, alarmsWanted>>
              \/ \E c \in Clients : ClientRingSteps(c)
              \/ \E h \in Hosts : AddDevice(h) \/ DelDevice(h)
           /\ \/ UNCHANGED loopVars
              \/ \E c \in Clients : RcdSteps(c)
<1> USE DEF DataSteps, AlarmSteps, ClientRingSteps, RcdSteps, alarmVars, rcdVars
<1>1. ASSUME NEW c \in Clients, Connect(c) PROVE Goal
  BY <1>1 DEF Connect
<1>2. ASSUME NEW c \in Clients, Release(c) PROVE Goal
  BY <1>2 DEF Release
<1>3. ASSUME NEW c \in Clients, Play(c) PROVE Goal
  BY <1>3 DEF Play
<1>4. ASSUME NEW c \in Clients, Stop(c) PROVE Goal
  BY <1>4 DEF Stop
<1>5. ASSUME NEW c \in Clients, DataWritten(c) PROVE Goal
  BY <1>5 DEF DataWritten
<1>6. ASSUME NEW c \in Clients, AlarmWritten(c) PROVE Goal
  BY <1>6 DEF AlarmWritten
<1>7. ASSUME NEW c \in Clients, RcdWritten(c) PROVE Goal
  BY <1>7 DEF RcdWritten
<1>8. ASSUME NEW c \in Clients, KeepWritten(c) PROVE Goal
  BY <1>8 DEF KeepWritten
<1>9. ASSUME NEW c \in Clients, NEW h \in Hosts, StartAlarm(c, h) PROVE Goal
  BY <1>9 DEF StartAlarm
<1>10. ASSUME NEW c \in Clients, NEW h \in Hosts, StopAlarm(c, h) PROVE Goal
  BY <1>10 DEF StopAlarm
<1>11. ASSUME NEW c \in Clients, NEW h \in Hosts, GetRcdInfo(c, h) PROVE Goal
  BY <1>11 DEF GetRcdInfo
<1>12. ASSUME NEW h \in Hosts, AddDevice(h) PROVE Goal
  BY <1>12 DEF AddDevice
<1>13. ASSUME NEW h \in Hosts, DelDevice(h) PROVE Goal
  BY <1>13 DEF DelDevice
<1>14. ASSUME NEW h \in Hosts, OnRcdComplete(h) PROVE Goal
  BY <1>14 DEF OnRcdComplete
<1>15. ASSUME UNCHANGED vars PROVE Goal
  BY <1>15 DEF vars
<1> HIDE DEF Goal
<1>16. Goal
  BY <1>1, <1>2, <1>3, <1>4, <1>5, <1>6, <1>7, <1>8, <1>9, <1>10, <1>11, <1>12, <1>13, <1>14, <1>15
     DEF Next, ClientStep, HostStep
<1> QED
  BY <1>16 DEF Goal

\* A play that finds no other starts a loop; a loop ends only without plays.
LEMMA NextPlaysAreServed ==
    ASSUME TypeOK, PlaysAreServed, [Next]_vars
    PROVE  PlaysAreServed'
<1> USE DEF PlaysAreServed
<1>0. nRef \in [Clients -> 0 .. MaxPlays] /\ dataLoops \in [Clients -> 0 .. MaxLoops]
  BY DEF TypeOK
<1>1. ASSUME UNCHANGED dataVars PROVE PlaysAreServed'
  BY <1>1 DEF dataVars
<1>2. ASSUME NEW c \in Clients, Play(c) PROVE PlaysAreServed'
  BY <1>0, <1>2, ClientStreamAssumption DEF Play
<1>3. ASSUME NEW c \in Clients, Stop(c) PROVE PlaysAreServed'
  BY <1>0, <1>3, ClientStreamAssumption DEF Stop
<1>4. ASSUME NEW c \in Clients, DataWritten(c) PROVE PlaysAreServed'
  BY <1>0, <1>4, ClientStreamAssumption DEF DataWritten
<1>5. ASSUME NEW c \in Clients, Release(c) PROVE PlaysAreServed'
  BY <1>0, <1>5 DEF Release
<1> QED
  BY <1>1, <1>2, <1>3, <1>4, <1>5, StepsByPart DEF DataSteps

\* What a start adds to the entries of a client and to their count.
LEMMA StartAlarmFacts ==
    ASSUME TypeOK, AlarmRefsCountEntries, NEW c \in Clients, NEW h \in Hosts,
           StartAlarm(c, h)
    PROVE  \E new \in SUBSET ({h} \cap (registered \ alarms[c])) :
               /\ alarms' = [alarms EXCEPT ![c] = @ \cup new]
               /\ IsFiniteSet(alarms'[c])
               /\ alarmRef' = [alarmRef EXCEPT ![c] = Cardinality(alarms'[c])]
               /\ alarms'[c] # {} => alarmLoops'[c] > alarmLoops[c] \/ alarmBusy[c]
               /\ alarmBusy[c] => new = {}
               /\ alarmLoops'[c] >= alarmLoops[c]
               /\ \A d \in Clients \ {c} : alarmLoops'[d] = alarmLoops[d]
               /\ Attach(c, new)
<1> DEFINE new == IF alarmBusy[c] THEN {} ELSE {h} \cap (registered \ alarms[c])
           loops == IF ~ alarmBusy[c] /\ alarmRef[c] + Cardinality(new) > 0 THEN 1 ELSE 0
<1>1. /\ Attach(c, new)
      /\ alarms' = [alarms EXCEPT ![c] = @ \cup new]
      /\ alarmRef' = [alarmRef EXCEPT ![c] = @ + Cardinality(new)]
      /\ alarmLoops' = [alarmLoops EXCEPT ![c] = @ + loops]
  BY DEF StartAlarm
<1>2. /\ new \in SUBSET ({h} \cap (registered \ alarms[c]))
      /\ alarmBusy[c] => new = {}
      /\ new = {} \/ (new = {h} /\ h \notin alarms[c])
  OBVIOUS
<1>3. /\ alarms \in [Clients -> SUBSET Hosts]
      /\ alarmRef \in [Clients -> Nat]
      /\ alarmLoops \in [Clients -> 0 .. MaxLoops]
      /\ IsFiniteSet(alarms[c]) /\ alarmRef[c] = Cardinality(alarms[c])
  BY DEF TypeOK, AlarmRefsCountEntries
<1>4. Cardinality(new) \in Nat /\ (Cardinality(new) = 0 <=> new = {})
  <2>1. new = {} \/ new = {h}
    BY <1>2
  <2> HIDE DEF new
  <2> QED
    BY <2>1, OneHostOrNone
<1>5. loops \in {0, 1} /\ (loops = 0 => alarmBusy[c] \/ alarmRef[c] + Cardinality(new) = 0)
  BY <1>3, <1>4
<1> HIDE DEF new, loops
<1>6. alarms'[c] = alarms[c] \cup new
  BY <1>1, <1>3
<1>7. IsFiniteSet(alarms'[c]) /\ Cardinality(alarms'[c]) = alarmRef[c] + Cardinality(new)
  <2>1. CASE new = {}
    BY <1>3, <1>4, <1>6, <2>1
  <2>2. CASE new = {h} /\ h \notin alarms[c]
    <3>1. Cardinality(new) = 1
      BY <2>2, FS_Singleton
    <3>2. /\ IsFiniteSet(alarms[c] \cup {h})
          /\ Cardinality(alarms[c] \cup {h}) = Cardinality(alarms[c]) + 1
      BY <1>3, <2>2, FS_AddElement
    <3> QED
      BY <1>3, <1>6, <2>2, <3>1, <3>2
  <2> QED
    BY <1>2, <2>1, <2>2
<1>8. alarmRef' = [alarmRef EXCEPT ![c] = Cardinality(alarms'[c])]
  BY <1>1, <1>3, <1>7
<1>9. alarms'[c] # {} => loops = 1 \/ alarmBusy[c]
  <2>1. alarms'[c] # {} => Cardinality(alarms'[c]) # 0
    BY <1>7, FS_EmptySet
  <2> QED
    BY <1>5, <1>7, <2>1
<1>10. alarmLoops'[c] = alarmLoops[c] + loops /\ alarmLoops[c] \in Nat
  BY <1>1, <1>3, ClientStreamAssumption
<1>11. \A d \in Clients \ {c} : alarmLoops'[d] = alarmLoops[d]
  BY <1>1, <1>3
<1>12. /\ alarms'[c] # {} => alarmLoops'[c] > alarmLoops[c] \/ alarmBusy[c]
       /\ alarmLoops'[c] >= alarmLoops[c]
  BY <1>5, <1>9, <1>10
<1> QED
  BY <1>1, <1>2, <1>7, <1>8, <1>11, <1>12

\* The counter follows the entries, and who has an entry has a loop: a start in
\* xl_init_state starts one whenever it leaves an entry behind.
LEMMA NextAlarmsAreServed ==
    ASSUME TypeOK, AlarmRefsCountEntries, AlarmsAreServed, [Next]_vars
    PROVE  AlarmRefsCountEntries' /\ AlarmsAreServed'
<1> USE DEF AlarmRefsCountEntries, AlarmsAreServed
<1>0. /\ alarms \in [Clients -> SUBSET Hosts]
      /\ alarmRef \in [Clients -> Nat]
      /\ alarmLoops \in [Clients -> 0 .. MaxLoops]
      /\ MaxLoops \in Nat
  BY ClientStreamAssumption DEF TypeOK
<1>1. ASSUME UNCHANGED <<alarms, alarmRef, alarmLoops>>
      PROVE  AlarmRefsCountEntries' /\ AlarmsAreServed'
  BY <1>1
<1>2. ASSUME NEW c \in Clients, AlarmWritten(c)
      PROVE  AlarmRefsCountEntries' /\ AlarmsAreServed'
  <2>1. alarms' = alarms /\ alarmRef' = alarmRef
    BY <1>2 DEF AlarmWritten
  <2>2. CASE alarmRef[c] = 0
    <3>1. alarms[c] = {}
      BY <2>2, FS_EmptySet
    <3>2. \A d \in Clients : d # c => alarmLoops'[d] = alarmLoops[d]
      BY <1>0, <1>2, <2>2 DEF AlarmWritten
    <3> QED
      BY <2>1, <3>1, <3>2
  <2>3. CASE alarmRef[c] # 0
    BY <1>2, <2>1, <2>3 DEF AlarmWritten
  <2> QED
    BY <2>2, <2>3
<1>3. ASSUME NEW c \in Clients, Release(c)
      PROVE  AlarmRefsCountEntries' /\ AlarmsAreServed'
  BY <1>0, <1>3, FS_EmptySet DEF Release
<1>4. ASSUME NEW c \in Clients, NEW h \in Hosts, StartAlarm(c, h)
      PROVE  AlarmRefsCountEntries' /\ AlarmsAreServed'
  <2>1. PICK new \in SUBSET ({h} \cap (registered \ alarms[c])) :
               /\ alarms' = [alarms EXCEPT ![c] = @ \cup new]
               /\ IsFiniteSet(alarms'[c])
               /\ alarmRef' = [alarmRef EXCEPT ![c] = Cardinality(alarms'[c])]
               /\ alarms'[c] # {} => alarmLoops'[c] > alarmLoops[c] \/ alarmBusy[c]
               /\ alarmBusy[c] => new = {}
               /\ alarmLoops'[c] >= alarmLoops[c]
               /\ \A d \in Clients \ {c} : alarmLoops'[d] = alarmLoops[d]
    BY <1>4, StartAlarmFacts
  <2>2. AlarmRefsCountEntries'
    BY <1>0, <2>1
  <2>3. alarms'[c] # {} => alarmLoops'[c] > 0
    <3>1. alarmLoops[c] \in Nat /\ alarmLoops'[c] \in Nat
      <4>1. TypeOK'
        BY NextTypeOK
      <4> QED
        BY <1>0, <4>1 DEF TypeOK
    <3>2. CASE alarmBusy[c]
      <4>1. alarms'[c] = alarms[c]
        BY <1>0, <2>1, <3>2
      <4>2. alarms[c] # {} => alarmLoops[c] > 0
        OBVIOUS
      <4>3. alarmLoops'[c] >= alarmLoops[c]
        BY <2>1
      <4> HIDE DEF AlarmsAreServed, AlarmRefsCountEntries
      <4> QED
        BY <3>1, <4>1, <4>2, <4>3
    <3>3. CASE ~ alarmBusy[c]
      BY <2>1, <3>1, <3>3
    <3> QED
      BY <3>2, <3>3
  <2>4. \A d \in Clients \ {c} : alarms'[d] = alarms[d] /\ alarmLoops'[d] = alarmLoops[d]
    BY <1>0, <2>1
  <2> QED
    BY <2>2, <2>3, <2>4
<1>5. ASSUME NEW c \in Clients, NEW h \in Hosts, StopAlarm(c, h)
      PROVE  AlarmRefsCountEntries' /\ AlarmsAreServed'
  <2>1. /\ alarms' = [alarms EXCEPT ![c] = @ \ ({h} \cap alarms[c])]
        /\ alarmRef' = [alarmRef EXCEPT
               ![c] = IF {h} \cap alarms[c] # {} /\ @ > 0 THEN @ - 1 ELSE @]
        /\ alarmLoops' = alarmLoops
    BY <1>5 DEF StopAlarm
  <2>2. CASE h \notin alarms[c]
    <3>1. alarms' = alarms /\ alarmRef' = alarmRef
      BY <1>0, <2>1, <2>2
    <3> QED
      BY <2>1, <3>1
  <2>3. CASE h \in alarms[c]
    <3>1. alarms'[c] = alarms[c] \ {h}
      BY <1>0, <2>1
    <3>2. /\ IsFiniteSet(alarms[c] \ {h})
          /\ Cardinality(alarms[c] \ {h}) = Cardinality(alarms[c]) - 1
      BY <2>3, FS_RemoveElement
    <3>3. Cardinality(alarms[c]) # 0
      BY <2>3, FS_EmptySet
    <3>4. alarmRef'[c] = alarmRef[c] - 1
      BY <1>0, <2>1, <2>3, <3>3
    <3>5. \A d \in Clients \ {c} : alarms'[d] = alarms[d] /\ alarmRef'[d] = alarmRef[d]
      BY <1>0, <2>1
    <3>6. AlarmRefsCountEntries'
      BY <3>1, <3>2, <3>4, <3>5
    <3>7. AlarmsAreServed'
      BY <2>1, <2>3, <3>5
    <3> QED
      BY <3>6, <3>7
  <2> QED
    BY <2>2, <2>3
<1> QED
  BY <1>1, <1>2, <1>3, <1>4, <1>5, StepsByPart DEF AlarmSteps

\* A list of alarm buffers gains only what a start enters, and loses what a stop
\* or a release takes out of the entries: the host is in m_devMap then, because
\* the deletion of a host empties its list.
LEMMA NextRings ==
    ASSUME TypeOK, AlarmRefsCountEntries, RingsHaveEntries, AlarmsGoWhereTheyAreWanted,
           [Next]_vars
    PROVE  RingsHaveEntries' /\ AlarmsGoWhereTheyAreWanted'
<1> DEFINE RingsFit ==
        \A c \in Clients, h \in Hosts :
            /\ alarmRings[h][c] \in {0, 1}
            /\ alarmRings[h][c] = 1 => /\ h \in registered \cap alarms[c]
                                       /\ state[c] = "on" /\ h \in alarmsWanted[c]
<1>1. RingsFit
  BY DEF RingsHaveEntries, AlarmsGoWhereTheyAreWanted, TypeOK
<1>2. RingsFit' => RingsHaveEntries' /\ AlarmsGoWhereTheyAreWanted'
  BY DEF RingsHaveEntries, AlarmsGoWhereTheyAreWanted
<1>3. /\ state \in [Clients -> {"new", "on", "gone"}]
      /\ registered \in SUBSET Hosts
      /\ alarms \in [Clients -> SUBSET Hosts]
      /\ alarmRings \in [Hosts -> [Clients -> Nat]]
      /\ alarmsWanted \in [Clients -> SUBSET Hosts]
  BY DEF TypeOK
<1>4. ASSUME UNCHANGED <<state, registered, alarms, alarmRings, alarmsWanted>>
      PROVE  RingsFit'
  BY <1>1, <1>4
<1>5. ASSUME NEW c \in Clients, Connect(c) PROVE RingsFit'
  BY <1>1, <1>3, <1>5 DEF Connect, alarmVars
<1>6. ASSUME NEW c \in Clients, Release(c) PROVE RingsFit'
  <2>1. \A h \in Hosts : alarmRings'[h][c] = 0
    BY <1>1, <1>3, <1>6 DEF Release, Detach
  <2>2. \A h \in Hosts, d \in Clients \ {c} :
            /\ alarmRings'[h][d] = alarmRings[h][d]
            /\ alarms'[d] = alarms[d] /\ state'[d] = state[d]
            /\ alarmsWanted'[d] = alarmsWanted[d]
    BY <1>3, <1>6 DEF Release, Detach
  <2>3. registered' = registered
    BY <1>6 DEF Release
  <2> QED
    BY <1>1, <2>1, <2>2, <2>3
<1>7. ASSUME NEW c \in Clients, NEW h \in Hosts, StartAlarm(c, h) PROVE RingsFit'
  <2>1. PICK new \in SUBSET ({h} \cap (registered \ alarms[c])) :
            alarms' = [alarms EXCEPT ![c] = @ \cup new] /\ Attach(c, new)
    BY <1>7, StartAlarmFacts
  <2>2. /\ state[c] = "on" /\ state' = state /\ registered' = registered
        /\ alarmsWanted' = [alarmsWanted EXCEPT ![c] = @ \cup ({h} \cap registered)]
    BY <1>7 DEF StartAlarm
  <2>3. \A g \in Hosts \ new : alarmRings'[g][c] = alarmRings[g][c]
    BY <1>3, <2>1 DEF Attach
  <2>4. \A g \in new : alarmRings[g][c] = 0 /\ alarmRings'[g][c] = 1
    <3>1. \A g \in new : g \in Hosts /\ alarmRings[g][c] = 0
      BY <1>1, <2>1
    <3>2. \A g \in new : alarmRings'[g][c] = alarmRings[g][c] + 1
      BY <1>3, <2>1, <3>1 DEF Attach
    <3> QED
      BY <3>1, <3>2
  <2>5. \A g \in Hosts, d \in Clients \ {c} :
            /\ alarmRings'[g][d] = alarmRings[g][d]
            /\ alarms'[d] = alarms[d] /\ alarmsWanted'[d] = alarmsWanted[d]
    BY <1>3, <2>1, <2>2 DEF Attach
  <2>6. /\ alarms'[c] = alarms[c] \cup new
        /\ alarmsWanted'[c] = alarmsWanted[c] \cup ({h} \cap registered)
        /\ new \subseteq {h} \cap registered
    BY <1>3, <2>1, <2>2
  <2> QED
    BY <1>1, <2>2, <2>3, <2>4, <2>5, <2>6
<1>8. ASSUME NEW c \in Clients, NEW h \in Hosts, StopAlarm(c, h) PROVE RingsFit'
  <2>1. /\ state' = state /\ registered' = registered
        /\ alarms' = [alarms EXCEPT ![c] = @ \ ({h} \cap alarms[c])]
        /\ alarmsWanted' = [alarmsWanted EXCEPT ![c] = @ \ {h}]
        /\ Detach(c, {h} \cap alarms[c] \cap registered)
    BY <1>8 DEF StopAlarm
  <2>2. alarmRings'[h][c] = 0
    BY <1>1, <1>3, <2>1 DEF Detach
  <2>3. \A g \in Hosts \ {h} :
            /\ alarmRings'[g][c] = alarmRings[g][c]
            /\ g \in alarms[c] => g \in alarms'[c]
            /\ g \in alarmsWanted[c] => g \in alarmsWanted'[c]
    BY <1>3, <2>1 DEF Detach
  <2>4. \A g \in Hosts, d \in Clients \ {c} :
            /\ alarmRings'[g][d] = alarmRings[g][d]
            /\ alarms'[d] = alarms[d] /\ alarmsWanted'[d] = alarmsWanted[d]
    BY <1>3, <2>1 DEF Detach
  <2> QED
    BY <1>1, <2>1, <2>2, <2>3, <2>4
<1>9. ASSUME NEW h \in Hosts, AddDevice(h) PROVE RingsFit'
  BY <1>1, <1>9 DEF AddDevice, alarmVars
<1>10. ASSUME NEW h \in Hosts, DelDevice(h) PROVE RingsFit'
  <2>1. /\ state' = state /\ alarms' = alarms
        /\ registered' = registered \ {h}
        /\ alarmRings' = [alarmRings EXCEPT ![h] = [c \in Clients |-> 0]]
        /\ alarmsWanted' = [c \in Clients |-> alarmsWanted[c] \ {h}]
    BY <1>10 DEF DelDevice
  <2>2. \A c \in Clients : alarmRings'[h][c] = 0
    BY <1>3, <2>1
  <2>3. \A c \in Clients, g \in Hosts \ {h} :
            /\ alarmRings'[g][c] = alarmRings[g][c]
            /\ g \in alarmsWanted[c] => g \in alarmsWanted'[c]
    BY <1>3, <2>1
  <2> QED
    BY <1>1, <2>1, <2>2, <2>3
<1> HIDE DEF RingsFit
<1>11. RingsFit'
  BY <1>4, <1>5, <1>6, <1>7, <1>8, <1>9, <1>10, StepsByPart DEF ClientRingSteps
<1> QED
  BY <1>2, <1>11

\* Only a request that finds no loop starts one, and only the end of the loop
\* resets the state.
LEMMA NextOneRcdLoop ==
    ASSUME TypeOK, OneRcdLoopWhenBusy, [Next]_vars
    PROVE  OneRcdLoopWhenBusy'
<1> USE DEF OneRcdLoopWhenBusy
<1>0. /\ rcdBusy \in [Clients -> BOOLEAN]
      /\ rcdLoops \in [Clients -> Nat]
      /\ keepLoops \in [Clients -> Nat]
  BY DEF TypeOK
<1>1. ASSUME UNCHANGED loopVars PROVE OneRcdLoopWhenBusy'
  BY <1>1 DEF loopVars
<1>2. ASSUME NEW c \in Clients, RcdWritten(c) PROVE OneRcdLoopWhenBusy'
  <2>1. rcdLoops'[c] + keepLoops'[c] = (rcdLoops[c] - 1) + keepLoops[c] + 1
    BY <1>2, RcdWrittenFacts, MakeRcdDataFacts
  <2>2. rcdLoops'[c] + keepLoops'[c] = rcdLoops[c] + keepLoops[c]
    BY <1>0, <2>1
  <2>3. \A d \in Clients \ {c} : rcdLoops'[d] = rcdLoops[d] /\ keepLoops'[d] = keepLoops[d]
    BY <1>2, RcdWrittenFacts, MakeRcdDataFacts
  <2>4. rcdBusy' = rcdBusy
    BY <1>2 DEF RcdWritten
  <2> QED
    BY <2>2, <2>3, <2>4
<1>3. ASSUME NEW c \in Clients, KeepWritten(c) PROVE OneRcdLoopWhenBusy'
  <2>1. rcdBusy[c] /\ rcdLoops[c] = 0 /\ keepLoops[c] = 1
    <3>1. rcdLoops[c] \in Nat /\ keepLoops[c] \in Nat /\ keepLoops[c] > 0
      BY <1>0, <1>3 DEF KeepWritten
    <3>2. rcdLoops[c] + keepLoops[c] = IF rcdBusy[c] THEN 1 ELSE 0
      OBVIOUS
    <3>3. CASE rcdBusy[c]
      <4>1. rcdLoops[c] + keepLoops[c] = 1
        BY <3>2, <3>3
      <4> HIDE DEF OneRcdLoopWhenBusy
      <4> QED
        BY <3>1, <3>3, <4>1
    <3>4. CASE ~ rcdBusy[c]
      <4>1. rcdLoops[c] + keepLoops[c] = 0
        BY <3>2, <3>4
      <4> HIDE DEF OneRcdLoopWhenBusy
      <4> QED
        BY <3>1, <4>1
    <3> QED
      BY <3>3, <3>4
  <2> QED
    BY <1>0, <1>3, <2>1 DEF KeepWritten
<1>4. ASSUME NEW c \in Clients, Release(c) PROVE OneRcdLoopWhenBusy'
  BY <1>0, <1>4 DEF Release
<1>5. ASSUME NEW c \in Clients, NEW h \in Hosts, GetRcdInfo(c, h)
      PROVE  OneRcdLoopWhenBusy'
  <2>1. rcdLoops[c] = 0 /\ keepLoops[c] = 0
    <3>1. rcdLoops[c] \in Nat /\ keepLoops[c] \in Nat
      BY <1>0
    <3>2. rcdBusy[c] = FALSE
      BY <1>5 DEF GetRcdInfo
    <3>3. rcdLoops[c] + keepLoops[c] = IF rcdBusy[c] THEN 1 ELSE 0
      OBVIOUS
    <3>4. rcdLoops[c] + keepLoops[c] = 0
      BY <3>2, <3>3
    <3> HIDE DEF OneRcdLoopWhenBusy
    <3> QED
      BY <3>1, <3>4
  <2>2. /\ rcdLoops'[c] + keepLoops'[c] = rcdLoops[c] + keepLoops[c] + 1
        /\ \A d \in Clients \ {c} : rcdLoops'[d] = rcdLoops[d] /\ keepLoops'[d] = keepLoops[d]
    <3>1. PICK wanted \in Hosts \cup {NoHost}, lists \in [Hosts -> SUBSET Clients] :
              MakeRcdData(c, wanted, lists, rcdLoops[c])
      BY <1>5, GetRcdInfoFacts
    <3>2. rcdLoops[c] \in Nat
      BY <1>0
    <3> QED
      BY <3>1, <3>2, MakeRcdDataFacts
  <2>3. rcdBusy' = [rcdBusy EXCEPT ![c] = TRUE]
    BY <1>5 DEF GetRcdInfo
  <2>4. rcdLoops'[c] + keepLoops'[c] = 1 /\ rcdBusy'[c]
    <3>1. rcdLoops'[c] + keepLoops'[c] = 0 + 0 + 1
      BY <2>1, <2>2
    <3> QED
      BY <1>0, <2>3, <3>1
  <2>5. \A d \in Clients \ {c} : rcdBusy'[d] = rcdBusy[d]
    BY <1>0, <2>3
  <2>6. \A d \in Clients \ {c} : rcdLoops'[d] + keepLoops'[d] = IF rcdBusy'[d] THEN 1 ELSE 0
    BY <2>2, <2>5
  <2> QED
    BY <2>4, <2>6
<1> QED
  BY <1>1, <1>2, <1>3, <1>4, <1>5, StepsByPart DEF RcdSteps

-------------------------------------------------------------------------------

\* The invariant holds in every reachable state.
LEMMA Invariance == Spec => []IInv
<1>1. IInv /\ [Next]_vars => IInv'
  BY NextTypeOK, NextPlaysAreServed, NextAlarmsAreServed, NextRings, NextOneRcdLoop
     DEF IInv
<1> QED
  BY <1>1, InitIInv, PTL DEF Spec

\* Every variable keeps its type, counters stay within their bounds and none
\* goes below zero, whatever stops a client sends.
THEOREM TypeCorrect == Spec => []TypeOK
<1>1. IInv => TypeOK
  BY DEF IInv
<1> QED
  BY <1>1, Invariance, PTL

\* No play is without a write loop (OnRealPlay, OnRealStop, ProcessData).
THEOREM PlaysAreAlwaysServed == Spec => []PlaysAreServed
<1>1. IInv => PlaysAreServed
  BY DEF IInv
<1> QED
  BY <1>1, Invariance, PTL

\* No entry of m_alarmInfoVec is without a write loop (OnStartAlarm, OnStopAlarm,
\* ProcessAlarm).
THEOREM AlarmsAreAlwaysServed == Spec => []AlarmsAreServed
<1>1. IInv => AlarmsAreServed
  BY DEF IInv
<1> QED
  BY <1>1, Invariance, PTL

\* No host puts its alarms into the buffer of a client that has not opened them,
\* has closed them or is deleted, nor twice into one (EnableAlarm, StopAllAlarm).
THEOREM AlarmsAlwaysGoWhereTheyAreWanted == Spec => []AlarmsGoWhereTheyAreWanted
<1>1. IInv => AlarmsGoWhereTheyAreWanted
  BY DEF IInv
<1> QED
  BY <1>1, Invariance, PTL

\* A client has a loop for record info exactly when m_ioRcdState says so
\* (OnGetRctInfo, MakeRcdData, ProcessRcd).
THEOREM AlwaysOneRcdLoopWhenBusy == Spec => []OneRcdLoopWhenBusy
<1>1. IInv => OneRcdLoopWhenBusy
  BY DEF IInv
<1> QED
  BY <1>1, Invariance, PTL

-------------------------------------------------------------------------------

(***************************************************************************)
(* The end of unused loops.                                                *)
(***************************************************************************)

\* The loops for video and alarms of a client.
LoopsLeft(c) == dataLoops[c] + alarmLoops[c]

\* A client that needs no loop, and goes on needing none, starts none: a start of alarms
\* that enters no host is one whose m_nAlarmRefCnt is zero.
LEMMA UnusedStartNone ==
    ASSUME IInv, [Next]_vars, NEW c \in Clients, ~ NeedsLoops(c), ~ NeedsLoops(c)'
    PROVE  dataLoops'[c] <= dataLoops[c] /\ alarmLoops'[c] <= alarmLoops[c]
<1>0. /\ nRef \in [Clients -> 0 .. MaxPlays] /\ dataLoops \in [Clients -> 0 .. MaxLoops]
      /\ alarms \in [Clients -> SUBSET Hosts] /\ alarmRef \in [Clients -> Nat]
      /\ alarmLoops \in [Clients -> 0 .. MaxLoops]
      /\ MaxPlays \in Nat /\ MaxLoops \in Nat
  BY ClientStreamAssumption DEF IInv, TypeOK
<1>1. nRef[c] = 0 /\ alarms[c] = {} /\ alarmRef[c] = 0
  BY <1>0, FS_EmptySet DEF NeedsLoops, IInv, AlarmRefsCountEntries
<1>2. nRef'[c] <= 0 /\ alarms'[c] = {}
  <2>1. nRef' \in [Clients -> 0 .. MaxPlays]
    BY NextTypeOK DEF IInv, TypeOK
  <2> QED
    BY <1>0, <2>1 DEF NeedsLoops
<1>3. dataLoops'[c] <= dataLoops[c]
  <2>1. ASSUME NEW d \in Clients, DataSteps(d) PROVE dataLoops'[c] <= dataLoops[c]
    <3>1. CASE Play(d)
      <4>1. /\ nRef' = [nRef EXCEPT ![d] = @ + 1]
            /\ dataLoops' = [dataLoops EXCEPT ![d] = IF nRef[d] = 0 THEN @ + 1 ELSE @]
        BY <3>1 DEF Play
      <4>2. d # c
        BY <1>0, <1>1, <1>2, <4>1
      <4> QED
        BY <1>0, <4>1, <4>2
    <3>2. CASE DataWritten(d)
      BY <1>0, <3>2 DEF DataWritten
    <3>3. CASE Stop(d) \/ Release(d)
      <4>1. dataLoops' = dataLoops
        BY <3>3 DEF Stop, Release
      <4> QED
        BY <1>0, <4>1
    <3> QED
      BY <2>1, <3>1, <3>2, <3>3 DEF DataSteps
  <2>2. UNCHANGED dataVars => dataLoops'[c] <= dataLoops[c]
    BY <1>0 DEF dataVars
  <2> QED
    BY <2>1, <2>2, StepsByPart
<1>4. alarmLoops'[c] <= alarmLoops[c]
  <2>1. ASSUME NEW d \in Clients, NEW h \in Hosts, StartAlarm(d, h) PROVE alarmLoops'[c] <= alarmLoops[c]
    <3>1. CASE d # c
      <4>1. \E k : alarmLoops' = [alarmLoops EXCEPT ![d] = k]
        BY <2>1 DEF StartAlarm
      <4> QED
        BY <1>0, <3>1, <4>1
    <3>2. CASE d = c
      <4> DEFINE new == IF alarmBusy[c] THEN {} ELSE {h} \cap (registered \ alarms[c])
      <4>1. /\ alarms' = [alarms EXCEPT ![c] = @ \cup new]
            /\ alarmLoops' = [alarmLoops EXCEPT
                   ![c] = @ + IF ~ alarmBusy[c] /\ alarmRef[c] + Cardinality(new) > 0 THEN 1 ELSE 0]
        BY <2>1, <3>2 DEF StartAlarm
      <4>2. new = {}
        <5> HIDE DEF new
        <5> QED
          BY <1>0, <1>2, <4>1
      <4>3. Cardinality(new) = 0
        BY <4>2, FS_EmptySet
      <4> HIDE DEF new
      <4> QED
        BY <1>0, <1>1, <4>1, <4>3
    <3> QED
      BY <3>1, <3>2
  <2>2. ASSUME NEW d \in Clients, AlarmWritten(d) PROVE alarmLoops'[c] <= alarmLoops[c]
    BY <1>0, <2>2 DEF AlarmWritten
  <2>3. ASSUME NEW d \in Clients, Release(d) \/ \E h \in Hosts : StopAlarm(d, h)
        PROVE  alarmLoops'[c] <= alarmLoops[c]
    <3>1. alarmLoops' = alarmLoops
      BY <2>3 DEF Release, StopAlarm
    <3> QED
      BY <1>0, <3>1
  <2>4. UNCHANGED alarmLoops => alarmLoops'[c] <= alarmLoops[c]
    BY <1>0
  <2> QED
    BY <2>1, <2>2, <2>3, <2>4, StepsByPart DEF AlarmSteps
<1> QED
  BY <1>3, <1>4

\* A write that completes for such a client ends a loop.
LEMMA UnusedEnd ==
    ASSUME IInv, NEW c \in Clients, ~ NeedsLoops(c)
    PROVE  /\ DataWritten(c) => dataLoops'[c] < dataLoops[c] /\ alarmLoops'[c] = alarmLoops[c]
           /\ AlarmWritten(c) => alarmLoops'[c] < alarmLoops[c] /\ dataLoops'[c] = dataLoops[c]
<1>0. /\ alarms \in [Clients -> SUBSET Hosts] /\ alarmRef \in [Clients -> Nat]
      /\ dataLoops \in [Clients -> 0 .. MaxLoops] /\ alarmLoops \in [Clients -> 0 .. MaxLoops]
      /\ MaxLoops \in Nat
  BY ClientStreamAssumption DEF IInv, TypeOK
<1>1. alarmRef[c] = 0
  BY <1>0, FS_EmptySet DEF NeedsLoops, IInv, AlarmRefsCountEntries
<1> QED
  BY <1>0, <1>1 DEF DataWritten, AlarmWritten, alarmVars, dataVars

\* A client that needs no loop never gets one more, and every write of its that completes
\* leaves it one less: stops, starts for hosts that are not there and reconnections included.
UnusedLoopsOnlyEnd ==
    [][\A c \in Clients :
           ~ NeedsLoops(c) /\ ~ NeedsLoops(c)' =>
               /\ LoopsLeft(c)' <= LoopsLeft(c)
               /\ DataWritten(c) \/ AlarmWritten(c) => LoopsLeft(c)' < LoopsLeft(c)]_vars

\* Such a client loses loops and gets none, for any number of clients, hosts and loops
\* (OnWrite, OnStartAlarm, OnRealPlay).
THEOREM NoLoopForNothing == Spec => UnusedLoopsOnlyEnd
<1>1. ASSUME IInv, IInv', [Next]_vars, NEW c \in Clients, ~ NeedsLoops(c), ~ NeedsLoops(c)'
      PROVE  /\ LoopsLeft(c)' <= LoopsLeft(c)
             /\ DataWritten(c) \/ AlarmWritten(c) => LoopsLeft(c)' < LoopsLeft(c)
  <2>1. /\ dataLoops[c] \in Int /\ alarmLoops[c] \in Int
        /\ dataLoops'[c] \in Int /\ alarmLoops'[c] \in Int
    BY <1>1, ClientStreamAssumption DEF IInv, TypeOK
  <2>2. dataLoops'[c] <= dataLoops[c] /\ alarmLoops'[c] <= alarmLoops[c]
    BY <1>1, UnusedStartNone
  <2>3. /\ DataWritten(c) => dataLoops'[c] < dataLoops[c]
        /\ AlarmWritten(c) => alarmLoops'[c] < alarmLoops[c]
    BY <1>1, UnusedEnd
  <2> QED
    BY <2>1, <2>2, <2>3 DEF LoopsLeft
<1>2. IInv /\ IInv' /\ [Next]_vars =>
          [\A c \in Clients :
               ~ NeedsLoops(c) /\ ~ NeedsLoops(c)' =>
                   /\ LoopsLeft(c)' <= LoopsLeft(c)
                   /\ DataWritten(c) \/ AlarmWritten(c) => LoopsLeft(c)' < LoopsLeft(c)]_vars
  BY <1>1
<1> QED
  BY <1>2, Invariance, PTL DEF Spec, UnusedLoopsOnlyEnd

\* The writes of a client that needs no loop can complete.
WritesCanComplete(c) ==
    /\ [](~ NeedsLoops(c) /\ dataLoops[c] > 0 => ENABLED <<DataWritten(c)>>_vars)
    /\ [](~ NeedsLoops(c) /\ alarmLoops[c] > 0 => ENABLED <<AlarmWritten(c)>>_vars)

\* As long as its writes can complete, a client that needs no loop gets rid of one after
\* another: UnusedLoopsEnd, but for the induction over their number.
THEOREM UnusedLoopsGetFewer ==
    ASSUME NEW c \in Clients, NEW n \in Nat \ {0}
    PROVE  Spec /\ WritesCanComplete(c) =>
               (~ NeedsLoops(c) /\ LoopsLeft(c) = n ~> NeedsLoops(c) \/ LoopsLeft(c) < n)
<1> DEFINE Left == ~ NeedsLoops(c) /\ LoopsLeft(c) = n
           Data == Left /\ dataLoops[c] > 0
           Alarm == Left /\ dataLoops[c] = 0
           Goal == NeedsLoops(c) \/ LoopsLeft(c) < n
<1>1. IInv /\ Left => Data \/ Alarm
  BY ClientStreamAssumption DEF IInv, TypeOK
<1>2. /\ Data => ~ NeedsLoops(c) /\ dataLoops[c] > 0
      /\ IInv /\ Alarm => ~ NeedsLoops(c) /\ alarmLoops[c] > 0
  BY ClientStreamAssumption DEF IInv, TypeOK, LoopsLeft
<1>3. ASSUME IInv, IInv', [Next]_vars, Left
      PROVE  /\ Data => Data' \/ Goal'
             /\ Alarm => Alarm' \/ Goal'
             /\ <<DataWritten(c)>>_vars => Goal'
             /\ <<AlarmWritten(c)>>_vars => Goal'
  <2>1. /\ dataLoops[c] \in Nat /\ alarmLoops[c] \in Nat
        /\ dataLoops'[c] \in Nat /\ alarmLoops'[c] \in Nat
    BY <1>3, ClientStreamAssumption DEF IInv, TypeOK
  <2>2. CASE ~ NeedsLoops(c)'
    <3>1. dataLoops'[c] <= dataLoops[c] /\ alarmLoops'[c] <= alarmLoops[c]
      BY <1>3, <2>2, UnusedStartNone
    <3>2. /\ DataWritten(c) => dataLoops'[c] < dataLoops[c]
          /\ AlarmWritten(c) => alarmLoops'[c] < alarmLoops[c]
      BY <1>3, UnusedEnd
    <3>3. dataLoops[c] + alarmLoops[c] = n
      BY <1>3 DEF LoopsLeft
    <3>4. \/ dataLoops'[c] + alarmLoops'[c] < n
          \/ dataLoops'[c] = dataLoops[c] /\ alarmLoops'[c] = alarmLoops[c]
      BY <2>1, <3>1, <3>3
    <3>5. DataWritten(c) \/ AlarmWritten(c) => dataLoops'[c] + alarmLoops'[c] < n
      BY <2>1, <3>1, <3>2, <3>3
    <3> QED
      BY <2>2, <3>3, <3>4, <3>5 DEF LoopsLeft
  <2> QED
    BY <2>2
<1>4. Fairness => WritesComplete(c)
  BY DEF Fairness
<1>5. Data => Left
  OBVIOUS
<1>6. Alarm => Left
  OBVIOUS
<1> QED
  BY <1>1, <1>2, <1>3, <1>4, <1>5, <1>6, Invariance, PTL
     DEF Spec, WritesComplete, WritesCanComplete

===============================================================================
