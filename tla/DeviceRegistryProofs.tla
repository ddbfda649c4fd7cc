------------------------- MODULE DeviceRegistryProofs -------------------------
(***************************************************************************)
(* Proofs about DeviceRegistry for any devices, handles and connections    *)
(* and any bounds.                                                         *)
(*                                                                         *)
(* Handles are closed under hosts that have been given them anew, so that  *)
(* nothing is known of what a handle stands for.  What keeps the tables    *)
(* together is that a host keeps the handle it was accepted with, that it  *)
(* is in m_devMap under one id only, and that a host whose entry is not    *)
(* marked registered is not in m_devMap.                                   *)
(***************************************************************************)
EXTENDS DeviceRegistry, TLAPS

\* Whoever does something does it on a handle; only the listener accepts, only the
\* worker handles messages, only the client service's worker starts an upload.
ThreadsFit ==
    /\ \A t \in Threads : thread[t].at \notin {"idle", "upload"} => thread[t].sock \in Sockets
    /\ thread["worker"].at \notin {"accepted", "create", "upload"}
    /\ thread["listener"].at \notin {"handle", "upload"}
    /\ thread["client"].at \notin {"accepted", "create", "handle"}
    /\ thread["worker"].at = "handle" => thread["worker"].host \in Hosts
    /\ thread["client"].at = "upload" =>
           thread["client"].host \in Hosts /\ addr[thread["client"].host] \in Sockets

\* A host that has not been made has no entry, and a host that is ready has an id.
NewHostsAreUntouched ==
    /\ \A h \in Hosts : addr[h] = NoSocket => object[h] = "none" /\ h \notin up
    /\ \A h \in Hosts : ready[h] => id[h] \in Devices
    /\ thread["listener"].at \in {"accepted", "create"} =>
           /\ thread["listener"].host \in Hosts
           /\ addr[thread["listener"].host] = thread["listener"].sock
           /\ object[thread["listener"].host] = "none"

\* A host is known under the handle it was accepted with.
HostsKeepTheirHandle ==
    /\ \A s \in Sockets : connMap[s].host # NoHost => addr[connMap[s].host] = s
    /\ \A s \in Sockets : connMap[s].reg => connMap[s].host # NoHost
    /\ \A d \in Devices :
           IF devMap[d].host = NoHost
           THEN devMap[d].sock = NoSocket
           ELSE devMap[d].sock \in Sockets /\ addr[devMap[d].host] = devMap[d].sock

\* A host is found under one id only, and is then marked registered.
KeysAreUnique ==
    /\ \A d, e \in Devices : devMap[d].host # NoHost /\ devMap[d].host = devMap[e].host => d = e
    /\ \A s \in Sockets, d \in Devices :
           connMap[s].host # NoHost /\ ~connMap[s].reg => devMap[d].host # connMap[s].host

\* The inductive invariant.
IInv ==
    /\ TypeOK
    /\ ThreadsFit
    /\ NewHostsAreUntouched
    /\ HostsKeepTheirHandle
    /\ KeysAreUnique
    /\ TablesHoldLiveHosts
    /\ RegisteredHostsAreWatched
    /\ RegisteredHostsAreFound

ConnMaps == [Sockets -> [host : Hosts \cup {NoHost}, reg : BOOLEAN]]
DevMaps == [Devices -> [host : Hosts \cup {NoHost}, sock : Sockets \cup {NoSocket}]]
Objects == [Hosts -> {"none", "live", "deleted"}]

InDevMap(h) == \E d \in Devices : devMap[d].host = h
InConnMap(h) == \E s \in Sockets : connMap[s].host = h

-------------------------------------------------------------------------------

(***************************************************************************)
(* What the functions of CDeviceManager do to the tables, entry by entry.  *)
(***************************************************************************)

\* The host of a handle is taken out, and deleted if m_devMap had it.
Removed(s) ==
    LET g == connMap[s].host
    IN  /\ g \in Hosts
        /\ connMap' = [t \in Sockets |-> IF t = s THEN NoConn ELSE connMap[t]]
        /\ devMap' = [d \in Devices |-> IF devMap[d].host = g THEN NoDev ELSE devMap[d]]
        /\ object' = [h \in Hosts |-> IF h = g /\ InDevMap(h) THEN "deleted" ELSE object[h]]
        /\ displaced' = displaced

\* The host of a handle is entered under its id, in the place of nobody or of a host
\* whose handle, whoever has it, is taken out.
Added(s) ==
    LET h == connMap[s].host
        d == id[h]
        old == devMap[d]
        x == connMap[old.sock].host
    IN  /\ h \in Hosts /\ d \in Devices /\ ~connMap[s].reg
        /\ \/ /\ old.host = NoHost
              /\ connMap' = [t \in Sockets |-> IF t = s THEN [host |-> h, reg |-> TRUE] ELSE connMap[t]]
              /\ devMap' = [e \in Devices |-> IF e = d THEN [host |-> h, sock |-> s] ELSE devMap[e]]
              /\ object' = object
              /\ displaced' = displaced
           \/ /\ old.host \in Hosts
              /\ old.sock \in Sockets
              /\ connMap' = [t \in Sockets |-> IF t = old.sock THEN NoConn
                                               ELSE IF t = s THEN [host |-> h, reg |-> TRUE] ELSE connMap[t]]
              /\ devMap' = [e \in Devices |-> IF e = d THEN [host |-> h, sock |-> s]
                                              ELSE IF x # NoHost /\ devMap[e].host = x THEN NoDev ELSE devMap[e]]
              /\ object' = [k \in Hosts |-> IF k = x /\ InDevMap(k) THEN "deleted" ELSE object[k]]
              /\ displaced' = IF old.sock = s THEN displaced \cup {h} ELSE displaced

\* A host is made under a handle, in the place of nobody or of whoever had it.
Made(g, s) ==
    /\ object[g] = "none"
    /\ addr[g] = s
    /\ object' = [object EXCEPT ![g] = "live"]
    /\ connMap' = [connMap EXCEPT ![s] = [host |-> g, reg |-> FALSE]]
    /\ devMap' = devMap
    /\ displaced' = displaced \cup {k \in Hosts : connMap[s] = [host |-> k, reg |-> TRUE]}

LEMMA HostFacts == NoHost \notin Hosts
BY DEF NoHost, Hosts

LEMMA DelDeviceFacts ==
    ASSUME IInv, NEW g \in Hosts
    PROVE  /\ DelDevice(Tables, g).conn = connMap
           /\ DelDevice(Tables, g).dev = [d \in Devices |-> IF devMap[d].host = g THEN NoDev ELSE devMap[d]]
           /\ DelDevice(Tables, g).obj
                  = [h \in Hosts |-> IF h = g /\ InDevMap(h) THEN "deleted" ELSE object[h]]
<1> DEFINE del == [Tables EXCEPT !.obj[g] = "deleted",
                                 !.dev[CHOOSE d \in KeysOf(Tables, g) : TRUE] = NoDev]
<1>0. devMap \in DevMaps /\ object \in Objects
  BY DEF IInv, TypeOK, DevMaps, Objects
<1>1. CASE KeysOf(Tables, g) = {}
  <2>1. DelDevice(Tables, g) = Tables /\ ~InDevMap(g)
    BY <1>1 DEF DelDevice, KeysOf, Tables, InDevMap
  <2>2. \A d \in Devices : devMap[d].host # g
    BY <2>1 DEF InDevMap
  <2> QED
    BY <1>0, <2>1, <2>2 DEF Tables, DevMaps, Objects
<1>2. CASE KeysOf(Tables, g) # {}
  <2>1. PICK k \in Devices : k \in KeysOf(Tables, g)
    BY <1>2 DEF KeysOf
  <2>2. devMap[k].host = g /\ InDevMap(g)
    BY <2>1 DEF KeysOf, Tables, InDevMap
  <2>3. \A d \in Devices : devMap[d].host = g <=> d = k
    BY <2>2, HostFacts DEF IInv, KeysAreUnique
  <2>4. KeysOf(Tables, g) = {k}
    BY <2>3 DEF KeysOf, Tables
  <2>5. (CHOOSE d \in KeysOf(Tables, g) : TRUE) = k
    BY <2>4
  <2>6. DelDevice(Tables, g) = [Tables EXCEPT !.obj[g] = "deleted", !.dev[k] = NoDev]
    BY <1>2, <2>5 DEF DelDevice
  <2>7. /\ DelDevice(Tables, g).conn = connMap
        /\ DelDevice(Tables, g).dev = [devMap EXCEPT ![k] = NoDev]
        /\ DelDevice(Tables, g).obj = [object EXCEPT ![g] = "deleted"]
    BY <2>6 DEF Tables
  <2> QED
    BY <1>0, <2>2, <2>3, <2>7 DEF DevMaps, Objects
<1> QED
  BY <1>1, <1>2

LEMMA ReleaseDevObjFacts ==
    ASSUME IInv, NEW s \in Sockets, connMap[s].host # NoHost
    PROVE  LET r == ReleaseDevObj(Tables, s)
               g == connMap[s].host
           IN  /\ g \in Hosts
               /\ r.conn = [t \in Sockets |-> IF t = s THEN NoConn ELSE connMap[t]]
               /\ r.dev = [d \in Devices |-> IF devMap[d].host = g THEN NoDev ELSE devMap[d]]
               /\ r.obj = [h \in Hosts |-> IF h = g /\ InDevMap(h) THEN "deleted" ELSE object[h]]
<1> DEFINE g == connMap[s].host
           r == DelDevice(Tables, g)
<1>1. g \in Hosts /\ connMap \in ConnMaps
  BY DEF IInv, TypeOK, ConnMaps
<1>2. /\ r.conn = connMap
      /\ r.dev = [d \in Devices |-> IF devMap[d].host = g THEN NoDev ELSE devMap[d]]
      /\ r.obj = [h \in Hosts |-> IF h = g /\ InDevMap(h) THEN "deleted" ELSE object[h]]
  BY <1>1, DelDeviceFacts
<1>3. ReleaseDevObj(Tables, s) = [r EXCEPT !.conn[s] = NoConn]
  BY DEF ReleaseDevObj, Tables
<1>4. r = [conn |-> r.conn, dev |-> r.dev, obj |-> r.obj]
  BY DEF DelDevice, Tables
<1>5. /\ [r EXCEPT !.conn[s] = NoConn].conn = [r.conn EXCEPT ![s] = NoConn]
      /\ [r EXCEPT !.conn[s] = NoConn].dev = r.dev
      /\ [r EXCEPT !.conn[s] = NoConn].obj = r.obj
  <2> HIDE DEF r
  <2> QED
    BY <1>4
<1>6. [connMap EXCEPT ![s] = NoConn] = [t \in Sockets |-> IF t = s THEN NoConn ELSE connMap[t]]
  BY <1>1 DEF ConnMaps
<1> HIDE DEF g, r
<1> QED
  BY <1>1, <1>2, <1>3, <1>5, <1>6 DEF g

LEMMA BrokenReleaseFacts ==
    ASSUME IInv, NEW t \in Threads, BrokenRelease(t), thread[t].sock \in Sockets
    PROVE  UNCHANGED <<connMap, devMap, object, displaced>> \/ Removed(thread[t].sock)
<1>1. SetTables(ReleaseDevObj(Tables, thread[t].sock)) /\ displaced' = displaced
  BY DEF BrokenRelease, pastVars
<1>2. CASE connMap[thread[t].sock].host = NoHost
  BY <1>1, <1>2 DEF ReleaseDevObj, SetTables, Tables
<1>3. CASE connMap[thread[t].sock].host # NoHost
  BY <1>1, <1>3, ReleaseDevObjFacts DEF SetTables, Removed
<1> QED
  BY <1>2, <1>3

LEMMA CheckOldFacts ==
    ASSUME IInv, NEW s \in Sockets, CheckOld(s)
    PROVE  Removed(s)
<1> DEFINE g == connMap[s].host
           r == DelDevice(Tables, g)
<1>1. g \in Hosts /\ connMap \in ConnMaps
  BY DEF CheckOld, IInv, TypeOK, ConnMaps
<1>2. /\ r.conn = connMap
      /\ r.dev = [d \in Devices |-> IF devMap[d].host = g THEN NoDev ELSE devMap[d]]
      /\ r.obj = [h \in Hosts |-> IF h = g /\ InDevMap(h) THEN "deleted" ELSE object[h]]
  BY <1>1, DelDeviceFacts
<1>3. SetTables([r EXCEPT !.conn[s] = NoConn]) /\ displaced' = displaced
  BY DEF CheckOld, pastVars
<1>4. r = [conn |-> r.conn, dev |-> r.dev, obj |-> r.obj]
  BY DEF DelDevice, Tables
<1>5. /\ [r EXCEPT !.conn[s] = NoConn].conn = [r.conn EXCEPT ![s] = NoConn]
      /\ [r EXCEPT !.conn[s] = NoConn].dev = r.dev
      /\ [r EXCEPT !.conn[s] = NoConn].obj = r.obj
  <2> HIDE DEF r
  <2> QED
    BY <1>4
<1>6. [connMap EXCEPT ![s] = NoConn] = [t \in Sockets |-> IF t = s THEN NoConn ELSE connMap[t]]
  BY <1>1 DEF ConnMaps
<1> HIDE DEF r
<1> QED
  BY <1>1, <1>2, <1>3, <1>5, <1>6 DEF SetTables, Removed

LEMMA CheckNewFacts ==
    ASSUME IInv, NEW s \in Sockets, CheckNew(s)
    PROVE  Added(s)
<1> DEFINE h == connMap[s].host
           d == id[h]
           old == devMap[d]
           os == old.sock
           x == connMap[os].host
           cleared == IF old.host = NoHost THEN Tables ELSE ReleaseDevObj(Tables, os)
           q == AddDevice(Tables, s)
<1>1. h \in Hosts /\ d \in Devices /\ ~connMap[s].reg /\ connMap \in ConnMaps /\ devMap \in DevMaps /\ object \in Objects
  BY DEF CheckNew, IsReady, IInv, TypeOK, NewHostsAreUntouched, ConnMaps, DevMaps, Objects
<1>2. /\ connMap' = q.conn /\ devMap' = q.dev /\ object' = q.obj
      /\ displaced' = IF os = s THEN displaced \cup {h} ELSE displaced
  BY DEF CheckNew, SetTables
<1>3. q = [cleared EXCEPT !.dev[d] = [host |-> h, sock |-> s],
                          !.conn[s] = IF @ = NoConn THEN @ ELSE [host |-> h, reg |-> TRUE]]
  BY DEF AddDevice, Tables
<1>4. cleared = [conn |-> cleared.conn, dev |-> cleared.dev, obj |-> cleared.obj]
  BY DEF ReleaseDevObj, DelDevice, Tables
<1>5. /\ q.conn = [cleared.conn EXCEPT ![s] = IF @ = NoConn THEN @ ELSE [host |-> h, reg |-> TRUE]]
      /\ q.dev = [cleared.dev EXCEPT ![d] = [host |-> h, sock |-> s]]
      /\ q.obj = cleared.obj
  <2> HIDE DEF cleared, q, h, d
  <2> QED
    BY <1>3, <1>4
<1>6. connMap[s] # NoConn
  BY <1>1, HostFacts DEF NoConn
<1>7. CASE old.host = NoHost
  <2>1. cleared.conn = connMap /\ cleared.dev = devMap /\ cleared.obj = object
    BY <1>7 DEF Tables
  <2>2. os # s
    BY <1>1, <1>7, DeviceRegistryAssumption DEF IInv, HostsKeepTheirHandle
  <2> QED
    BY <1>1, <1>2, <1>5, <1>6, <1>7, <2>1, <2>2 DEF Added, ConnMaps, DevMaps
<1>8. CASE old.host # NoHost
  <2>1. old.host \in Hosts /\ os \in Sockets
    BY <1>1, <1>8 DEF IInv, HostsKeepTheirHandle, DevMaps
  <2>2. /\ cleared.conn = [t \in Sockets |-> IF t = os THEN NoConn ELSE connMap[t]]
        /\ cleared.dev = [e \in Devices |->
                               IF x # NoHost /\ devMap[e].host = x THEN NoDev ELSE devMap[e]]
        /\ cleared.obj = [k \in Hosts |-> IF k = x /\ InDevMap(k) THEN "deleted" ELSE object[k]]
    <3>1. CASE x = NoHost
      <4>1. cleared.conn = connMap /\ cleared.dev = devMap /\ cleared.obj = object
        BY <1>8, <3>1 DEF ReleaseDevObj, Tables
      <4>2. connMap[os] = NoConn
        BY <1>1, <2>1, <3>1 DEF IInv, HostsKeepTheirHandle, ConnMaps, NoConn
      <4> HIDE DEF cleared
      <4>3. cleared.conn = [t \in Sockets |-> IF t = os THEN NoConn ELSE connMap[t]]
        BY <1>1, <4>1, <4>2 DEF ConnMaps
      <4>4. cleared.dev = [e \in Devices |->
                               IF x # NoHost /\ devMap[e].host = x THEN NoDev ELSE devMap[e]]
        BY <1>1, <3>1, <4>1 DEF DevMaps
      <4>5. \A k \in Hosts : k # x
        BY <3>1, HostFacts
      <4>6. cleared.obj = [k \in Hosts |-> IF k = x /\ InDevMap(k) THEN "deleted" ELSE object[k]]
        BY <1>1, <4>1, <4>5 DEF Objects
      <4> QED
        BY <4>3, <4>4, <4>6
    <3>2. CASE x # NoHost
      BY <1>8, <2>1, <3>2, ReleaseDevObjFacts
    <3> QED
      BY <3>1, <3>2
  <2> HIDE DEF cleared, q, x
  <2>3. connMap' = [t \in Sockets |-> IF t = os THEN NoConn
                                      ELSE IF t = s THEN [host |-> h, reg |-> TRUE] ELSE connMap[t]]
    <3>1. CASE os = s
      BY <1>1, <1>2, <1>5, <2>1, <2>2, <3>1
    <3>2. CASE os # s
      <4>1. cleared.conn[s] # NoConn
        BY <1>6, <2>2, <3>2
      <4>2. connMap' = [cleared.conn EXCEPT ![s] = [host |-> h, reg |-> TRUE]]
        BY <1>2, <1>5, <4>1
      <4> QED
        BY <2>2, <3>2, <4>2
    <3> QED
      BY <3>1, <3>2
  <2>4. devMap' = [e \in Devices |-> IF e = d THEN [host |-> h, sock |-> s]
                                     ELSE IF x # NoHost /\ devMap[e].host = x THEN NoDev ELSE devMap[e]]
    BY <1>1, <1>2, <1>5, <2>2
  <2>5. object' = [k \in Hosts |-> IF k = x /\ InDevMap(k) THEN "deleted" ELSE object[k]]
    BY <1>2, <1>5, <2>2
  <2> QED
    BY <1>1, <1>2, <2>1, <2>3, <2>4, <2>5 DEF Added, x
<1> QED
  BY <1>7, <1>8

LEMMA CreateDevObjFacts ==
    ASSUME IInv, CreateDevObj
    PROVE  LET g == thread["listener"].host
               s == thread["listener"].sock
           IN  g \in Hosts /\ s \in Sockets /\ Made(g, s)
BY DEF CreateDevObj, IInv, ThreadsFit, NewHostsAreUntouched, Threads, Made

-------------------------------------------------------------------------------

(***************************************************************************)
(* What a step does to the tables, and to the handles of the connections.  *)
(***************************************************************************)

\* Only Accept gives a connection its handle, and it had none.
HandlesStay ==
    \A h \in Hosts : addr'[h] # addr[h] => addr[h] = NoSocket /\ addr'[h] \in Sockets

TablesStay == UNCHANGED <<connMap, devMap, object, displaced>>

TablesStep ==
    \/ TablesStay
    \/ \E s \in Sockets : Removed(s)
    \/ \E s \in Sockets : Added(s)
    \/ \E g \in Hosts, s \in Sockets : Made(g, s)

LEMMA TableSteps ==
    ASSUME IInv, [Next]_vars
    PROVE  TablesStep /\ HandlesStay
<1> USE DEF TablesStep, TablesStay, HandlesStay
<1>1. CASE UNCHANGED vars
  BY <1>1 DEF vars, netVars, hostVars, mapVars, pastVars
<1>2. ASSUME NEW h \in Hosts, NEW s \in Sockets, Accept(h, s)
      PROVE  TablesStep /\ HandlesStay
  BY <1>2 DEF Accept, hostVars, mapVars, pastVars, IInv, TypeOK
<1>3. ASSUME NEW h \in Hosts, OnRead(h) \/ Fail(h) \/ PeerGone(h) \/ Silence(h)
      PROVE  TablesStep /\ HandlesStay
  BY <1>3 DEF OnRead, Fail, PeerGone, Silence, netVars, hostVars, mapVars, pastVars
<1>4. CASE AddUser \/ ParserRequest \/ SentData
  BY <1>4 DEF AddUser, ParserRequest, SentData, netVars, hostVars, mapVars, pastVars
<1>5. CASE CreateDevObj
  <2>1. addr' = addr
    BY <1>5 DEF CreateDevObj, netVars
  <2> QED
    BY <1>5, <2>1, CreateDevObjFacts
<1>6. ASSUME NEW t \in Threads, ThreadStep(t)
      PROVE  TablesStep /\ HandlesStay
  <2>1. CASE Post(t) \/ BrokenDelUser(t) \/ BrokenClose(t)
    BY <2>1 DEF Post, BrokenDelUser, BrokenClose, hostVars, mapVars, pastVars
  <2>2. CASE BrokenRelease(t)
    <3>1. thread[t].sock \in Sockets /\ addr' = addr
      BY <2>2 DEF BrokenRelease, netVars, IInv, ThreadsFit
    <3> QED
      BY <2>2, <3>1, BrokenReleaseFacts
  <2> QED
    BY <1>6, <2>1, <2>2 DEF ThreadStep
<1>7. ASSUME NEW s \in Sockets, Timer(s)
      PROVE  TablesStep /\ HandlesStay
  <2>1. addr' = addr
    BY <1>7 DEF Timer, CheckNew, CheckOld, CheckUnready, netVars
  <2>2. CASE CheckNew(s)
    BY <2>1, <2>2, CheckNewFacts
  <2>3. CASE CheckOld(s)
    BY <2>1, <2>3, CheckOldFacts
  <2>4. CASE CheckUnready(s)
    BY <2>1, <2>4 DEF CheckUnready, mapVars, pastVars
  <2> QED
    BY <1>7, <2>2, <2>3, <2>4 DEF Timer
<1>8. ASSUME NEW d \in Devices, GetDeviceObj(d)
      PROVE  TablesStep /\ HandlesStay
  BY <1>8 DEF GetDeviceObj, netVars, hostVars, mapVars, pastVars
<1> QED
  BY <1>1, <1>2, <1>3, <1>4, <1>5, <1>6, <1>7, <1>8 DEF Next

-------------------------------------------------------------------------------

(***************************************************************************)
(* The tables under a step that changes them.                              *)
(***************************************************************************)

LEMMA RemovedKeeps ==
    ASSUME IInv, HandlesStay, NEW s \in Sockets, Removed(s)
    PROVE  /\ HostsKeepTheirHandle'
           /\ KeysAreUnique'
           /\ TablesHoldLiveHosts'
           /\ RegisteredHostsAreWatched'
           /\ RegisteredHostsAreFound'
<1> DEFINE g == connMap[s].host
<1>1. g \in Hosts /\ connMap \in ConnMaps /\ devMap \in DevMaps /\ object \in Objects
  BY DEF Removed, IInv, TypeOK, ConnMaps, DevMaps, Objects
<1>2. \A t \in Sockets : connMap'[t] = IF t = s THEN NoConn ELSE connMap[t]
  BY DEF Removed
<1>3. \A d \in Devices : devMap'[d] = IF devMap[d].host = g THEN NoDev ELSE devMap[d]
  BY DEF Removed
<1>4. \A h \in Hosts : object'[h] = IF h = g /\ InDevMap(h) THEN "deleted" ELSE object[h]
  BY DEF Removed
<1>5. \A t \in Sockets : t # s => connMap[t].host # g
  BY <1>1, HostFacts DEF IInv, HostsKeepTheirHandle
<1>6. \A t \in Sockets : connMap[t].host # NoHost =>
          connMap[t].host \in Hosts /\ addr[connMap[t].host] = t /\ addr'[connMap[t].host] = t
  BY <1>1, DeviceRegistryAssumption DEF IInv, HostsKeepTheirHandle, HandlesStay, ConnMaps
<1>7. \A d \in Devices : devMap[d].host # NoHost =>
          /\ devMap[d].host \in Hosts /\ devMap[d].sock \in Sockets
          /\ addr[devMap[d].host] = devMap[d].sock /\ addr'[devMap[d].host] = devMap[d].sock
  BY <1>1, DeviceRegistryAssumption DEF IInv, HostsKeepTheirHandle, HandlesStay, DevMaps
<1>8. \A d \in Devices : devMap[d].host = NoHost => devMap[d].sock = NoSocket
  BY DEF IInv, HostsKeepTheirHandle
<1> HIDE DEF g
<1>9. HostsKeepTheirHandle'
  <2>1. \A t \in Sockets : connMap'[t].host # NoHost => addr'[connMap'[t].host] = t
    BY <1>2, <1>6 DEF NoConn
  <2>2. \A t \in Sockets : connMap'[t].reg => connMap'[t].host # NoHost
    BY <1>2 DEF IInv, HostsKeepTheirHandle, NoConn
  <2>3. \A d \in Devices :
            IF devMap'[d].host = NoHost
            THEN devMap'[d].sock = NoSocket
            ELSE devMap'[d].sock \in Sockets /\ addr'[devMap'[d].host] = devMap'[d].sock
    BY <1>3, <1>7, <1>8 DEF NoDev
  <2> QED
    BY <2>1, <2>2, <2>3 DEF HostsKeepTheirHandle
<1>10. KeysAreUnique'
  <2>1. \A d, e \in Devices : devMap'[d].host # NoHost /\ devMap'[d].host = devMap'[e].host => d = e
    BY <1>3 DEF IInv, KeysAreUnique, NoDev
  <2>2. \A t \in Sockets, d \in Devices :
            connMap'[t].host # NoHost /\ ~connMap'[t].reg => devMap'[d].host # connMap'[t].host
    BY <1>2, <1>3 DEF IInv, KeysAreUnique, NoDev, NoConn
  <2> QED
    BY <2>1, <2>2 DEF KeysAreUnique
<1>11. TablesHoldLiveHosts'
  <2>1. \A t \in Sockets : connMap'[t].host # NoHost => object'[connMap'[t].host] = "live"
    BY <1>2, <1>4, <1>5, <1>6 DEF IInv, TablesHoldLiveHosts, NoConn
  <2>2. \A d \in Devices : devMap'[d].host # NoHost => object'[devMap'[d].host] = "live"
    BY <1>3, <1>4, <1>7 DEF IInv, TablesHoldLiveHosts, NoDev
  <2> QED
    BY <2>1, <2>2 DEF TablesHoldLiveHosts
<1>12. RegisteredHostsAreWatched'
  <2> SUFFICES ASSUME NEW d \in Devices, devMap'[d].host # NoHost, devMap'[d].host \notin displaced'
               PROVE  connMap'[devMap'[d].sock] = [host |-> devMap'[d].host, reg |-> TRUE]
    BY DEF RegisteredHostsAreWatched
  <2>1. devMap'[d] = devMap[d] /\ devMap[d].host # g
    BY <1>3 DEF NoDev
  <2>2. displaced' = displaced
    BY DEF Removed
  <2>3. connMap[devMap[d].sock] = [host |-> devMap[d].host, reg |-> TRUE]
    BY <2>1, <2>2 DEF IInv, RegisteredHostsAreWatched
  <2>4. devMap[d].sock # s
    BY <2>1, <2>3 DEF g
  <2> QED
    BY <1>2, <1>7, <2>1, <2>3, <2>4
<1>13. RegisteredHostsAreFound'
  <2> SUFFICES ASSUME NEW t \in Sockets, connMap'[t].reg
               PROVE  \E d \in Devices : devMap'[d] = [host |-> connMap'[t].host, sock |-> t]
    BY DEF RegisteredHostsAreFound
  <2>1. t # s /\ connMap'[t] = connMap[t]
    BY <1>2 DEF NoConn
  <2>2. PICK d \in Devices : devMap[d] = [host |-> connMap[t].host, sock |-> t]
    BY <2>1 DEF IInv, RegisteredHostsAreFound
  <2>3. devMap'[d] = devMap[d]
    BY <1>3, <1>5, <2>1, <2>2
  <2> QED
    BY <2>1, <2>2, <2>3
<1> QED
  BY <1>9, <1>10, <1>11, <1>12, <1>13

LEMMA MadeKeeps ==
    ASSUME IInv, HandlesStay, NEW g \in Hosts, NEW s \in Sockets, Made(g, s)
    PROVE  /\ HostsKeepTheirHandle'
           /\ KeysAreUnique'
           /\ TablesHoldLiveHosts'
           /\ RegisteredHostsAreWatched'
           /\ RegisteredHostsAreFound'
<1>1. connMap \in ConnMaps /\ devMap \in DevMaps /\ object \in Objects
  BY DEF IInv, TypeOK, ConnMaps, DevMaps, Objects
<1>2. \A t \in Sockets : connMap'[t] = IF t = s THEN [host |-> g, reg |-> FALSE] ELSE connMap[t]
  BY <1>1 DEF Made, ConnMaps
<1>3. devMap' = devMap
  BY DEF Made
<1>4. \A h \in Hosts : object'[h] = IF h = g THEN "live" ELSE object[h]
  BY <1>1 DEF Made, Objects
<1>5. \A t \in Sockets : connMap[t].host # NoHost =>
          connMap[t].host \in Hosts /\ addr[connMap[t].host] = t /\ addr'[connMap[t].host] = t
  BY <1>1, DeviceRegistryAssumption DEF IInv, HostsKeepTheirHandle, HandlesStay, ConnMaps
<1>6. \A d \in Devices : devMap[d].host # NoHost =>
          /\ devMap[d].host \in Hosts /\ devMap[d].sock \in Sockets
          /\ addr[devMap[d].host] = devMap[d].sock /\ addr'[devMap[d].host] = devMap[d].sock
  BY <1>1, DeviceRegistryAssumption DEF IInv, HostsKeepTheirHandle, HandlesStay, DevMaps
<1>7. addr[g] = s /\ addr'[g] = s /\ g # NoHost
  BY DeviceRegistryAssumption, HostFacts DEF Made, HandlesStay
<1>8. \A d \in Devices : devMap[d].host # g
  BY <1>7 DEF Made, IInv, TablesHoldLiveHosts
<1>9. HostsKeepTheirHandle'
  BY <1>2, <1>3, <1>5, <1>6, <1>7 DEF HostsKeepTheirHandle, IInv
<1>10. KeysAreUnique'
  BY <1>2, <1>3, <1>8 DEF KeysAreUnique, IInv
<1>11. TablesHoldLiveHosts'
  BY <1>2, <1>3, <1>4, <1>5, <1>6 DEF TablesHoldLiveHosts, IInv
<1>12. RegisteredHostsAreWatched'
  <2> SUFFICES ASSUME NEW d \in Devices, devMap[d].host # NoHost, devMap[d].host \notin displaced'
               PROVE  connMap'[devMap[d].sock] = [host |-> devMap[d].host, reg |-> TRUE]
    BY <1>3 DEF RegisteredHostsAreWatched
  <2>1. displaced' = displaced \cup {k \in Hosts : connMap[s] = [host |-> k, reg |-> TRUE]}
    BY DEF Made
  <2>2. connMap[devMap[d].sock] = [host |-> devMap[d].host, reg |-> TRUE]
    BY <2>1 DEF IInv, RegisteredHostsAreWatched
  <2>3. devMap[d].sock # s
    BY <1>6, <2>1, <2>2
  <2> QED
    BY <1>2, <1>6, <2>2, <2>3
<1>13. RegisteredHostsAreFound'
  BY <1>2, <1>3 DEF RegisteredHostsAreFound, IInv
<1> QED
  BY <1>9, <1>10, <1>11, <1>12, <1>13

LEMMA AddedKeeps ==
    ASSUME IInv, HandlesStay, NEW s \in Sockets, Added(s)
    PROVE  /\ HostsKeepTheirHandle'
           /\ KeysAreUnique'
           /\ TablesHoldLiveHosts'
           /\ RegisteredHostsAreWatched'
           /\ RegisteredHostsAreFound'
<1> DEFINE h == connMap[s].host
           d == id[h]
           os == devMap[d].sock
           Gone(k) == os \in Sockets /\ k = connMap[os].host
<1>1. /\ h \in Hosts /\ d \in Devices /\ ~connMap[s].reg
      /\ connMap \in ConnMaps /\ devMap \in DevMaps /\ object \in Objects
  BY DEF Added, IInv, TypeOK, ConnMaps, DevMaps, Objects
<1>2. devMap[d].host = NoHost => os \notin Sockets
  BY <1>1, DeviceRegistryAssumption DEF IInv, HostsKeepTheirHandle
<1>3. \A t \in Sockets : connMap'[t] = IF t = os THEN NoConn
                                       ELSE IF t = s THEN [host |-> h, reg |-> TRUE] ELSE connMap[t]
  <2>1. CASE devMap[d].host = NoHost
    <3>1. connMap' = [t \in Sockets |-> IF t = s THEN [host |-> h, reg |-> TRUE] ELSE connMap[t]]
      BY <2>1, HostFacts DEF Added
    <3> QED
      BY <1>2, <2>1, <3>1
  <2>2. CASE devMap[d].host # NoHost
    <3>1. connMap' = [t \in Sockets |-> IF t = os THEN NoConn
                                        ELSE IF t = s THEN [host |-> h, reg |-> TRUE] ELSE connMap[t]]
      BY <2>2 DEF Added
    <3> QED
      BY <3>1
  <2> QED
    BY <2>1, <2>2
<1>4. \A e \in Devices : devMap'[e] = IF e = d THEN [host |-> h, sock |-> s]
                                      ELSE IF Gone(devMap[e].host) /\ devMap[e].host # NoHost
                                           THEN NoDev ELSE devMap[e]
  <2>1. CASE devMap[d].host = NoHost
    <3>1. devMap' = [e \in Devices |-> IF e = d THEN [host |-> h, sock |-> s] ELSE devMap[e]]
      BY <2>1, HostFacts DEF Added
    <3> QED
      BY <1>2, <2>1, <3>1
  <2>2. CASE devMap[d].host # NoHost
    <3>1. /\ os \in Sockets
          /\ devMap' = [e \in Devices |-> IF e = d THEN [host |-> h, sock |-> s]
                                          ELSE IF connMap[os].host # NoHost /\ devMap[e].host = connMap[os].host
                                               THEN NoDev ELSE devMap[e]]
      BY <2>2 DEF Added
    <3> QED
      BY <3>1
  <2> QED
    BY <2>1, <2>2
<1>5. \A k \in Hosts : object'[k] = IF Gone(k) /\ InDevMap(k) THEN "deleted" ELSE object[k]
  BY <1>1, <1>2 DEF Added
<1>6. \A t \in Sockets : connMap[t].host # NoHost =>
          connMap[t].host \in Hosts /\ addr[connMap[t].host] = t /\ addr'[connMap[t].host] = t
  BY <1>1, DeviceRegistryAssumption DEF IInv, HostsKeepTheirHandle, HandlesStay, ConnMaps
<1>7. \A e \in Devices : devMap[e].host # NoHost =>
          /\ devMap[e].host \in Hosts /\ devMap[e].sock \in Sockets
          /\ addr[devMap[e].host] = devMap[e].sock /\ addr'[devMap[e].host] = devMap[e].sock
  BY <1>1, DeviceRegistryAssumption DEF IInv, HostsKeepTheirHandle, HandlesStay, DevMaps
<1>8. \A e \in Devices : devMap[e].host = NoHost => devMap[e].sock = NoSocket
  BY DEF IInv, HostsKeepTheirHandle
<1>9. \A e \in Devices : devMap[e].host # h
  BY <1>1, HostFacts DEF IInv, KeysAreUnique
<1>10. \A t \in Sockets : t # os => ~(connMap[t].host # NoHost /\ Gone(connMap[t].host))
  BY <1>6
<1>11. h # NoHost /\ addr'[h] = s
  BY <1>1, <1>6, HostFacts
<1>12. object[h] = "live"
  BY <1>11 DEF IInv, TablesHoldLiveHosts
<1>13. \A t \in Sockets : t # s => connMap[t].host # h
  BY <1>6, <1>11
<1> HIDE DEF h, d, os
<1>14. HostsKeepTheirHandle'
  <2>1. \A t \in Sockets : connMap'[t].host # NoHost => addr'[connMap'[t].host] = t
    BY <1>3, <1>6, <1>11 DEF NoConn
  <2>2. \A t \in Sockets : connMap'[t].reg => connMap'[t].host # NoHost
    BY <1>3, <1>11 DEF IInv, HostsKeepTheirHandle, NoConn
  <2>3. \A e \in Devices :
            IF devMap'[e].host = NoHost
            THEN devMap'[e].sock = NoSocket
            ELSE devMap'[e].sock \in Sockets /\ addr'[devMap'[e].host] = devMap'[e].sock
    BY <1>4, <1>7, <1>8, <1>11 DEF NoDev
  <2> QED
    BY <2>1, <2>2, <2>3 DEF HostsKeepTheirHandle
<1>15. KeysAreUnique'
  <2>1. \A e, f \in Devices : devMap'[e].host # NoHost /\ devMap'[e].host = devMap'[f].host => e = f
    BY <1>4, <1>9 DEF IInv, KeysAreUnique, NoDev
  <2>2. \A t \in Sockets, e \in Devices :
            connMap'[t].host # NoHost /\ ~connMap'[t].reg => devMap'[e].host # connMap'[t].host
    <3> SUFFICES ASSUME NEW t \in Sockets, NEW e \in Devices, connMap'[t].host # NoHost, ~connMap'[t].reg
                 PROVE  devMap'[e].host # connMap'[t].host
      OBVIOUS
    <3>1. t # os /\ t # s /\ connMap'[t] = connMap[t]
      BY <1>3 DEF NoConn
    <3>2. devMap[e].host # connMap[t].host /\ connMap[t].host # h
      BY <1>13, <3>1 DEF IInv, KeysAreUnique
    <3> QED
      BY <1>4, <3>1, <3>2 DEF NoDev
  <2> QED
    BY <2>1, <2>2 DEF KeysAreUnique
<1>16. TablesHoldLiveHosts'
  <2>1. object'[h] = "live"
    BY <1>1, <1>5, <1>9, <1>12 DEF InDevMap
  <2>2. \A t \in Sockets : connMap'[t].host # NoHost => object'[connMap'[t].host] = "live"
    <3> SUFFICES ASSUME NEW t \in Sockets, connMap'[t].host # NoHost
                 PROVE  object'[connMap'[t].host] = "live"
      OBVIOUS
    <3>1. CASE t = s
      BY <1>3, <2>1, <3>1 DEF NoConn
    <3>2. CASE t # s
      <4>1. t # os /\ connMap'[t] = connMap[t]
        BY <1>3, <3>2 DEF NoConn
      <4> QED
        BY <1>5, <1>6, <1>10, <4>1 DEF IInv, TablesHoldLiveHosts
    <3> QED
      BY <3>1, <3>2
  <2>3. \A e \in Devices : devMap'[e].host # NoHost => object'[devMap'[e].host] = "live"
    <3> SUFFICES ASSUME NEW e \in Devices, devMap'[e].host # NoHost
                 PROVE  object'[devMap'[e].host] = "live"
      OBVIOUS
    <3>1. CASE e = d
      BY <1>4, <2>1, <3>1
    <3>2. CASE e # d
      <4>1. devMap'[e] = devMap[e] /\ ~Gone(devMap[e].host)
        BY <1>4, <3>2 DEF NoDev
      <4> QED
        BY <1>5, <1>7, <4>1 DEF IInv, TablesHoldLiveHosts
    <3> QED
      BY <3>1, <3>2
  <2> QED
    BY <2>2, <2>3 DEF TablesHoldLiveHosts
<1>17. displaced' = IF os = s THEN displaced \cup {h} ELSE displaced
  <2>1. CASE devMap[d].host = NoHost
    <3>1. os # s
      BY <1>2, <2>1
    <3> QED
      BY <2>1, <3>1, HostFacts DEF Added, h, d, os
  <2>2. CASE devMap[d].host # NoHost
    BY <2>2 DEF Added, h, d, os
  <2> QED
    BY <2>1, <2>2
<1>18. RegisteredHostsAreWatched'
  <2> SUFFICES ASSUME NEW e \in Devices, devMap'[e].host # NoHost, devMap'[e].host \notin displaced'
               PROVE  connMap'[devMap'[e].sock] = [host |-> devMap'[e].host, reg |-> TRUE]
    BY DEF RegisteredHostsAreWatched
  <2>1. CASE e = d
    <3>1. devMap'[e] = [host |-> h, sock |-> s]
      BY <1>4, <2>1
    <3>2. os # s
      BY <1>17, <3>1
    <3>3. connMap'[s] = [host |-> h, reg |-> TRUE]
      BY <1>3, <3>2
    <3> QED
      BY <3>1, <3>3
  <2>2. CASE e # d
    <3>1. devMap'[e] = devMap[e] /\ ~Gone(devMap[e].host)
      BY <1>4, <2>2 DEF NoDev
    <3>2. connMap[devMap[e].sock] = [host |-> devMap[e].host, reg |-> TRUE] /\ devMap[e].sock \in Sockets
      BY <1>7, <1>17, <3>1 DEF IInv, RegisteredHostsAreWatched
    <3>3. devMap[e].sock # os /\ devMap[e].sock # s
      BY <1>1, <3>1, <3>2
    <3> QED
      BY <1>3, <3>1, <3>2, <3>3
  <2> QED
    BY <2>1, <2>2
<1>19. RegisteredHostsAreFound'
  <2> SUFFICES ASSUME NEW t \in Sockets, connMap'[t].reg
               PROVE  \E e \in Devices : devMap'[e] = [host |-> connMap'[t].host, sock |-> t]
    BY DEF RegisteredHostsAreFound
  <2>1. t # os
    BY <1>3 DEF NoConn
  <2>2. CASE t = s
    BY <1>1, <1>3, <1>4, <2>1, <2>2
  <2>3. CASE t # s
    <3>1. connMap'[t] = connMap[t]
      BY <1>3, <2>1, <2>3
    <3>2. PICK e \in Devices : devMap[e] = [host |-> connMap[t].host, sock |-> t]
      BY <3>1 DEF IInv, RegisteredHostsAreFound
    <3>3. e # d
      BY <2>1, <3>2 DEF os
    <3>4. devMap'[e] = devMap[e]
      BY <1>4, <1>10, <2>1, <3>2, <3>3
    <3> QED
      BY <3>1, <3>2, <3>4
  <2> QED
    BY <2>2, <2>3
<1> QED
  BY <1>14, <1>15, <1>16, <1>18, <1>19

LEMMA TablesStayKeeps ==
    ASSUME IInv, HandlesStay, TablesStay
    PROVE  /\ HostsKeepTheirHandle'
           /\ KeysAreUnique'
           /\ TablesHoldLiveHosts'
           /\ RegisteredHostsAreWatched'
           /\ RegisteredHostsAreFound'
<1>1. connMap \in ConnMaps /\ devMap \in DevMaps
  BY DEF IInv, TypeOK, ConnMaps, DevMaps
<1>2. \A t \in Sockets : connMap[t].host # NoHost => addr'[connMap[t].host] = t
  BY <1>1, DeviceRegistryAssumption DEF IInv, HostsKeepTheirHandle, HandlesStay, ConnMaps
<1>3. \A d \in Devices : devMap[d].host # NoHost => addr'[devMap[d].host] = devMap[d].sock
  BY <1>1, DeviceRegistryAssumption DEF IInv, HostsKeepTheirHandle, HandlesStay, DevMaps
<1>4. HostsKeepTheirHandle'
  BY <1>2, <1>3 DEF IInv, HostsKeepTheirHandle, TablesStay
<1>5. KeysAreUnique'
  BY DEF IInv, KeysAreUnique, TablesStay
<1>6. TablesHoldLiveHosts'
  BY DEF IInv, TablesHoldLiveHosts, TablesStay
<1>7. RegisteredHostsAreWatched'
  BY DEF IInv, RegisteredHostsAreWatched, TablesStay
<1>8. RegisteredHostsAreFound'
  BY DEF IInv, RegisteredHostsAreFound, TablesStay
<1> QED
  BY <1>4, <1>5, <1>6, <1>7, <1>8

\* Whatever a step does to the tables, they keep together.
LEMMA NextTables ==
    ASSUME IInv, [Next]_vars
    PROVE  /\ HostsKeepTheirHandle'
           /\ KeysAreUnique'
           /\ TablesHoldLiveHosts'
           /\ RegisteredHostsAreWatched'
           /\ RegisteredHostsAreFound'
BY TableSteps, TablesStayKeeps, RemovedKeeps, AddedKeeps, MadeKeeps DEF TablesStep

-------------------------------------------------------------------------------

(***************************************************************************)
(* Types, threads and new hosts.                                           *)
(***************************************************************************)

ThreadRecords ==
    [at : {"idle", "accepted", "create", "post", "handle", "upload", "broken", "deluser", "close"},
     sock : Sockets \cup {NoSocket}, host : Hosts \cup {NoHost}, id : Devices \cup {NoDevice}]

LEMMA TablesTyped ==
    ASSUME IInv, [Next]_vars
    PROVE  /\ connMap' \in ConnMaps
           /\ devMap' \in DevMaps
           /\ object' \in Objects
           /\ displaced' \in SUBSET Hosts
<1>1. connMap \in ConnMaps /\ devMap \in DevMaps /\ object \in Objects /\ displaced \in SUBSET Hosts
  BY DEF IInv, TypeOK, ConnMaps, DevMaps, Objects
<1>2. NoConn \in [host : Hosts \cup {NoHost}, reg : BOOLEAN]
  BY DEF NoConn
<1>3. NoDev \in [host : Hosts \cup {NoHost}, sock : Sockets \cup {NoSocket}]
  BY DEF NoDev
<1>4. CASE TablesStay
  BY <1>1, <1>4 DEF TablesStay
<1>5. ASSUME NEW s \in Sockets, Removed(s)
      PROVE  /\ connMap' \in ConnMaps /\ devMap' \in DevMaps /\ object' \in Objects
             /\ displaced' \in SUBSET Hosts
  BY <1>1, <1>2, <1>3, <1>5 DEF Removed, ConnMaps, DevMaps, Objects
<1>6. ASSUME NEW s \in Sockets, Added(s)
      PROVE  /\ connMap' \in ConnMaps /\ devMap' \in DevMaps /\ object' \in Objects
             /\ displaced' \in SUBSET Hosts
  <2> DEFINE h == connMap[s].host
             d == id[h]
             os == devMap[d].sock
             x == connMap[os].host
             hc == [host |-> h, reg |-> TRUE]
             hd == [host |-> h, sock |-> s]
  <2>1. /\ hc \in [host : Hosts \cup {NoHost}, reg : BOOLEAN]
        /\ hd \in [host : Hosts \cup {NoHost}, sock : Sockets \cup {NoSocket}]
    BY <1>6 DEF Added
  <2>2. CASE devMap[d].host = NoHost
    <3>1. /\ connMap' = [t \in Sockets |-> IF t = s THEN hc ELSE connMap[t]]
          /\ devMap' = [e \in Devices |-> IF e = d THEN hd ELSE devMap[e]]
          /\ object' = object /\ displaced' = displaced
      BY <1>6, <2>2, HostFacts DEF Added
    <3> HIDE DEF h, d, hc, hd
    <3> QED
      BY <1>1, <2>1, <3>1 DEF ConnMaps, DevMaps
  <2>3. CASE devMap[d].host # NoHost
    <3>1. /\ connMap' = [t \in Sockets |-> IF t = os THEN NoConn ELSE IF t = s THEN hc ELSE connMap[t]]
          /\ devMap' = [e \in Devices |-> IF e = d THEN hd
                                          ELSE IF x # NoHost /\ devMap[e].host = x THEN NoDev ELSE devMap[e]]
          /\ object' = [k \in Hosts |-> IF k = x /\ InDevMap(k) THEN "deleted" ELSE object[k]]
          /\ displaced' = IF os = s THEN displaced \cup {h} ELSE displaced
          /\ h \in Hosts
      BY <1>6, <2>3 DEF Added
    <3> HIDE DEF h, d, os, x, hc, hd
    <3>2. connMap' \in ConnMaps
      BY <1>1, <1>2, <2>1, <3>1 DEF ConnMaps
    <3>3. devMap' \in DevMaps
      BY <1>1, <1>3, <2>1, <3>1 DEF DevMaps
    <3>4. object' \in Objects
      BY <1>1, <3>1 DEF Objects
    <3>5. displaced' \in SUBSET Hosts
      BY <1>1, <3>1
    <3> QED
      BY <3>2, <3>3, <3>4, <3>5
  <2> QED
    BY <2>2, <2>3
<1>7. ASSUME NEW g \in Hosts, NEW s \in Sockets, Made(g, s)
      PROVE  /\ connMap' \in ConnMaps /\ devMap' \in DevMaps /\ object' \in Objects
             /\ displaced' \in SUBSET Hosts
  BY <1>1, <1>7 DEF Made, ConnMaps, DevMaps, Objects
<1> QED
  BY <1>4, <1>5, <1>6, <1>7, TableSteps DEF TablesStep

LEMMA AtTyped ==
    ASSUME NEW what \in {"idle", "accepted", "create", "post", "handle", "upload", "broken",
                         "deluser", "close"},
           NEW s \in Sockets \cup {NoSocket}, NEW h \in Hosts \cup {NoHost},
           NEW d \in Devices \cup {NoDevice}
    PROVE  /\ At(what, s, h, d) \in ThreadRecords
           /\ Idle \in ThreadRecords
BY DEF At, Idle, ThreadRecords

\* The part of TypeOK that is not about the tables.
RestTyped ==
    /\ handle \in [Sockets -> Hosts \cup {NoHost}]
    /\ addr \in [Hosts -> Sockets \cup {NoSocket}]
    /\ up \in SUBSET Hosts
    /\ calls \in [Hosts -> 0 .. MaxCalls]
    /\ users \in SUBSET Sockets
    /\ device \in [Hosts -> Devices \cup {NoDevice}]
    /\ id \in [Hosts -> Devices \cup {NoDevice}]
    /\ ready \in [Hosts -> BOOLEAN]
    /\ silent \in SUBSET Hosts
    /\ thread \in [Threads -> ThreadRecords]
    /\ locker \in {"fine", "stuck"}
    /\ userLocker \in {"fine", "kept"}
    /\ uploads \in 0 .. MaxUploads
    /\ silences \in 0 .. MaxSilences

LEMMA RestTypedFacts ==
    /\ IInv => RestTyped
    /\ RestTyped /\ connMap \in ConnMaps /\ devMap \in DevMaps /\ object \in Objects
           /\ displaced \in SUBSET Hosts => TypeOK
BY DEF IInv, TypeOK, RestTyped, ThreadRecords, ConnMaps, DevMaps, Objects

LEMMA NextRestTyped ==
    ASSUME IInv, [Next]_vars
    PROVE  RestTyped'
<1> USE DeviceRegistryAssumption
<1>0. RestTyped
  BY RestTypedFacts
<1>1. CASE UNCHANGED vars
  BY <1>0, <1>1 DEF RestTyped, vars, netVars, hostVars, lockVars, pastVars
<1>2. ASSUME NEW h \in Hosts, NEW s \in Sockets, Accept(h, s)
      PROVE  RestTyped'
  <2>1. At("accepted", s, h, NoDevice) \in ThreadRecords
    BY AtTyped
  <2> QED
    BY <1>0, <1>2, <2>1 DEF Accept, Doing, RestTyped, hostVars, lockVars, pastVars
<1>3. ASSUME NEW h \in Hosts, OnRead(h)
      PROVE  RestTyped'
  <2>1. PICK d \in Devices \cup {NoDevice} :
            /\ device' = IF d = NoDevice THEN device ELSE [device EXCEPT ![h] = d]
            /\ IF connMap[addr[h]].host = NoHost
               THEN UNCHANGED thread
               ELSE thread' = [thread EXCEPT !["worker"] = At("handle", addr[h], connMap[addr[h]].host, d)]
    BY <1>3 DEF OnRead
  <2>2. addr[h] \in Sockets \cup {NoSocket} /\ calls[h] \in Nat /\ calls[h] > 0
    BY <1>0, <1>3 DEF RestTyped, OnRead
  <2>3. thread' \in [Threads -> ThreadRecords]
    <3>1. CASE connMap[addr[h]].host = NoHost
      BY <1>0, <2>1, <3>1 DEF RestTyped
    <3>2. CASE connMap[addr[h]].host # NoHost
      <4>1. addr[h] \in Sockets
        BY <1>3 DEF OnRead, IInv, NewHostsAreUntouched, TypeOK
      <4>2. connMap[addr[h]].host \in Hosts \cup {NoHost}
        BY <4>1 DEF IInv, TypeOK
      <4>3. At("handle", addr[h], connMap[addr[h]].host, d) \in ThreadRecords
        BY <4>1, <4>2, AtTyped
      <4> QED
        BY <1>0, <2>1, <3>2, <4>3 DEF RestTyped
    <3> QED
      BY <3>1, <3>2
  <2>4. device' \in [Hosts -> Devices \cup {NoDevice}]
    BY <1>0, <2>1 DEF RestTyped
  <2>5. calls' \in [Hosts -> 0 .. MaxCalls]
    BY <1>0, <1>3 DEF RestTyped, OnRead
  <2> QED
    BY <1>0, <1>3, <2>3, <2>4, <2>5 DEF OnRead, RestTyped, hostVars, mapVars, lockVars, pastVars
<1>4. ASSUME NEW h \in Hosts, Fail(h)
      PROVE  RestTyped'
  <2>1. thread' \in [Threads -> ThreadRecords]
    <3>1. CASE UNCHANGED thread
      BY <1>0, <3>1 DEF RestTyped
    <3>2. CASE addr[h] \in users /\ Doing("worker", "broken", addr[h], NoHost)
      <4>1. addr[h] \in Sockets
        BY <1>0, <3>2 DEF RestTyped
      <4>2. At("broken", addr[h], NoHost, NoDevice) \in ThreadRecords
        BY <4>1, AtTyped
      <4> QED
        BY <1>0, <3>2, <4>2 DEF RestTyped, Doing
    <3> QED
      BY <1>4, <3>1, <3>2 DEF Fail
  <2>2. calls' \in [Hosts -> 0 .. MaxCalls]
    BY <1>0, <1>4 DEF RestTyped, Fail
  <2> QED
    BY <1>0, <1>4, <2>1, <2>2 DEF Fail, RestTyped, hostVars, mapVars, lockVars, pastVars
<1>5. ASSUME NEW h \in Hosts, PeerGone(h) \/ Silence(h)
      PROVE  RestTyped'
  BY <1>0, <1>5 DEF PeerGone, Silence, RestTyped, netVars, hostVars, lockVars, pastVars
<1>6. CASE AddUser \/ CreateDevObj
  <2>1. \A at \in {"create", "post"}, h \in Hosts \cup {NoHost} :
            At(at, thread["listener"].sock, h, NoDevice) \in ThreadRecords
    BY <1>0, AtTyped DEF RestTyped, Threads, ThreadRecords
  <2>2. thread["listener"].host \in Hosts \cup {NoHost} /\ thread["listener"].sock \in Sockets
    BY <1>0, <1>6 DEF RestTyped, Threads, ThreadRecords, IInv, ThreadsFit, AddUser, CreateDevObj
  <2>3. thread' \in [Threads -> ThreadRecords]
    BY <1>0, <1>6, <2>1, <2>2 DEF RestTyped, AddUser, CreateDevObj, Doing
  <2> QED
    BY <1>0, <1>6, <2>2, <2>3 DEF AddUser, CreateDevObj, RestTyped, netVars, hostVars, lockVars, pastVars
<1>7. CASE ParserRequest
  <2>1. /\ thread["worker"].host \in Hosts
        /\ thread["worker"].id \in Devices \cup {NoDevice}
        /\ At("post", thread["worker"].sock, NoHost, NoDevice) \in ThreadRecords
    BY <1>0, <1>7, AtTyped DEF ParserRequest, RestTyped, IInv, ThreadsFit, Threads, ThreadRecords
  <2> QED
    BY <1>0, <1>7, <2>1 DEF ParserRequest, Doing, RestTyped, netVars, lockVars, pastVars
<1>8. ASSUME NEW t \in Threads, ThreadStep(t)
      PROVE  RestTyped'
  <2>0. /\ thread[t].sock \in Sockets
        /\ Idle \in ThreadRecords
        /\ \A at \in {"broken", "deluser", "close"} : At(at, thread[t].sock, NoHost, NoDevice) \in ThreadRecords
    <3>1. thread[t].sock \in Sockets
      BY <1>8 DEF ThreadStep, Post, BrokenRelease, BrokenDelUser, BrokenClose, IInv, ThreadsFit
    <3> QED
      BY <3>1, AtTyped
  <2>1. CASE Post(t)
    <3>1. thread' \in [Threads -> ThreadRecords]
      BY <1>0, <2>0, <2>1 DEF Post, Doing, Done, RestTyped
    <3>2. calls' \in [Hosts -> 0 .. MaxCalls]
      <4>1. CASE UNCHANGED calls
        BY <1>0, <4>1 DEF RestTyped
      <4>2. CASE calls[handle[thread[t].sock]] < MaxCalls /\ handle[thread[t].sock] # NoHost
                 /\ calls' = [calls EXCEPT ![handle[thread[t].sock]] = @ + 1]
        <5>1. handle[thread[t].sock] \in Hosts
          BY <1>0, <2>0, <4>2 DEF RestTyped
        <5> QED
          BY <1>0, <4>2, <5>1 DEF RestTyped
      <4> QED
        BY <2>1, <4>1, <4>2 DEF Post
    <3> QED
      BY <1>0, <2>1, <3>1, <3>2 DEF Post, RestTyped, hostVars, lockVars, pastVars
  <2>2. CASE BrokenRelease(t)
    BY <1>0, <2>0, <2>2 DEF BrokenRelease, Doing, RestTyped, netVars, lockVars, pastVars
  <2>3. CASE BrokenDelUser(t) \/ BrokenClose(t)
    BY <1>0, <2>0, <2>3 DEF BrokenDelUser, BrokenClose, CloseSocket, Doing, Done, RestTyped, hostVars,
                            lockVars, pastVars
  <2> QED
    BY <1>8, <2>1, <2>2, <2>3 DEF ThreadStep
<1>9. ASSUME NEW s \in Sockets, Timer(s)
      PROVE  RestTyped'
  <2>1. \A o : CloseSocket(o) => handle' \in [Sockets -> Hosts \cup {NoHost}] /\ up' \in SUBSET Hosts
    BY <1>0 DEF CloseSocket, RestTyped
  <2>2. CASE CheckNew(s)
    <3>1. handle' \in [Sockets -> Hosts \cup {NoHost}] /\ up' \in SUBSET Hosts
      BY <1>0, <2>1, <2>2 DEF CheckNew, RestTyped
    <3> QED
      BY <1>0, <2>2, <3>1 DEF CheckNew, RestTyped, lockVars
  <2>3. CASE CheckOld(s)
    BY <1>0, <2>1, <2>3 DEF CheckOld, RestTyped, pastVars
  <2>4. CASE CheckUnready(s)
    BY <1>0, <2>4 DEF CheckUnready, RestTyped, netVars, lockVars, pastVars
  <2> QED
    BY <1>9, <2>2, <2>3, <2>4 DEF Timer
<1>10. CASE SentData
  <2>1. thread' \in [Threads -> ThreadRecords]
    <3>1. addr[thread["client"].host] \in Sockets
      BY <1>10 DEF SentData, IInv, ThreadsFit
    <3>2. At("post", addr[thread["client"].host], NoHost, NoDevice) \in ThreadRecords /\ Idle \in ThreadRecords
      BY <3>1, AtTyped
    <3> QED
      BY <1>0, <1>10, <3>2 DEF SentData, Doing, Done, RestTyped
  <2> QED
    BY <1>0, <1>10, <2>1 DEF SentData, RestTyped, netVars, hostVars, lockVars, pastVars
<1>11. ASSUME NEW d \in Devices, GetDeviceObj(d)
       PROVE  RestTyped'
  <2>1. thread' \in [Threads -> ThreadRecords]
    <3>1. devMap[d].host \in Hosts \cup {NoHost}
      BY DEF IInv, TypeOK
    <3>2. At("upload", NoSocket, devMap[d].host, NoDevice) \in ThreadRecords
      BY <3>1, AtTyped
    <3> QED
      BY <1>0, <1>11, <3>2 DEF GetDeviceObj, Doing, RestTyped
  <2> QED
    BY <1>0, <1>11, <2>1 DEF GetDeviceObj, RestTyped, netVars, hostVars, lockVars, pastVars
<1> QED
  BY <1>1, <1>2, <1>3, <1>4, <1>5, <1>6, <1>7, <1>8, <1>9, <1>10, <1>11 DEF Next

LEMMA NextTypeOK ==
    ASSUME IInv, [Next]_vars
    PROVE  TypeOK'
<1>1. RestTyped' /\ connMap' \in ConnMaps /\ devMap' \in DevMaps /\ object' \in Objects
      /\ displaced' \in SUBSET Hosts
  BY NextRestTyped, TablesTyped
<1> QED
  BY <1>1 DEF TypeOK, RestTyped, ThreadRecords, ConnMaps, DevMaps, Objects

\* What a thread turns to, and why its handle and its host are there.
LEMMA NextThreadsFit ==
    ASSUME IInv, [Next]_vars
    PROVE  ThreadsFit'
<1>0. /\ thread \in [Threads -> ThreadRecords] /\ Threads = {"worker", "listener", "client"}
      /\ TypeOK /\ ThreadsFit /\ HandlesStay /\ addr \in [Hosts -> Sockets \cup {NoSocket}]
      /\ NoSocket \notin Sockets
  BY TableSteps, DeviceRegistryAssumption DEF IInv, TypeOK, ThreadRecords, Threads
<1>1. ASSUME thread' = thread
      PROVE  ThreadsFit'
  BY <1>0, <1>1 DEF ThreadsFit, HandlesStay
<1>2. ASSUME NEW h \in Hosts, NEW s \in Sockets, Accept(h, s)
      PROVE  ThreadsFit'
  BY <1>0, <1>2 DEF Accept, Doing, At, ThreadsFit, HandlesStay
<1>3. ASSUME NEW h \in Hosts, OnRead(h)
      PROVE  ThreadsFit'
  <2>1. addr[h] \in Sockets /\ connMap[addr[h]].host \in Hosts \cup {NoHost} /\ addr' = addr
    BY <1>0, <1>3 DEF OnRead, IInv, NewHostsAreUntouched, TypeOK
  <2>2. CASE thread' = thread
    BY <1>1, <2>2
  <2>3. CASE \E d \in Devices \cup {NoDevice} :
                 /\ connMap[addr[h]].host # NoHost
                 /\ thread' = [thread EXCEPT !["worker"] = At("handle", addr[h], connMap[addr[h]].host, d)]
    BY <1>0, <2>1, <2>3 DEF At, ThreadsFit
  <2> QED
    BY <1>3, <2>2, <2>3 DEF OnRead
<1>4. ASSUME NEW h \in Hosts, Fail(h)
      PROVE  ThreadsFit'
  <2>1. CASE thread' = thread
    BY <1>1, <2>1
  <2>2. CASE addr[h] \in users /\ Doing("worker", "broken", addr[h], NoHost)
    BY <1>0, <1>4, <2>2 DEF Fail, Doing, At, ThreadsFit, TypeOK
  <2> QED
    BY <1>4, <2>1, <2>2 DEF Fail
<1>5. CASE AddUser \/ CreateDevObj \/ ParserRequest
  <2>1. addr' = addr
    BY <1>5 DEF AddUser, CreateDevObj, ParserRequest, netVars
  <2>2. CASE AddUser
    BY <1>0, <2>1, <2>2 DEF AddUser, Doing, At, ThreadsFit
  <2>3. CASE CreateDevObj
    BY <1>0, <2>1, <2>3 DEF CreateDevObj, Doing, At, ThreadsFit
  <2>4. CASE ParserRequest
    BY <1>0, <2>1, <2>4 DEF ParserRequest, Doing, At, ThreadsFit
  <2> QED
    BY <1>5, <2>2, <2>3, <2>4
<1>6. ASSUME NEW t \in Threads, ThreadStep(t)
      PROVE  ThreadsFit'
  <2>1. \/ thread' = [thread EXCEPT ![t] = Idle]
        \/ \E at \in {"broken", "deluser", "close"} :
               thread' = [thread EXCEPT ![t] = At(at, thread[t].sock, NoHost, NoDevice)]
    BY <1>0, <1>6 DEF ThreadStep, Post, BrokenRelease, BrokenDelUser, BrokenClose, Doing, Done, netVars,
                      ThreadsFit
  <2>2. addr' = addr /\ thread[t].sock \in Sockets
    BY <1>0, <1>6 DEF ThreadStep, Post, BrokenRelease, BrokenDelUser, BrokenClose, netVars, ThreadsFit
  <2> QED
    BY <1>0, <2>1, <2>2 DEF Idle, At, ThreadsFit
<1>7. CASE SentData
  <2>1. addr' = addr /\ addr[thread["client"].host] \in Sockets
    BY <1>0, <1>7 DEF SentData, netVars, ThreadsFit
  <2> QED
    BY <1>0, <1>7, <2>1 DEF SentData, Doing, Done, Idle, At, ThreadsFit
<1>8. ASSUME NEW d \in Devices, GetDeviceObj(d)
      PROVE  ThreadsFit'
  <2>1. /\ addr' = addr
        /\ devMap[d].host \in Hosts
        /\ addr[devMap[d].host] \in Sockets
    BY <1>0, <1>8 DEF GetDeviceObj, netVars, IInv, HostsKeepTheirHandle, TypeOK
  <2> QED
    BY <1>0, <1>8, <2>1 DEF GetDeviceObj, Doing, At, ThreadsFit
<1>9. ASSUME NEW h \in Hosts, PeerGone(h) \/ Silence(h)
      PROVE  thread' = thread
  BY <1>9 DEF PeerGone, Silence
<1>10. ASSUME NEW s \in Sockets, Timer(s)
       PROVE  thread' = thread
  BY <1>10 DEF Timer, CheckNew, CheckOld, CheckUnready
<1>11. UNCHANGED vars => thread' = thread
  BY DEF vars
<1> QED
  BY <1>1, <1>2, <1>3, <1>4, <1>5, <1>6, <1>7, <1>8, <1>9, <1>10, <1>11 DEF Next

\* Only Made makes a host, and a host that is not made is in no table.
LEMMA NewObjects ==
    ASSUME IInv, [Next]_vars, NEW h \in Hosts, object[h] = "none"
    PROVE  object'[h] = "none" \/ (CreateDevObj /\ h = thread["listener"].host)
<1>1. ~InDevMap(h)
  BY DEF IInv, TablesHoldLiveHosts, InDevMap, Hosts, NoHost
<1>2. CASE TablesStay
  BY <1>2 DEF TablesStay
<1>3. ASSUME NEW s \in Sockets, Removed(s) \/ Added(s)
      PROVE  object'[h] = "none"
  BY <1>1, <1>3 DEF Removed, Added
<1>4. ASSUME NEW g \in Hosts, NEW s \in Sockets, Made(g, s)
      PROVE  object'[h] = "none" \/ (CreateDevObj /\ h = thread["listener"].host)
  <2>1. object' = [object EXCEPT ![g] = "live"] /\ object \in Objects /\ object[g] = "none"
    BY <1>4 DEF Made, IInv, TypeOK, Objects
  <2>2. object'[g] = "live"
    BY <2>1 DEF Objects
  <2>3. CASE h # g
    BY <2>1, <2>3 DEF Objects
  <2>4. CASE h = g
    <3>1. ~InDevMap(g)
      BY <1>1, <2>4
    <3>2. ASSUME NEW t \in Sockets, CheckNew(t) \/ CheckOld(t)
          PROVE  FALSE
      <4>1. Added(t) \/ Removed(t)
        BY <3>2, CheckNewFacts, CheckOldFacts
      <4> QED
        BY <2>1, <2>2, <3>1, <4>1 DEF Added, Removed
    <3>3. ASSUME NEW t \in Threads, BrokenRelease(t)
          PROVE  FALSE
      <4>1. UNCHANGED object \/ Removed(thread[t].sock)
        BY <3>3, BrokenReleaseFacts DEF IInv, ThreadsFit, BrokenRelease
      <4> QED
        BY <2>1, <2>2, <3>1, <4>1 DEF Removed
    <3>4. object' # object
      BY <2>1, <2>2
    <3>5. CreateDevObj
      BY <3>2, <3>3, <3>4 DEF Next, vars, hostVars, Accept, OnRead, Fail, PeerGone, Silence, AddUser,
            ParserRequest, SentData, GetDeviceObj, ThreadStep, Post, BrokenDelUser, BrokenClose, Timer,
            CheckUnready
    <3>6. object' = [object EXCEPT ![thread["listener"].host] = "live"]
      BY <3>5 DEF CreateDevObj
    <3>7. g = thread["listener"].host
      BY <2>1, <2>2, <3>6 DEF Objects
    <3> QED
      BY <2>4, <3>5, <3>7
  <2> QED
    BY <2>3, <2>4
<1> QED
  BY <1>2, <1>3, <1>4, TableSteps DEF TablesStep

LEMMA NextNew ==
    ASSUME IInv, [Next]_vars
    PROVE  NewHostsAreUntouched'
<1>0. /\ TypeOK /\ HandlesStay /\ NewHostsAreUntouched
      /\ addr \in [Hosts -> Sockets \cup {NoSocket}] /\ NoSocket \notin Sockets
      /\ thread \in [Threads -> ThreadRecords] /\ "listener" \in Threads
  BY TableSteps, DeviceRegistryAssumption DEF IInv, TypeOK, ThreadRecords, Threads
<1>1. ASSUME NEW h \in Hosts, addr'[h] = NoSocket
      PROVE  object'[h] = "none" /\ h \notin up'
  <2>1. addr[h] = NoSocket /\ object[h] = "none" /\ h \notin up
    BY <1>0, <1>1 DEF HandlesStay, NewHostsAreUntouched
  <2>2. object'[h] = "none"
    <3>1. ~(CreateDevObj /\ h = thread["listener"].host)
      BY <1>0, <2>1, CreateDevObjFacts DEF Made
    <3> QED
      BY <2>1, <3>1, NewObjects
  <2>3. h \notin up'
    <3>1. ASSUME NEW g \in Hosts, NEW s \in Sockets, Accept(g, s)
          PROVE  h \notin up'
      BY <1>0, <1>1, <2>1, <3>1 DEF Accept
    <3>2. (\A g \in Hosts, s \in Sockets : ~Accept(g, s)) => up' \subseteq up
      BY DEF Next, vars, netVars, OnRead, Fail, PeerGone, Silence, AddUser, CreateDevObj, CloseSocket,
             ParserRequest, SentData, GetDeviceObj, ThreadStep, Post, BrokenRelease, BrokenDelUser,
             BrokenClose, Timer, CheckNew, CheckOld, CheckUnready
    <3> QED
      BY <2>1, <3>1, <3>2
  <2> QED
    BY <2>2, <2>3
<1>2. \A h \in Hosts : ready'[h] => id'[h] \in Devices
  <2>1. CASE ParserRequest
    <3>1. thread["worker"].id \in Devices \cup {NoDevice} /\ NoDevice \notin Devices
          /\ id \in [Hosts -> Devices \cup {NoDevice}] /\ ready \in [Hosts -> BOOLEAN]
      BY <1>0, DeviceRegistryAssumption DEF TypeOK, Threads, ThreadRecords
    <3> QED
      BY <1>0, <2>1, <3>1 DEF ParserRequest, NewHostsAreUntouched
  <2>2. ASSUME ~ParserRequest
        PROVE  id' = id /\ \A h \in Hosts : ready'[h] => ready[h]
    <3>1. ASSUME NEW s \in Sockets, Timer(s)
          PROVE  id' = id /\ \A h \in Hosts : ready'[h] => ready[h]
      BY <1>0, <3>1 DEF Timer, CheckNew, CheckOld, CheckUnready, TypeOK
    <3>2. (\A s \in Sockets : ~Timer(s)) => id' = id /\ ready' = ready
      BY <2>2 DEF Next, vars, hostVars, Accept, OnRead, Fail, PeerGone, Silence, AddUser, CreateDevObj,
             SentData, GetDeviceObj, ThreadStep, Post, BrokenRelease, BrokenDelUser, BrokenClose
    <3> QED
      BY <3>1, <3>2
  <2> QED
    BY <1>0, <2>1, <2>2 DEF NewHostsAreUntouched
<1>3. ASSUME thread'["listener"].at \in {"accepted", "create"}
      PROVE  /\ thread'["listener"].host \in Hosts
             /\ addr'[thread'["listener"].host] = thread'["listener"].sock
             /\ object'[thread'["listener"].host] = "none"
  <2>1. ASSUME NEW g \in Hosts, NEW s \in Sockets, Accept(g, s)
        PROVE  /\ thread'["listener"].host \in Hosts
               /\ addr'[thread'["listener"].host] = thread'["listener"].sock
               /\ object'[thread'["listener"].host] = "none"
    BY <1>0, <2>1 DEF Accept, Doing, At, hostVars, NewHostsAreUntouched
  <2>2. CASE AddUser
    BY <1>0, <2>2 DEF AddUser, Doing, At, hostVars, NewHostsAreUntouched
  <2>3. ASSUME (\A g \in Hosts, s \in Sockets : ~Accept(g, s)), ~AddUser
        PROVE  thread'["listener"] = thread["listener"] /\ ~CreateDevObj
    <3>1. ~CreateDevObj
      BY <1>0, <1>3 DEF CreateDevObj, Doing, At
    <3>2. ASSUME NEW t \in Threads, ThreadStep(t)
          PROVE  thread'["listener"] = thread["listener"]
      <4>1. t # "listener"
        BY <1>0, <1>3, <3>2 DEF ThreadStep, Post, BrokenRelease, BrokenDelUser, BrokenClose, Doing, Done,
                                At, Idle
      <4> QED
        BY <1>0, <3>2, <4>1 DEF ThreadStep, Post, BrokenRelease, BrokenDelUser, BrokenClose, Doing, Done
    <3>3. (ParserRequest => thread'["listener"] = thread["listener"])
              /\ (SentData => thread'["listener"] = thread["listener"])
      BY <1>0 DEF ParserRequest, SentData, Doing, Done
    <3>4. ASSUME NEW h \in Hosts, OnRead(h) \/ Fail(h)
          PROVE  thread'["listener"] = thread["listener"]
      BY <1>0, <3>4 DEF OnRead, Fail, Doing
    <3>5. ASSUME NEW d \in Devices, GetDeviceObj(d)
          PROVE  thread'["listener"] = thread["listener"]
      BY <1>0, <3>5 DEF GetDeviceObj, Doing
    <3> QED
      BY <2>3, <3>1, <3>2, <3>3, <3>4, <3>5 DEF Next, vars, PeerGone, Silence, Timer, CheckNew, CheckOld,
                                               CheckUnready
  <2>4. CASE thread'["listener"] = thread["listener"] /\ ~CreateDevObj
    <3>1. /\ thread["listener"].host \in Hosts
          /\ addr[thread["listener"].host] = thread["listener"].sock
          /\ object[thread["listener"].host] = "none"
          /\ thread["listener"].sock \in Sockets
      BY <1>0, <1>3, <2>4 DEF NewHostsAreUntouched, IInv, ThreadsFit
    <3> QED
      BY <1>0, <2>4, <3>1, NewObjects DEF HandlesStay
  <2> QED
    BY <2>1, <2>2, <2>3, <2>4
<1> QED
  BY <1>1, <1>2, <1>3 DEF NewHostsAreUntouched

LEMMA InitIInv == Init => IInv
<1> SUFFICES ASSUME Init
             PROVE  IInv
  OBVIOUS
<1> USE DeviceRegistryAssumption
<1>1. Idle \in ThreadRecords
  BY AtTyped DEF NoHost
<1>2. TypeOK
  <2>1. RestTyped
    BY <1>1 DEF Init, RestTyped
  <2>2. connMap \in ConnMaps /\ devMap \in DevMaps /\ object \in Objects /\ displaced \in SUBSET Hosts
    BY DEF Init, ConnMaps, DevMaps, Objects, NoConn, NoDev
  <2> QED
    BY <2>1, <2>2 DEF TypeOK, RestTyped, ThreadRecords, ConnMaps, DevMaps, Objects
<1>3. ThreadsFit /\ NewHostsAreUntouched
  BY DEF Init, ThreadsFit, NewHostsAreUntouched, Threads, Idle, At
<1>4. HostsKeepTheirHandle /\ KeysAreUnique
  BY DEF Init, HostsKeepTheirHandle, KeysAreUnique, NoConn, NoDev
<1>5. TablesHoldLiveHosts /\ RegisteredHostsAreWatched /\ RegisteredHostsAreFound
  BY DEF Init, TablesHoldLiveHosts, RegisteredHostsAreWatched, RegisteredHostsAreFound, NoConn, NoDev
<1> QED
  BY <1>2, <1>3, <1>4, <1>5 DEF IInv

LEMMA NextIInv == IInv /\ [Next]_vars => IInv'
<1> SUFFICES ASSUME IInv, [Next]_vars
             PROVE  IInv'
  OBVIOUS
<1> QED
  BY NextTypeOK, NextThreadsFit, NextNew, NextTables DEF IInv

\* The invariant holds of every behaviour.
LEMMA Inductive == Spec => []IInv
<1>1. Init => IInv
  BY InitIInv
<1>2. IInv /\ [Next]_vars => IInv'
  BY NextIInv
<1> QED
  BY <1>1, <1>2, PTL DEF Spec

\* The variables of the registry keep their types, whatever connections come and go.
THEOREM TypeCorrect == Spec => []TypeOK
<1>1. IInv => TypeOK
  BY DEF IInv
<1> QED
  BY <1>1, Inductive, PTL

\* Neither m_connMap nor m_devMap ever names a CXlHost that has been deleted, although the
\* two workers, the listener and the timer delete, and closed handles are given out again.
THEOREM TablesAreLive == Spec => []TablesHoldLiveHosts
<1>1. IInv => TablesHoldLiveHosts
  BY DEF IInv
<1> QED
  BY <1>1, Inductive, PTL

\* A host clients can find in m_devMap has its registered entry in m_connMap, where
\* CheckDevice looks, unless its handle was closed under it and given to another
\* connection (CreateDevObj), or to the connection its device came back with (AddDevice).
THEOREM FoundAreWatched == Spec => []RegisteredHostsAreWatched
<1>1. IInv => RegisteredHostsAreWatched
  BY DEF IInv
<1> QED
  BY <1>1, Inductive, PTL

\* Every connection marked registered is found in m_devMap: CheckDevice, which adds only
\* what is not marked, passes over no device that clients cannot reach.
THEOREM WatchedAreFound == Spec => []RegisteredHostsAreFound
<1>1. IInv => RegisteredHostsAreFound
  BY DEF IInv
<1> QED
  BY <1>1, Inductive, PTL

-------------------------------------------------------------------------------

(***************************************************************************)
(* How a host ends.                                                        *)
(***************************************************************************)

\* A host that has been made and that no table names.
OutOfReach(h) == object[h] # "none" /\ ~InDevMap(h) /\ ~InConnMap(h)

\* A host is deleted only as it leaves m_devMap; it leaves m_devMap only by being deleted
\* or after its handle went to another connection, and is then never deleted once its
\* entry in m_connMap is gone as well; and what no table names stays as it is for good.
HostEndsOnce(h) ==
    /\ object[h] = "live" /\ object'[h] = "deleted" => InDevMap(h) /\ ~InDevMap(h)'
    /\ InDevMap(h) /\ ~InDevMap(h)' => object'[h] = "deleted" \/ h \in displaced
    /\ OutOfReach(h) => OutOfReach(h)' /\ object'[h] = object[h]

HostsEndOnce == [][\A h \in Hosts : HostEndsOnce(h)]_vars

LEMMA RemovedEnds ==
    ASSUME IInv, NEW s \in Sockets, Removed(s), NEW h \in Hosts
    PROVE  HostEndsOnce(h)
<1> DEFINE g == connMap[s].host
<1>1. \A t \in Sockets : connMap'[t] = IF t = s THEN NoConn ELSE connMap[t]
  BY DEF Removed
<1>2. \A d \in Devices : devMap'[d] = IF devMap[d].host = g THEN NoDev ELSE devMap[d]
  BY DEF Removed
<1>3. object'[h] = IF h = g /\ InDevMap(h) THEN "deleted" ELSE object[h]
  BY DEF Removed
<1> HIDE DEF g
<1>4. h # NoHost
  BY HostFacts
<1>5. InDevMap(h)' <=> InDevMap(h) /\ h # g
  BY <1>2, <1>4 DEF InDevMap, NoDev
<1>6. InConnMap(h)' => InConnMap(h)
  BY <1>1, <1>4 DEF InConnMap, NoConn
<1> QED
  BY <1>3, <1>5, <1>6 DEF HostEndsOnce, OutOfReach

LEMMA MadeEnds ==
    ASSUME IInv, NEW g \in Hosts, NEW s \in Sockets, Made(g, s), NEW h \in Hosts
    PROVE  HostEndsOnce(h)
<1>1. object'[h] = IF h = g THEN "live" ELSE object[h]
  BY DEF Made, IInv, TypeOK
<1>2. InDevMap(h)' <=> InDevMap(h)
  BY DEF Made, InDevMap
<1>3. \A t \in Sockets : connMap'[t] = IF t = s THEN [host |-> g, reg |-> FALSE] ELSE connMap[t]
  BY DEF Made, IInv, TypeOK
<1>4. h # g /\ InConnMap(h)' => InConnMap(h)
  BY <1>3 DEF InConnMap
<1>5. object[g] = "none"
  BY DEF Made
<1> QED
  BY <1>1, <1>2, <1>4, <1>5 DEF HostEndsOnce, OutOfReach

LEMMA AddedEnds ==
    ASSUME IInv, NEW s \in Sockets, Added(s), NEW h \in Hosts
    PROVE  HostEndsOnce(h)
<1> DEFINE n == connMap[s].host
           d == id[n]
           old == devMap[d]
           x == connMap[old.sock].host
<1>1. n \in Hosts /\ d \in Devices /\ ~connMap[s].reg /\ h # NoHost
  BY HostFacts DEF Added
<1>2. CASE old.host = NoHost
  <2>1. /\ \A t \in Sockets : connMap'[t].host = connMap[t].host
        /\ \A e \in Devices : devMap'[e] = IF e = d THEN [host |-> n, sock |-> s] ELSE devMap[e]
        /\ object' = object
    <3>1. /\ connMap' = [t \in Sockets |-> IF t = s THEN [host |-> n, reg |-> TRUE] ELSE connMap[t]]
          /\ devMap' = [e \in Devices |-> IF e = d THEN [host |-> n, sock |-> s] ELSE devMap[e]]
          /\ object' = object
      BY <1>2, HostFacts DEF Added
    <3> QED
      BY <3>1
  <2>2. InConnMap(n)
    BY DEF InConnMap
  <2>3. InDevMap(h) => InDevMap(h)'
    BY <1>1, <1>2, <2>1 DEF InDevMap
  <2>4. InDevMap(h)' => InDevMap(h) \/ h = n
    BY <2>1 DEF InDevMap
  <2>5. InConnMap(h)' <=> InConnMap(h)
    BY <2>1 DEF InConnMap
  <2> QED
    BY <2>1, <2>2, <2>3, <2>4, <2>5 DEF HostEndsOnce, OutOfReach
<1>3. CASE old.host # NoHost
  <2>1. /\ old.host \in Hosts /\ old.sock \in Sockets
        /\ connMap' = [t \in Sockets |-> IF t = old.sock THEN NoConn
                                         ELSE IF t = s THEN [host |-> n, reg |-> TRUE] ELSE connMap[t]]
        /\ devMap' = [e \in Devices |-> IF e = d THEN [host |-> n, sock |-> s]
                                        ELSE IF x # NoHost /\ devMap[e].host = x THEN NoDev ELSE devMap[e]]
        /\ object' = [k \in Hosts |-> IF k = x /\ InDevMap(k) THEN "deleted" ELSE object[k]]
    BY <1>3 DEF Added
  <2>2. InConnMap(n)
    BY DEF InConnMap
  <2>3. InConnMap(h)' => InConnMap(h)
    <3>1. \A t \in Sockets : connMap'[t].host \in {NoHost, connMap[t].host}
      BY <2>1 DEF NoConn
    <3> QED
      BY <1>1, <3>1 DEF InConnMap
  <2>4. object'[h] = IF h = x /\ InDevMap(h) THEN "deleted" ELSE object[h]
    BY <2>1
  <2>5. \A e \in Devices : devMap'[e].host = IF e = d THEN n
                                             ELSE IF x # NoHost /\ devMap[e].host = x THEN NoHost
                                             ELSE devMap[e].host
    BY <2>1 DEF NoDev
  <2>6. InDevMap(h)' => InDevMap(h) \/ h = n
    BY <1>1, <2>5 DEF InDevMap
  <2>7. ~InDevMap(n)
    BY <1>1, HostFacts DEF InDevMap, IInv, KeysAreUnique
  <2>8. h = x /\ InDevMap(h) => ~InDevMap(h)'
    BY <1>1, <2>5, <2>7 DEF InDevMap
  <2>9. InDevMap(h) /\ ~InDevMap(h)' /\ h # x => h \in displaced
    <3> SUFFICES ASSUME InDevMap(h), ~InDevMap(h)', h # x
                 PROVE  h \in displaced
      OBVIOUS
    <3>1. old.host = h
      BY <1>1, <2>5 DEF InDevMap
    <3>2. connMap[old.sock] # [host |-> old.host, reg |-> TRUE]
      BY <3>1
    <3> QED
      BY <1>1, <1>3, <3>1, <3>2 DEF IInv, RegisteredHostsAreWatched
  <2> QED
    BY <2>2, <2>3, <2>4, <2>6, <2>8, <2>9 DEF HostEndsOnce, OutOfReach
<1> QED
  BY <1>2, <1>3

LEMMA StayEnds ==
    ASSUME TablesStay, NEW h \in Hosts
    PROVE  HostEndsOnce(h)
BY DEF TablesStay, HostEndsOnce, OutOfReach, InDevMap, InConnMap

\* A host object is deleted only as it leaves m_devMap, where a client could still have
\* found it, and whoever is in neither table stays as it is for good: none is deleted
\* twice, for any number of devices, handles and connections (AddDevice, DelDevice,
\* ReleaseDevObj, CheckDevice).  What leaves m_devMap without being deleted is a host
\* that lost its entry in m_connMap to another connection.
THEOREM HostsAreDeletedOnce == Spec => HostsEndOnce
<1>1. IInv /\ [Next]_vars => [\A h \in Hosts : HostEndsOnce(h)]_vars
  BY TableSteps, RemovedEnds, MadeEnds, AddedEnds, StayEnds DEF TablesStep
<1> QED
  BY <1>1, Inductive, PTL DEF Spec, HostsEndOnce

===============================================================================
