------------------------------- MODULE RealPlay -------------------------------
(***************************************************************************)
(* Live video: clients (CXlClient) play and stop the streams of hosts      *)
(* (CXlHost), hosts come and go (CDeviceManager), and the data bus         *)
(* (CDataBus) tells the subscribed clients when a host breaks or connects, *)
(* upon which they mark, or open again, the views they had.                *)
(*                                                                         *)
(* Three threads call into hosts: the client service's worker, which runs  *)
(* the handlers of all clients ("worker"); whoever delivers a message of   *)
(* the bus, one subscriber after the other under CDataBus::m_locker        *)
(* ("bus"); and whoever deletes a client, under CClientManager::m_locker   *)
(* ("stopper").  A call looks the host up under m_devLocker, its channel   *)
(* under no lock, counts under m_channelLocker and enters the view under   *)
(* the client's m_vecLocker: these are steps of their own.  The deletion   *)
(* of a host (closing) holds m_devLocker throughout; a delivery and        *)
(* StopAllReal hold the client's m_vecLocker throughout.                   *)
(*                                                                         *)
(* A client is one connection and is used once, so that what the server    *)
(* still holds of a deleted CXlClient can be seen.  A client's handler and *)
(* the deletion of the same client at once are in Login.                   *)
(***************************************************************************)
EXTENDS Integers, Sequences, SequencesExt

CONSTANTS
    Clients,      \* connections of clients
    Hosts,        \* ids of devices
    Channels,     \* channel numbers of a device
    NoHost,       \* "no host"
    NoClient,     \* "no client"
    MaxJoins,     \* bound: how often hosts register in a behaviour
    MaxLogins     \* bound: how often a client logs in

ASSUME RealPlayAssumption ==
    /\ NoHost \notin Hosts
    /\ NoClient \notin Clients
    /\ MaxJoins \in Nat
    /\ MaxLogins \in Nat

Streams == Hosts \X Channels
StreamsOf(h) == {h} \X Channels
NoStream == <<NoHost, NoHost>>

Threads == {"worker", "bus", "stopper"}

VARIABLES
    phase,        \* of a host: "away", "silent" (in m_devMap), or "announced"
    link,         \* whether the connection of a registered host takes commands
    joins,        \* how often hosts have registered
    made,         \* the streams with an entry in their host's m_channelMap
    nRef,         \* m_channelMap[c].nRef of the host object, per stream
    rings,        \* m_vecRingBuffer of the channel: whose buffers it feeds
    streaming,    \* whether the device was last told to start or to stop
    gone,         \* the clients that have been deleted
    views,        \* m_videoInfoVec: "none", or bConnected of the entry
    wanted,       \* the streams a client has asked for and not stopped
    call,         \* of a thread: the client, stream and place of its call
    subscribers,  \* m_msgMap["all"][xlc_msg_host]
    bus,          \* the OnMessage call in progress, if any
    closing,      \* the host DelDevice is deleting, or NoHost
    answer,       \* the host whose answer to SetTime is being handled
    replaced,     \* history: streams whose channel another one replaced
    crossed,      \* history: streams stopped while the view was being opened again
    late          \* history: views entered after the client could be told

hostVars == <<phase, link, joins>>
channelVars == <<made, nRef, rings, streaming, replaced, crossed>>
viewVars == <<views, wanted, late>>
busVars == <<subscribers, bus, answer>>
vars == <<hostVars, channelVars, gone, viewVars, call, busVars, closing>>

(***************************************************************************)
(* A call's place is the step it takes next.  The host's pointer is live   *)
(* until the host is deleted: what a call does to a deleted host changes   *)
(* nothing that lives.  left are the entries of m_videoInfoVec a loop has  *)
(* still to visit.                                                         *)
(***************************************************************************)
NoCall == [cl |-> NoClient, k |-> NoStream, at |-> "idle", live |-> FALSE, left |-> {}]
NoMessage == [msg |-> "none", host |-> NoHost, todo |-> <<>>]
NoAnswer == [host |-> NoHost, live |-> FALSE]

Places == {"idle", "read", "make", "open", "lost", "count", "list",
           "uncount", "close", "remake", "erase", "leave"}

BusFree == bus.msg = "none"
DevMapFree == closing = NoHost
ClientMapFree == call["stopper"].at = "idle"
Registered(k) == phase[k[1]] # "away"

\* Nobody holds the m_vecLocker of cl for longer than a step.
VecFree(cl) ==
    /\ call["bus"].cl # cl
    /\ call["stopper"].cl = cl => call["stopper"].at = "leave"

Viewed(cl) == {k \in Streams : views[cl][k] # "none"}

-------------------------------------------------------------------------------

(***************************************************************************)
(* The locked parts of a call to the host of stream k.                     *)
(***************************************************************************)

AddRingBuffer(cl, k) == rings' = [rings EXCEPT ![k] = Append(@, cl)]

\* Slip: whoever is first in m_vecRingBuffer goes.
DelFirstBuffer(cl, k) ==
    rings' = [rings EXCEPT ![k] = IF @ = <<>> THEN @ ELSE Tail(@)]

DelRingBuffer(cl, k) == rings' = [rings EXCEPT ![k] = RemoveFirst(@, cl)]

\* The device gets xld_real_play and ReqRealPlay answers J_OK.
Starts(k) == nRef[k] = 0 /\ link[k[1]]

\* Only the first reference asks the device.
CountUp(k) ==
    /\ nRef' = [nRef EXCEPT ![k] = @ + 1]
    /\ streaming' = [streaming EXCEPT ![k] = @ \/ Starts(k)]

\* Slips: the count goes below zero; it is compared before it is decremented;
\* a broken link is noticed before the count.
DownUnclamped(k) ==
    /\ nRef' = [nRef EXCEPT ![k] = @ - 1]
    /\ streaming' = [streaming EXCEPT ![k] = @ /\ ~ (nRef[k] = 1 /\ link[k[1]])]

DownCompareFirst(k) ==
    /\ nRef' = [nRef EXCEPT ![k] = IF @ > 0 THEN @ - 1 ELSE 0]
    /\ streaming' = [streaming EXCEPT ![k] = @ /\ ~ (nRef[k] = 0 /\ link[k[1]])]

DownLinkFirst(k) ==
    IF link[k[1]] /\ nRef[k] > 0
    THEN /\ nRef' = [nRef EXCEPT ![k] = @ - 1]
         /\ streaming' = [streaming EXCEPT ![k] = @ /\ nRef[k] # 1]
    ELSE UNCHANGED <<nRef, streaming>>

\* Only the last reference asks the device, and nRef stays >= 0.
CountDown(k) ==
    /\ nRef' = [nRef EXCEPT ![k] = IF @ > 0 THEN @ - 1 ELSE 0]
    /\ streaming' = [streaming EXCEPT ![k] = @ /\ ~ (nRef[k] = 1 /\ link[k[1]])]

-------------------------------------------------------------------------------

\* The server has run for a while: someone has logged in before, so that the
\* list of subscribers exists (the first subscription is special).
Init ==
    /\ phase = [h \in Hosts |-> "away"]
    /\ link = [h \in Hosts |-> FALSE]
    /\ joins = 0
    /\ made = {}
    /\ nRef = [k \in Streams |-> 0]
    /\ rings = [k \in Streams |-> <<>>]
    /\ streaming = [k \in Streams |-> FALSE]
    /\ gone = {}
    /\ views = [cl \in Clients |-> [k \in Streams |-> "none"]]
    /\ wanted = [cl \in Clients |-> {}]
    /\ call = [t \in Threads |-> NoCall]
    /\ subscribers = <<>>
    /\ bus = NoMessage
    /\ closing = NoHost
    /\ answer = NoAnswer
    /\ replaced = {}
    /\ crossed = {}
    /\ late = [cl \in Clients |-> {}]

(***************************************************************************)
(* The steps of a call, whichever thread makes it.                         *)
(***************************************************************************)

\* MakeChannel's insert in m_channelMap is under way, on the same host.
Inserting(t, k) ==
    \E u \in Threads \ {t} :
        call[u].at \in {"make", "remake"} /\ call[u].live /\ call[u].k[1] = k[1]

\* MakeChannel's find, under no lock, may miss what is there while another thread
\* inserts.
MayMiss(t, k) == k \notin made \/ Inserting(t, k)

\* The look-up by id under m_devLocker has found the host.
GetDeviceObj(t, k, at, left) ==
    call' = [call EXCEPT ![t] = [cl |-> @.cl, k |-> k, at |-> at, live |-> TRUE, left |-> left]]

\* A play looks for the channel at once, which comes to the same: one that is
\* made in between may be made before.
GetForPlay(t, k, left) ==
    \/ k \in made /\ GetDeviceObj(t, k, "open", left)
    \/ MayMiss(t, k) /\ GetDeviceObj(t, k, "make", left)

GetForStop(t, k, left) == GetDeviceObj(t, k, "uncount", left)

\* A loop over m_videoInfoVec goes on to its next entry.
NextEntry(t) == [call[t] EXCEPT !.k = NoStream, !.live = FALSE, !.at = "read"]

\* CloseStream returns: StopView erases the entry, StopAllReal goes on.
Stopped(t) == IF t = "worker" THEN [call[t] EXCEPT !.at = "erase"] ELSE NextEntry(t)

\* MakeChannel found none: a new channel, without references and buffers, takes
\* the place of one another thread made meanwhile.  A play attaches its buffer
\* to its own channel; a stop takes its buffer off an empty one.
MakeChannel(t) ==
    LET c == call[t]
    IN  /\ c.at \in {"make", "remake"}
        /\ IF c.live
           THEN /\ made' = made \cup {c.k}
                /\ replaced' = IF c.k \in made THEN replaced \cup {c.k} ELSE replaced
                /\ nRef' = [nRef EXCEPT ![c.k] = 0]
                /\ rings' = [rings EXCEPT ![c.k] =
                                IF c.at = "make" THEN <<c.cl>> ELSE <<>>]
           ELSE UNCHANGED <<made, replaced, nRef, rings>>
        /\ call' = [u \in Threads |->
                       IF u = t
                       THEN IF c.at = "make" THEN [c EXCEPT !.at = "count"] ELSE Stopped(t)
                       ELSE IF c.live /\ call[u].live /\ call[u].k = c.k /\ call[u].at = "open"
                       THEN [call[u] EXCEPT !.at = "lost"] ELSE call[u]]
    /\ UNCHANGED <<hostVars, streaming, crossed, gone, viewVars, busVars, closing>>

\* Slip: only the first reference attaches its buffer to a channel it found.
OpenStreamIfFirst(t) ==
    LET c == call[t]
    IN  /\ c.at \in {"open", "lost"}
        /\ IF c.live /\ c.at = "open" /\ nRef[c.k] = 0
           THEN AddRingBuffer(c.cl, c.k) ELSE UNCHANGED rings
        /\ call' = [call EXCEPT ![t].at = "count"]
    /\ UNCHANGED <<hostVars, made, nRef, streaming, replaced, crossed,
                   gone, viewVars, busVars, closing>>

\* The buffer is attached to the channel that was found; "lost" is one that has
\* been replaced since.
OpenStream(t) ==
    LET c == call[t]
    IN  /\ c.at \in {"open", "lost"}
        /\ IF c.live /\ c.at = "open" THEN AddRingBuffer(c.cl, c.k) ELSE UNCHANGED rings
        /\ call' = [call EXCEPT ![t].at = "count"]
    /\ UNCHANGED <<hostVars, made, nRef, streaming, replaced, crossed,
                   gone, viewVars, busVars, closing>>

\* The reference of a play or a reconnection.  A play has its entry made next;
\* a reconnection, under m_vecLocker, marks its own at once.
ReqRealPlay(t) ==
    LET c == call[t]
    IN  /\ c.at = "count"
        /\ IF c.live
           THEN CountUp(c.k)
           ELSE UNCHANGED <<nRef, streaming>>
        /\ views' = IF t = "bus" /\ c.live /\ Starts(c.k)
                    THEN [views EXCEPT ![c.cl][c.k] = "connected"] ELSE views
        /\ call' = [call EXCEPT ![t] = IF t = "worker" THEN [c EXCEPT !.at = "list"]
                                       ELSE NextEntry(t)]
    /\ UNCHANGED <<hostVars, made, rings, replaced, crossed, gone, wanted, late, busVars, closing>>

ReqRealStop(t) ==
    LET c == call[t]
    IN  /\ c.at = "uncount"
        /\ IF c.live THEN CountDown(c.k) ELSE UNCHANGED <<nRef, streaming>>
        /\ call' = [call EXCEPT ![t].at = "close"]
    /\ UNCHANGED <<hostVars, made, rings, replaced, crossed, gone, viewVars, busVars, closing>>

\* MakeChannel's find, and CloseStream on what it found.
CloseStream(t) ==
    LET c == call[t]
    IN  /\ c.at = "close"
        /\ \/ /\ c.live => c.k \in made
              /\ IF c.live THEN DelRingBuffer(c.cl, c.k) ELSE UNCHANGED rings
              /\ call' = [call EXCEPT ![t] = Stopped(t)]
           \/ /\ c.live /\ MayMiss(t, c.k)
              /\ call' = [call EXCEPT ![t].at = "remake"]
              /\ UNCHANGED rings
    /\ UNCHANGED <<hostVars, made, nRef, streaming, replaced, crossed,
                   gone, viewVars, busVars, closing>>

(***************************************************************************)
(* Clients.                                                                *)
(***************************************************************************)

\* A command has arrived; its client is looked up under CClientManager::m_locker.
OnRead(cl) ==
    /\ call["worker"].at = "idle"
    /\ ClientMapFree
    /\ cl \notin gone
    /\ call' = [call EXCEPT !["worker"] = [NoCall EXCEPT !.cl = cl, !.at = "read"]]
    /\ UNCHANGED <<hostVars, channelVars, gone, viewVars, busVars, closing>>

Logins(cl) == Len(SelectSeq(subscribers, LAMBDA s : s = cl))

\* OnLogin accepts the user and subscribes the client to "all".
Login(cl) ==
    /\ call["worker"].at = "read"
    /\ call["worker"].cl = cl
    /\ Logins(cl) < MaxLogins
    /\ BusFree
    /\ call' = [call EXCEPT !["worker"] = NoCall]
    /\ subscribers' = Append(subscribers, cl)
    /\ UNCHANGED <<hostVars, channelVars, gone, viewVars, bus, answer, closing>>

\* OnRealPlay, logged in or not.  The client is not told whether StartView
\* finds the host.
RealPlay(cl, k) ==
    /\ call["worker"].at = "read"
    /\ call["worker"].cl = cl
    /\ k \notin wanted[cl]
    /\ DevMapFree
    /\ wanted' = [wanted EXCEPT ![cl] = @ \cup {k}]
    /\ IF Registered(k)
       THEN GetForPlay("worker", k, {})
       ELSE call' = [call EXCEPT !["worker"] = NoCall]
    /\ UNCHANGED <<hostVars, channelVars, gone, views, late, busVars, closing>>

\* The message about the loss of host h will reach cl.
WillHear(cl, h) ==
    /\ Contains(subscribers, cl)
    /\ bus.msg = "broken" /\ bus.host = h => Contains(bus.todo, cl)

\* StartView enters the view as connected, whatever has become of the host; a
\* deleted one may answer the request with anything.
PushView(cl) ==
    LET c == call["worker"]
    IN  /\ c.cl = cl
        /\ c.at = "list"
        /\ VecFree(cl)
        /\ \/ /\ views' = [views EXCEPT ![cl][c.k] = "connected"]
              /\ late' = IF c.live /\ WillHear(cl, c.k[1]) THEN late
                         ELSE [late EXCEPT ![cl] = @ \cup {c.k}]
           \/ /\ ~ c.live
              /\ UNCHANGED <<views, late>>
    /\ call' = [call EXCEPT !["worker"] = NoCall]
    /\ UNCHANGED <<hostVars, channelVars, gone, wanted, busVars, closing>>

\* OnRealStop.  StopView counts the stop whether or not there is a view.
RealStop(cl, k) ==
    /\ call["worker"].at = "read"
    /\ call["worker"].cl = cl
    /\ k \in wanted[cl]
    /\ DevMapFree
    /\ IF Registered(k)
       THEN GetForStop("worker", k, {})
       ELSE call' = [call EXCEPT !["worker"].k = k, !["worker"].at = "erase"]
    /\ crossed' = IF call["bus"].cl = cl /\ call["bus"].k = k THEN crossed \cup {k} ELSE crossed
    /\ UNCHANGED <<hostVars, made, nRef, rings, streaming, replaced, gone, viewVars, busVars, closing>>

\* StopView erases the entry, if there is one.
EraseView(cl) ==
    LET c == call["worker"]
    IN  /\ c.cl = cl
        /\ c.at = "erase"
        /\ VecFree(cl)
        /\ views' = [views EXCEPT ![cl][c.k] = "none"]
        /\ wanted' = [wanted EXCEPT ![cl] = @ \ {c.k}]
        /\ late' = [late EXCEPT ![cl] = @ \ {c.k}]
    /\ call' = [call EXCEPT !["worker"] = NoCall]
    /\ UNCHANGED <<hostVars, channelVars, gone, busVars, closing>>

\* The connection breaks (the worker finds out) or the heartbeat is missing (the
\* timer does): Broken takes m_vecLocker.
Broken(cl) ==
    /\ ClientMapFree
    /\ cl \notin gone
    /\ call["worker"].cl # cl
    /\ call["bus"].cl # cl
    /\ call' = [call EXCEPT !["stopper"] =
                   [NoCall EXCEPT !.cl = cl, !.at = "read", !.left = Viewed(cl)]]
    /\ UNCHANGED <<hostVars, channelVars, gone, viewVars, busVars, closing>>

\* StopAllReal looks the host of the next entry up.
StopAllReal(k) ==
    LET c == call["stopper"]
    IN  /\ c.at = "read"
        /\ k \in c.left
        /\ DevMapFree
        /\ IF Registered(k)
           THEN GetForStop("stopper", k, c.left \ {k})
           ELSE call' = [call EXCEPT !["stopper"].left = @ \ {k}]
    /\ UNCHANGED <<hostVars, channelVars, gone, viewVars, busVars, closing>>

\* StopAllReal clears m_videoInfoVec and releases m_vecLocker.
ClearViews ==
    LET c == call["stopper"]
    IN  /\ c.at = "read"
        /\ c.left = {}
        /\ views' = [views EXCEPT ![c.cl] = [k \in Streams |-> "none"]]
        /\ wanted' = [wanted EXCEPT ![c.cl] = {}]
        /\ late' = [late EXCEPT ![c.cl] = {}]
        /\ call' = [call EXCEPT !["stopper"] = [NoCall EXCEPT !.cl = c.cl, !.at = "leave"]]
    /\ UNCHANGED <<hostVars, channelVars, gone, busVars, closing>>

\* Broken unsubscribes, once, and the client object is deleted.
Unsubscribe ==
    LET c == call["stopper"]
    IN  /\ c.at = "leave"
        /\ BusFree
        /\ subscribers' = RemoveFirst(subscribers, c.cl)
        /\ gone' = gone \cup {c.cl}
    /\ call' = [call EXCEPT !["stopper"] = NoCall]
    /\ UNCHANGED <<hostVars, channelVars, viewVars, bus, answer, closing>>

(***************************************************************************)
(* Hosts.                                                                  *)
(***************************************************************************)

\* CheckDevice finds a new ready host: SetTime is sent and AddDevice enters a
\* fresh object, without channels, into m_devMap.  One step: CheckDevice holds
\* CDeviceManager::m_locker from before SetTime until after AddDevice, and the
\* worker needs it to look up whose answer it has read.
Register(h) ==
    /\ phase[h] = "away"
    /\ DevMapFree
    /\ joins < MaxJoins
    /\ joins' = joins + 1
    /\ phase' = [phase EXCEPT ![h] = "silent"]
    /\ link' = [link EXCEPT ![h] = TRUE]
    /\ UNCHANGED <<channelVars, gone, viewVars, call, busVars, closing>>

\* The device has answered SetTime; the device service's worker looks the host
\* up under m_locker, which whoever calls DelDevice holds.
OnAnswer(h) ==
    /\ answer = NoAnswer
    /\ bus.msg # "connected"
    /\ phase[h] = "silent"
    /\ link[h]
    /\ DevMapFree
    /\ answer' = [host |-> h, live |-> TRUE]
    /\ UNCHANGED <<hostVars, channelVars, gone, viewVars, call, subscribers, bus, closing>>

\* OnSetSysTime publishes xlc_host_connected, whatever has become of the host.
OnSetSysTime ==
    /\ answer # NoAnswer
    /\ BusFree
    /\ phase' = IF answer.live THEN [phase EXCEPT ![answer.host] = "announced"] ELSE phase
    /\ bus' = [msg |-> "connected", host |-> answer.host, todo |-> subscribers]
    /\ answer' = NoAnswer
    /\ UNCHANGED <<link, joins, channelVars, gone, viewVars, call, subscribers, closing>>

\* The connection of a host dies; nobody has noticed yet.
LinkDown(h) ==
    /\ link[h]
    /\ link' = [link EXCEPT ![h] = FALSE]
    /\ UNCHANGED <<phase, joins, channelVars, gone, viewVars, call, busVars, closing>>

\* DelDevice takes m_devLocker: the socket broke, the heartbeat is missing, or
\* AddDevice found an older object of the same id.
DelDevice(h) ==
    /\ phase[h] # "away"
    /\ DevMapFree
    /\ closing' = h
    /\ UNCHANGED <<hostVars, channelVars, gone, viewVars, call, busVars>>

\* OnBroken, inside DelDevice, publishes xlc_host_broken.
OnBroken ==
    /\ ~ DevMapFree
    /\ BusFree
    /\ bus' = [msg |-> "broken", host |-> closing, todo |-> subscribers]
    /\ UNCHANGED <<hostVars, channelVars, gone, viewVars, call, subscribers, answer, closing>>

(***************************************************************************)
(* The data bus: SendMsgInfo to one subscriber after the other.            *)
(***************************************************************************)

\* Every entry of the host is marked.
DeliverBroken(cl) ==
    /\ views' = [views EXCEPT ![cl] = [k \in Streams |->
                    IF k \in Viewed(cl) \cap StreamsOf(bus.host)
                    THEN "broken" ELSE views[cl][k]]]
    /\ UNCHANGED call

\* Every entry that is not connected will be opened again, whatever its host.
DeliverConnected(cl) ==
    /\ call' = [call EXCEPT !["bus"] =
                   [NoCall EXCEPT !.cl = cl, !.at = "read",
                                  !.left = {k \in Streams : views[cl][k] = "broken"}]]
    /\ UNCHANGED views

\* The next subscriber; SendMsgInfo needs its m_vecLocker.
SendMsgInfo ==
    /\ bus.todo # <<>>
    /\ call["bus"].at = "idle"
    /\ LET cl == Head(bus.todo)
       IN  /\ VecFree(cl)
           /\ IF bus.msg = "broken" THEN DeliverBroken(cl) ELSE DeliverConnected(cl)
    /\ bus' = [bus EXCEPT !.todo = Tail(@)]
    /\ UNCHANGED <<hostVars, channelVars, gone, wanted, late, subscribers, answer, closing>>

\* Thread t is stopping the view of stream k.
Stops(t, cl, k) ==
    /\ call[t].cl = cl
    /\ call[t].k = k
    /\ call[t].at \in {"uncount", "close", "remake", "erase"}

\* StartView with no request looks the host of the next entry up.
ReConnect(k) ==
    LET c == call["bus"]
    IN  /\ c.at = "read"
        /\ k \in c.left
        /\ DevMapFree
        /\ IF Registered(k)
           THEN /\ GetForPlay("bus", k, c.left \ {k})
                /\ crossed' = IF Stops("worker", c.cl, k) THEN crossed \cup {k} ELSE crossed
           ELSE /\ call' = [call EXCEPT !["bus"].left = @ \ {k}]
                /\ UNCHANGED crossed
    /\ UNCHANGED <<hostVars, made, nRef, rings, streaming, replaced, gone, viewVars, busVars, closing>>

\* SendMsgInfo has visited all entries and returns.
Delivered ==
    /\ call["bus"].at = "read"
    /\ call["bus"].left = {}
    /\ call' = [call EXCEPT !["bus"] = NoCall]
    /\ UNCHANGED <<hostVars, channelVars, gone, viewVars, busVars, closing>>

\* OnMessage returns; after xlc_host_broken DelDevice deletes the host, its
\* channels with it, and releases m_devLocker.
MessageSent ==
    /\ ~ BusFree
    /\ bus.todo = <<>>
    /\ call["bus"].at = "idle"
    /\ bus' = NoMessage
    /\ IF bus.msg = "broken"
       THEN LET ks == StreamsOf(bus.host)
            IN  /\ closing' = NoHost
                /\ phase' = [phase EXCEPT ![bus.host] = "away"]
                /\ link' = [link EXCEPT ![bus.host] = FALSE]
                /\ made' = made \ ks
                /\ nRef' = [k \in Streams |-> IF k \in ks THEN 0 ELSE nRef[k]]
                /\ rings' = [k \in Streams |-> IF k \in ks THEN <<>> ELSE rings[k]]
                /\ streaming' = [k \in Streams |-> streaming[k] /\ k \notin ks]
                /\ replaced' = replaced \ ks
                /\ crossed' = crossed \ ks
                /\ late' = [cl \in Clients |->
                               {k \in late[cl] : k \in ks => views[cl][k] = "connected"}]
                /\ call' = [t \in Threads |->
                               [call[t] EXCEPT !.live = @ /\ call[t].k \notin ks]]
                /\ answer' = [answer EXCEPT !.live = @ /\ answer.host # bus.host]
       ELSE UNCHANGED <<closing, phase, link, channelVars, late, call, answer>>
    /\ UNCHANGED <<joins, gone, views, wanted, subscribers>>

-------------------------------------------------------------------------------

\* The next step of a call that is under way.
CallStep(t) ==
    \/ MakeChannel(t)
    \/ OpenStream(t)
    \/ ReqRealPlay(t)
    \/ ReqRealStop(t)
    \/ CloseStream(t)

ClientStep(cl) ==
    \/ OnRead(cl)
    \/ Login(cl)
    \/ \E k \in Streams : RealPlay(cl, k) \/ RealStop(cl, k)
    \/ PushView(cl)
    \/ EraseView(cl)
    \/ Broken(cl)

StopperStep == (\E k \in Streams : StopAllReal(k)) \/ ClearViews \/ Unsubscribe

HostStep(h) == Register(h) \/ OnAnswer(h) \/ LinkDown(h) \/ DelDevice(h)

BusStep ==
    \/ OnSetSysTime
    \/ OnBroken
    \/ SendMsgInfo
    \/ \E k \in Streams : ReConnect(k)
    \/ Delivered
    \/ MessageSent

Next ==
    \/ \E t \in Threads : CallStep(t)
    \/ \E cl \in Clients : ClientStep(cl)
    \/ StopperStep
    \/ \E h \in Hosts : HostStep(h)
    \/ BusStep

\* The server's own threads go on, and a device that can answers SetTime.
Fairness ==
    /\ \A t \in Threads : WF_vars(CallStep(t))
    /\ \A cl \in Clients : WF_vars(PushView(cl) \/ EraseView(cl))
    /\ \A cl \in Clients :
           WF_vars(Login(cl) \/ \E k \in Streams : RealPlay(cl, k) \/ RealStop(cl, k))
    /\ WF_vars(StopperStep)
    /\ \A h \in Hosts : WF_vars(OnAnswer(h))
    /\ WF_vars(OnSetSysTime)
    /\ WF_vars(OnBroken)
    /\ WF_vars(SendMsgInfo \/ (\E k \in Streams : ReConnect(k)) \/ Delivered \/ MessageSent)

Spec == Init /\ [][Next]_vars /\ Fairness

-------------------------------------------------------------------------------

TypeOK ==
    /\ phase \in [Hosts -> {"away", "silent", "announced"}]
    /\ link \in [Hosts -> BOOLEAN]
    /\ joins \in 0 .. MaxJoins
    /\ made \subseteq Streams
    /\ nRef \in [Streams -> Nat]
    /\ rings \in [Streams -> Seq(Clients)]
    /\ streaming \in [Streams -> BOOLEAN]
    /\ gone \subseteq Clients
    /\ views \in [Clients -> [Streams -> {"none", "connected", "broken"}]]
    /\ wanted \in [Clients -> SUBSET Streams]
    /\ call \in [Threads -> [cl : Clients \cup {NoClient}, k : Streams \cup {NoStream},
                             at : Places, live : BOOLEAN, left : SUBSET Streams]]
    /\ subscribers \in Seq(Clients)
    /\ bus \in [msg : {"none", "connected", "broken"}, host : Hosts \cup {NoHost},
                todo : Seq(Clients)]
    /\ closing \in Hosts \cup {NoHost}
    /\ answer \in [host : Hosts \cup {NoHost}, live : BOOLEAN]
    /\ replaced \subseteq Streams
    /\ crossed \subseteq Streams
    /\ late \in [Clients -> SUBSET Streams]

\* While a device can be told, it streams exactly when the server counts a
\* reference: no start or stop is lost or sent twice, whichever of plays,
\* stops, reconnections and disappearing clients changed the count
\* (ReqRealPlay, ReqRealStop).  Except where two calls made the channel at
\* once (MakeChannel): the count starts again while the device streams.
StreamingMatchesRefs ==
    \A k \in Streams \ replaced : link[k[1]] => (streaming[k] <=> nRef[k] > 0)

\* References never outnumber the attached buffers, so a device that streams
\* feeds somebody's buffer; stops of plays that failed, reconnections and
\* StopAllReal all preserve this (StartView, StopView, StopAllReal).  Except
\* where two calls made the channel at once, or the client stopped a view while
\* it was being opened again: the stop may take the reconnection's buffer out
\* before its reference is counted.
RefsHaveRings ==
    \A k \in Streams \ (replaced \cup crossed) : nRef[k] <= Len(rings[k])

\* The client's stop of the view, or its StopAllReal, is under way.
BeingStopped(cl, k) ==
    \/ Stops("worker", cl, k)
    \/ call["stopper"].cl = cl

\* A view whose entry says bConnected belongs to a registered host, and the
\* channel of this host object feeds its buffer: an entry never survives the
\* deletion of the object it was opened on (SendMsgInfo, DelDevice).  Except an
\* entry made after its client could be told of the deletion (StartView looks
\* the host up long before it makes the entry), one on a channel that was made
\* twice, and while the view is being stopped.
ConnectedViewsAreAttached ==
    \A cl \in Clients, k \in Streams \ replaced :
        views[cl][k] = "connected" /\ k \notin late[cl] /\ ~ BeingStopped(cl, k)
        => Registered(k) /\ Contains(rings[k], cl)

\* The subscribers that the message about host h has still to reach.
StillToHear(h) ==
    {cl \in Clients : /\ bus.msg = "connected" /\ bus.host = h
                      /\ Contains(bus.todo, cl) \/ call["bus"].cl = cl}

\* Once the clients have been told that a host is back, every view they had on
\* it is attached again, also a view whose ReConnect was answered J_UNKNOW
\* (SendMsgInfo, StartView, ReqRealPlay); with the exceptions above.
AnnouncedHostsFeedTheirViews ==
    \A cl \in Clients, k \in Streams \ replaced :
        /\ views[cl][k] # "none"
        /\ k \notin late[cl]
        /\ ~ BeingStopped(cl, k)
        /\ phase[k[1]] = "announced"
        /\ cl \notin StillToHear(k[1])
        => Contains(rings[k], cl)

\* A stream nobody asks for is closed (design document, 2.2).
StreamClosedWhenUnwatched ==
    \A k \in Streams \ (replaced \cup crossed) :
        /\ BusFree /\ DevMapFree /\ link[k[1]]
        /\ \A cl \in Clients : k \notin wanted[cl]
        => ~ streaming[k]

\* A view broken by its host's absence is attached again once the host is
\* back, unless the client or the host leaves (design document, 2.2).
ViewsRecover ==
    \A cl \in Clients, k \in Streams :
        views[cl][k] = "broken" /\ phase[k[1]] = "silent"
        ~> \/ Contains(rings[k], cl)
           \/ views[cl][k] = "none"
           \/ BeingStopped(cl, k)
           \/ ~ link[k[1]]
           \/ closing = k[1]

===============================================================================
