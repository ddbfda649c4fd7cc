---------------------------- MODULE DeviceRegistry ----------------------------
(***************************************************************************)
(* The registry of devices (CDeviceManager) under the threads that change  *)
(* it: the listener that accepts connections (CXAsio::OnListen), the       *)
(* worker that handles completions (CXAsio::OnWork, CTcpServer4Device),    *)
(* the client service's worker, which writes to a device when an upload    *)
(* starts (SentData), and the timer (CheckDevice).                         *)
(*                                                                         *)
(* A connection is written as the number of the host object made for it,   *)
(* and is used once; a socket is a handle that the system gives out again  *)
(* as soon as it is closed, while the server goes on naming the connection *)
(* by it.  Everything CDeviceManager does under m_locker is one step.      *)
(***************************************************************************)
EXTENDS Integers, FiniteSets

CONSTANTS
    Devices,      \* ids devices register with
    Sockets,      \* handles of the operating system
    MaxHosts,     \* bound: connections accepted in a behaviour
    MaxCalls,     \* bound: overlapped calls outstanding on one connection
    MaxUploads,   \* bound: uploads started
    MaxSilences,  \* bound: how often a host is not heard of
    NoSocket,     \* "no handle"
    NoDevice      \* "no id"

ASSUME DeviceRegistryAssumption ==
    /\ MaxHosts \in Nat
    /\ MaxCalls \in Nat \ {0}
    /\ MaxUploads \in Nat
    /\ MaxSilences \in Nat
    /\ NoSocket \notin Sockets
    /\ NoDevice \notin Devices

Hosts == 1 .. MaxHosts
NoHost == 0
Threads == {"worker", "listener", "client"}

VARIABLES
    handle,     \* the connection a handle stands for, or NoHost
    addr,       \* ioHandle: the handle a connection was accepted with
    up,         \* connections whose two ends are there
    calls,      \* overlapped calls outstanding on a connection
    users,      \* m_userMap of CXAsio, as the handles in it
    object,     \* of a CXlHost: "none", "live", "deleted"
    device,     \* of a connection: the id its device registers with, once it has
    id,         \* m_hostId
    ready,      \* m_bReady
    silent,     \* hosts not heard of for 120 s
    connMap,    \* m_connMap: host and bRegister by handle
    devMap,     \* m_devMap: host and sock by id
    thread,     \* what the three threads are doing, and on which handle
    locker,     \* m_locker: "fine", or "stuck" after one release too many
    userLocker, \* m_user_locker: "fine", or "kept" by the listener
    displaced,  \* history: hosts whose entry in m_connMap went to, or with, another's
    uploads, silences

netVars == <<handle, addr, up, calls, users, device>>
hostVars == <<object, id, ready, silent>>
mapVars == <<connMap, devMap>>
lockVars == <<locker, userLocker>>
pastVars == <<displaced, uploads, silences>>
vars == <<netVars, hostVars, mapVars, thread, lockVars, pastVars>>

NoConn == [host |-> NoHost, reg |-> FALSE]
NoDev == [host |-> NoHost, sock |-> NoSocket]
At(what, s, h, d) == [at |-> what, sock |-> s, host |-> h, id |-> d]
Idle == At("idle", NoSocket, NoHost, NoDevice)

Doing(t, what, s, h) == thread' = [thread EXCEPT ![t] = At(what, s, h, NoDevice)]
Done(t) == thread' = [thread EXCEPT ![t] = Idle]

\* Who may enter m_user_locker: after AddUser's early return, only the listener.
UserLockerFree(t) == userLocker = "fine" \/ t = "listener"

Init ==
    /\ handle = [s \in Sockets |-> NoHost]
    /\ addr = [h \in Hosts |-> NoSocket]
    /\ up = {}
    /\ calls = [h \in Hosts |-> 0]
    /\ users = {}
    /\ object = [h \in Hosts |-> "none"]
    /\ device = [h \in Hosts |-> NoDevice]
    /\ id = [h \in Hosts |-> NoDevice]
    /\ ready = [h \in Hosts |-> FALSE]
    /\ silent = {}
    /\ connMap = [s \in Sockets |-> NoConn]
    /\ devMap = [d \in Devices |-> NoDev]
    /\ thread = [t \in Threads |-> Idle]
    /\ locker = "fine"
    /\ userLocker = "fine"
    /\ displaced = {}
    /\ uploads = 0
    /\ silences = 0

-------------------------------------------------------------------------------

(***************************************************************************)
(* The tables of CDeviceManager, as the functions the class is made of.    *)
(***************************************************************************)

Tables == [conn |-> connMap, dev |-> devMap, obj |-> object]

SetTables(r) ==
    /\ connMap' = r.conn
    /\ devMap' = r.dev
    /\ object' = r.obj

\* The ids under which a host is found in m_devMap.
KeysOf(r, h) == {d \in Devices : r.dev[d].host = h}

\* Slip: the entry of m_devMap stays.
DelDeviceKeepingKey(r, h) ==
    IF KeysOf(r, h) = {} THEN r ELSE [r EXCEPT !.obj[h] = "deleted"]

\* DelDevice deletes a host that m_devMap has; one that never got ready it leaves alone.
DelDevice(r, h) ==
    IF KeysOf(r, h) = {} THEN r
    ELSE [r EXCEPT !.obj[h] = "deleted",
                   !.dev[CHOOSE d \in KeysOf(r, h) : TRUE] = NoDev]

\* Slip: DelDevice is not called.
ReleaseConnOnly(r, s) == [r EXCEPT !.conn[s] = NoConn]

\* Of a broken connection: the host first, then its entry in m_connMap.
ReleaseDevObj(r, s) ==
    IF r.conn[s].host = NoHost THEN r
    ELSE [DelDevice(r, r.conn[s].host) EXCEPT !.conn[s] = NoConn]

\* Slip: an older host of the same id is overwritten.
AddDeviceOverOld(r, s) ==
    LET h == r.conn[s].host
    IN  [r EXCEPT !.dev[id[h]] = [host |-> h, sock |-> s], !.conn[s] = [host |-> h, reg |-> TRUE]]

\* AddDevice of the host of connection s: whoever has the handle of the older host of
\* the same id goes first.  If that is s itself, CheckDevice goes on with an entry that
\* has been erased.
AddDevice(r, s) ==
    LET h == r.conn[s].host
        old == r.dev[id[h]]
        cleared == IF old.host = NoHost THEN r ELSE ReleaseDevObj(r, old.sock)
    IN  [cleared EXCEPT !.dev[id[h]] = [host |-> h, sock |-> s],
                        !.conn[s] = IF @ = NoConn THEN @ ELSE [host |-> h, reg |-> TRUE]]

\* j_close_socket of a handle, whosever it is by now.
CloseSocket(s) ==
    /\ handle' = [handle EXCEPT ![s] = NoHost]
    /\ up' = up \ {handle[s]}

-------------------------------------------------------------------------------

(***************************************************************************)
(* The listener: a connection is accepted on a handle the system picks.    *)
(***************************************************************************)

Accept(h, s) ==
    /\ thread["listener"].at = "idle"
    /\ addr[h] = NoSocket
    /\ \A k \in 1 .. (h - 1) : addr[k] # NoSocket
    /\ handle[s] = NoHost
    /\ handle' = [handle EXCEPT ![s] = h]
    /\ addr' = [addr EXCEPT ![h] = s]
    /\ up' = up \cup {h}
    /\ Doing("listener", "accepted", s, h)
    /\ UNCHANGED <<calls, users, device, hostVars, mapVars, lockVars, pastVars>>

\* AddUser returns early, with m_user_locker held, if the handle is closed by now.
AddUser ==
    LET s == thread["listener"].sock
        h == thread["listener"].host
    IN  /\ thread["listener"].at = "accepted"
        /\ UserLockerFree("listener")
        /\ IF handle[s] = h
           THEN users' = users \cup {s} /\ UNCHANGED userLocker
           ELSE userLocker' = "kept" /\ UNCHANGED users
        /\ Doing("listener", "create", s, h)
        /\ UNCHANGED <<handle, addr, up, calls, device, hostVars, mapVars, locker, pastVars>>

\* OnAccept makes the host; its first ParserRequest asks the device to register.  An
\* entry that is still there under the handle is overwritten.
CreateDevObj ==
    LET s == thread["listener"].sock
        h == thread["listener"].host
    IN  /\ thread["listener"].at = "create"
        /\ locker = "fine"
        /\ object' = [object EXCEPT ![h] = "live"]
        /\ connMap' = [connMap EXCEPT ![s] = [host |-> h, reg |-> FALSE]]
        /\ displaced' = displaced \cup {k \in Hosts : connMap[s] = [host |-> k, reg |-> TRUE]}
        /\ Doing("listener", "post", s, NoHost)
        /\ UNCHANGED <<netVars, id, ready, silent, devMap, lockVars, uploads, silences>>

(***************************************************************************)
(* Completions.                                                            *)
(***************************************************************************)

\* Slip: both a read and a write are issued.
PostBoth(t) ==
    LET c == handle[thread[t].sock]
    IN  /\ thread[t].at = "post"
        /\ UserLockerFree(t)
        /\ thread[t].sock \in users
        /\ c # NoHost
        /\ calls' = [calls EXCEPT ![c] = @ + 2]
        /\ Done(t)
        /\ UNCHANGED <<handle, addr, up, users, device, hostVars, mapVars, lockVars, pastVars>>

\* CXAsio::Read and Write, at the end of OnAccept and OnRead: the next call is
\* issued on whatever the handle stands for.
Post(t) ==
    LET s == thread[t].sock
        c == handle[s]
    IN  /\ thread[t].at = "post"
        /\ UserLockerFree(t)
        /\ \/ /\ s \notin users
              /\ Done(t)
              /\ UNCHANGED calls
           \/ /\ s \in users
              /\ c # NoHost
              /\ calls[c] < MaxCalls
              /\ calls' = [calls EXCEPT ![c] = @ + 1]
              /\ Done(t)
           \/ /\ s \in users
              /\ c \notin up
              /\ Doing(t, "broken", s, NoHost)
              /\ UNCHANGED calls
        /\ UNCHANGED <<handle, addr, up, users, device, hostVars, mapVars, lockVars, pastVars>>

\* A message has arrived: OnRead looks the host up by the handle.  If the message
\* registers the device, it is always with the same id.
OnRead(h) ==
    LET s == addr[h]
    IN  /\ thread["worker"].at = "idle"
        /\ calls[h] > 0
        /\ h \in up
        /\ locker = "fine"
        /\ calls' = [calls EXCEPT ![h] = @ - 1]
        /\ \E d \in Devices \cup {NoDevice} :
               /\ d # NoDevice => device[h] \in {d, NoDevice}
               /\ device' = IF d = NoDevice THEN device ELSE [device EXCEPT ![h] = d]
               /\ IF connMap[s].host = NoHost
                  THEN UNCHANGED thread
                  ELSE thread' = [thread EXCEPT !["worker"] = At("handle", s, connMap[s].host, d)]
        /\ UNCHANGED <<handle, addr, up, users, hostVars, mapVars, lockVars, pastVars>>

\* ParserRequest, without m_locker: the host was heard of; OnRegister gives it its id.
ParserRequest ==
    LET h == thread["worker"].host
        d == thread["worker"].id
    IN  /\ thread["worker"].at = "handle"
        /\ silent' = silent \ {h}
        /\ IF d = NoDevice
           THEN UNCHANGED <<id, ready>>
           ELSE id' = [id EXCEPT ![h] = d] /\ ready' = [ready EXCEPT ![h] = TRUE]
        /\ Doing("worker", "post", thread["worker"].sock, NoHost)
        /\ UNCHANGED <<netVars, object, mapVars, lockVars, pastVars>>

\* A call fails.  OnWork passes over ERROR_CONNECTION_ABORTED; otherwise
\* ProcessIoEvent looks for the user of the handle, whoever has it by now.
Fail(h) ==
    LET s == addr[h]
    IN  /\ thread["worker"].at = "idle"
        /\ calls[h] > 0
        /\ h \notin up
        /\ UserLockerFree("worker")
        /\ calls' = [calls EXCEPT ![h] = @ - 1]
        /\ \/ UNCHANGED thread
           \/ s \in users /\ Doing("worker", "broken", s, NoHost)
        /\ UNCHANGED <<handle, addr, up, users, device, hostVars, mapVars, lockVars, pastVars>>

\* OnBroken, first part: ReleaseDevObj.
BrokenRelease(t) ==
    /\ thread[t].at = "broken"
    /\ locker = "fine"
    /\ SetTables(ReleaseDevObj(Tables, thread[t].sock))
    /\ Doing(t, "deluser", thread[t].sock, NoHost)
    /\ UNCHANGED <<netVars, id, ready, silent, lockVars, pastVars>>

\* Second part: DelUser closes the handle and forgets its user.
BrokenDelUser(t) ==
    /\ thread[t].at = "deluser"
    /\ UserLockerFree(t)
    /\ CloseSocket(thread[t].sock)
    /\ users' = users \ {thread[t].sock}
    /\ Doing(t, "close", thread[t].sock, NoHost)
    /\ UNCHANGED <<addr, calls, device, hostVars, mapVars, lockVars, pastVars>>

\* Third part: the handle is closed again.
BrokenClose(t) ==
    /\ thread[t].at = "close"
    /\ CloseSocket(thread[t].sock)
    /\ Done(t)
    /\ UNCHANGED <<addr, calls, users, device, hostVars, mapVars, lockVars, pastVars>>

(***************************************************************************)
(* The worker of the client service starts an upload (OnUploadStart).      *)
(***************************************************************************)

\* The host is looked up by its id, and used later.
GetDeviceObj(d) ==
    /\ thread["client"].at = "idle"
    /\ devMap[d].host # NoHost
    /\ uploads < MaxUploads
    /\ uploads' = uploads + 1
    /\ Doing("client", "upload", NoSocket, devMap[d].host)
    /\ UNCHANGED <<netVars, hostVars, mapVars, lockVars, displaced, silences>>

\* SentData looks a host up by the handle of the first, and writes on the handle if it
\* has something to write.
SentData ==
    LET s == addr[thread["client"].host]
    IN  /\ thread["client"].at = "upload"
        /\ locker = "fine"
        /\ \/ Done("client")
           \/ connMap[s].host # NoHost /\ Doing("client", "post", s, NoHost)
        /\ UNCHANGED <<netVars, hostVars, mapVars, lockVars, pastVars>>

(***************************************************************************)
(* The timer: CheckDevice looks at one connection after the other.         *)
(***************************************************************************)

IsReady(h) == ready[h] /\ h \notin silent

\* A ready host that is not registered is added; the older one's handle is closed.
CheckNew(s) ==
    LET h == connMap[s].host
        old == devMap[id[h]]
    IN  /\ h # NoHost
        /\ locker = "fine"
        /\ IsReady(h)
        /\ ~ connMap[s].reg
        /\ SetTables(AddDevice(Tables, s))
        /\ IF old.host = NoHost THEN UNCHANGED <<handle, up>> ELSE CloseSocket(old.sock)
        /\ displaced' = IF old.sock = s THEN displaced \cup {h} ELSE displaced
        /\ UNCHANGED <<addr, calls, users, device, id, ready, silent, thread, lockVars, uploads, silences>>

\* A registered host that is not ready any more is deleted.  m_locker is then
\* released twice, and what Windows makes of that is open.
CheckOld(s) ==
    LET h == connMap[s].host
    IN  /\ h # NoHost
        /\ locker = "fine"
        /\ ~ IsReady(h)
        /\ connMap[s].reg
        /\ ready' = [ready EXCEPT ![h] = FALSE]
        /\ SetTables([DelDevice(Tables, h) EXCEPT !.conn[s] = NoConn])
        /\ CloseSocket(s)
        /\ locker' \in {"fine", "stuck"}
        /\ UNCHANGED <<addr, calls, users, device, id, silent, thread, userLocker, pastVars>>

\* A silent host that is not registered only loses its readiness.
CheckUnready(s) ==
    LET h == connMap[s].host
    IN  /\ h # NoHost
        /\ locker = "fine"
        /\ h \in silent /\ ready[h]
        /\ ~ connMap[s].reg
        /\ ready' = [ready EXCEPT ![h] = FALSE]
        /\ UNCHANGED <<netVars, object, id, silent, mapVars, thread, lockVars, pastVars>>

(***************************************************************************)
(* The devices.                                                            *)
(***************************************************************************)

\* The device end of a connection goes away.
PeerGone(h) ==
    /\ h \in up
    /\ up' = up \ {h}
    /\ UNCHANGED <<handle, addr, calls, users, device, hostVars, mapVars, thread, lockVars, pastVars>>

\* 120 s pass without a message.
Silence(h) ==
    /\ \E s \in Sockets : connMap[s].host = h
    /\ h \notin silent
    /\ silences < MaxSilences
    /\ silences' = silences + 1
    /\ silent' = silent \cup {h}
    /\ UNCHANGED <<netVars, object, id, ready, mapVars, thread, lockVars, displaced, uploads>>

-------------------------------------------------------------------------------

ThreadStep(t) == Post(t) \/ BrokenRelease(t) \/ BrokenDelUser(t) \/ BrokenClose(t)

Timer(s) == CheckNew(s) \/ CheckOld(s) \/ CheckUnready(s)

Next ==
    \/ \E h \in Hosts :
           \/ \E s \in Sockets : Accept(h, s)
           \/ OnRead(h)
           \/ Fail(h)
           \/ PeerGone(h)
           \/ Silence(h)
    \/ AddUser
    \/ CreateDevObj
    \/ \E t \in Threads : ThreadStep(t)
    \/ ParserRequest
    \/ \E s \in Sockets : Timer(s)
    \/ SentData
    \/ \E d \in Devices : GetDeviceObj(d)

Spec == Init /\ [][Next]_vars

-------------------------------------------------------------------------------

TypeOK ==
    /\ handle \in [Sockets -> Hosts \cup {NoHost}]
    /\ addr \in [Hosts -> Sockets \cup {NoSocket}]
    /\ up \in SUBSET Hosts
    /\ calls \in [Hosts -> 0 .. MaxCalls]
    /\ users \in SUBSET Sockets
    /\ object \in [Hosts -> {"none", "live", "deleted"}]
    /\ device \in [Hosts -> Devices \cup {NoDevice}]
    /\ id \in [Hosts -> Devices \cup {NoDevice}]
    /\ ready \in [Hosts -> BOOLEAN]
    /\ silent \in SUBSET Hosts
    /\ connMap \in [Sockets -> [host : Hosts \cup {NoHost}, reg : BOOLEAN]]
    /\ devMap \in [Devices -> [host : Hosts \cup {NoHost}, sock : Sockets \cup {NoSocket}]]
    /\ thread \in [Threads -> [at : {"idle", "accepted", "create", "post", "handle", "upload",
                                     "broken", "deluser", "close"},
                               sock : Sockets \cup {NoSocket},
                               host : Hosts \cup {NoHost},
                               id : Devices \cup {NoDevice}]]
    /\ locker \in {"fine", "stuck"}
    /\ userLocker \in {"fine", "kept"}
    /\ displaced \in SUBSET Hosts
    /\ uploads \in 0 .. MaxUploads
    /\ silences \in 0 .. MaxSilences

\* The hosts CheckDevice, OnRead and GetDeviceObj get out of the tables have not
\* been deleted, although four threads delete and handles are used again.
TablesHoldLiveHosts ==
    /\ \A s \in Sockets : connMap[s].host # NoHost => object[connMap[s].host] = "live"
    /\ \A d \in Devices : devMap[d].host # NoHost => object[devMap[d].host] = "live"

\* Every host that clients can find is watched by the timer: its connection is still in
\* m_connMap, and is marked registered, so that silence removes it.  Only a handle closed
\* under a registered host, and given out again, takes that away: CreateDevObj and
\* AddDevice have no other way to lose an entry.
RegisteredHostsAreWatched ==
    \A d \in Devices : devMap[d].host # NoHost =>
        \/ connMap[devMap[d].sock] = [host |-> devMap[d].host, reg |-> TRUE]
        \/ devMap[d].host \in displaced

\* A connection marked registered can be found by clients: a device is never taken
\* for registered, and hence never added, while no client can reach it, whoever has had
\* its handle before.
RegisteredHostsAreFound ==
    \A s \in Sockets : connMap[s].reg =>
        \E d \in Devices : devMap[d] = [host |-> connMap[s].host, sock |-> s]

===============================================================================
