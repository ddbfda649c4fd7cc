# Verification of the vehicle video forwarding server

TLA+ models, TLC runs and TLAPS proofs for the server under `src/src/TransServer` and the core
library under `src/src/core` (paths below are relative to these two directories unless they say more), for the
synchronisation service with its FTP client, and for the file reader of the demonstration client.

The server stands between vehicle-mounted recorders ("devices", "hosts") and desktop clients. A
device connects, registers and is asked for live video, recordings, alarms and logs; clients log in,
ask for these, and get what the devices send copied through one ring buffer per client and kind.

## 1. Inventory

### 1.1 Components

| Component | Code | State | Operations | Talks to |
|---|---|---|---|---|
| Frame buffer | `core/x_ringbuffer` | bytes, read and write point, `m_nDataLen` | `PushBuffer`, `PopBuffer`, `EraseBuffer` | filled by device handlers, emptied by client write loops |
| Channel | `TransServer/XlChannel` | `m_vecRingBuffer`, `m_mapRingBuffer` (vod) | `OpenStream`, `CloseStream`, `OpenVod`, `CloseVod`, `InputData` | the buffers of clients |
| Host (one device connection) | `XlHost` | `m_channelMap` with `nRef`, alarm and record-info buffers, upload buffer, `m_ioState` | handlers of device commands, `ReqRealPlay`/`Stop`, `OnBroken`, uploads | data bus, database, clients |
| Client (one client connection) | `XlClient` | `m_videoInfoVec`, `m_vodInfoVec`, `m_alarmInfoVec`, counters, one IO state per data kind | handlers of client commands, `SendMsgInfo`, `StopAll`, `Broken` | registries, hosts, bus |
| Device registry | `DeviceManager` | `m_connMap`, `m_devMap` | create, add, delete, look up, `CheckDevice` timer | hosts |
| Client registry | `ClientManager` | `m_clientMap`, `m_userMap` | create, release, `Login`, `Logout`, `CheckClient` timer | clients, database |
| Data bus | `DataBus` | `m_msgMap` (subscribers), `m_rexMap`, `m_hostMap` | `SubscribeMsg`, `OnMessage`, `Request`, `Response`, `CheckState` timer | clients |
| Database | `MsSqlServer` | tables `UserInfo`, `Equipment`, alarms, logs, files; the shared `m_pRec` | `Init`, `Login`, `Logout`, updates | everything |
| IO and services | `core/x_asio_win`, `TcpServer4Client`, `TcpServer4Device` | user map, pending overlapped calls | `OnAccept`, `OnRead`, `OnWrite`, `OnBroken` | clients, hosts |
| Locks, threads, timers | `core/x_lock`, `x_thread`, `x_timer` | | | |
| Entry point, configuration | `TransServer.cpp`, `XlConfig`, `XlHelper` | INI file | start order: database `Init`, devices, clients | |
| Synchronisation service | `src/src/SyncDataService` | host list, the listing and the file under way, table `FileInfo` | broadcast listener, listing, download, recording, disk clean-up | a second program; recorders by FTP |
| FTP client library | `src/src/ftp_client` | control socket, `m_qResponseBuffer`, representation | login, listing, download | driven by the synchronisation service |
| File reader | `src/src/FileReader` | file and place, `s_bReadData`, clock, queue, three threads | open, start, stop, pause, speed, seek, close | demonstration client |
| Demo client, renderer | `src/src/client_demo`, `Render` | | | not part of the server |

### 1.2 Threads and locks

Each of the two services (clients, devices) has **one** worker thread (`CXAsio::OnWork`), which runs its
handlers one after the other, and a listener thread. Three timers run on threads of their own:
`CheckClient`, `CheckDevice` (every second) and the data bus's. So two clients' handlers never
overlap, but a client's handler overlaps with a device's handler and with each timer. The client service's worker also runs code of the
device service: an upload's start makes it write to the device (`SentData`), and a write that fails makes it run the device service's `OnBroken`. What orders them
are the locks `CClientManager::m_locker` and `m_lockerUser`, `CDeviceManager::m_locker` and `m_devLocker`,
`CDataBus::m_locker`, and the ones inside a client or a host. A `CTLock` is a recursive
`CRITICAL_SECTION`. Callbacks are made **under** these locks: `DelDevice` publishes the loss of a host
under `m_devLocker`, `OnMessage` calls every subscriber under `CDataBus::m_locker`, and
`CheckClient` deletes a client under `CClientManager::m_locker`.

### 1.3 What is hard

- a host is deleted, or comes back, in the middle of a client's play, stop or disappearance, between the look-up and the use of its pointer;
- a channel is looked for under no lock and made under one, so two calls may both make it;
- a view is opened again by the bus at each `xlc_host_connected`, so a play may be counted or attached twice;
- a login is SELECT, UPDATE, map entry and subscription, with a timer that logs other clients out in between;
- the `Online` column survives a crash of the server;
- callbacks under locks taken in different orders;
- socket handles are closed by whoever notices first, some twice, and the system gives the numbers out again;
- an upload waits for its client on the only worker thread of the device service;
- a recorder, its FTP server or the network fails between any two steps of a download, and the service may be stopped there;
- the player's calls meet the file reader's threads, half of them without its lock;
- one buffer of fixed size in which three parts of every frame wrap independently;
- IO states and counters per client which say whether a write loop for some kind of data is running.

`PROJECT.json` lists every hazard at its line; a hazard without a property says why it has none.

### 1.4 What correctness means, per component

- **Frame buffer**: a bounded FIFO of whole frames which drops the oldest first and never tears a frame.
- **Live video**: the device streams iff somebody is counted; counts never exceed attached buffers; what a client's
  view says agrees with the channel; a view is attached again after its host is back; nobody's buffer is
  taken out by somebody else. The code breaks each of these in some order of steps; the properties name these orders (`replaced`, `crossed`, `late`) and hold everywhere else.
- **Sessions**: no user is shut out by a session that does not exist; every map entry names a live client that
  will clear it, unless one of three named races (`stuck`) left it to a client that will not.
- **Bus**: who unsubscribed is not called.
- **Write loops**: who is to be sent something has a loop, unused loops end; opened alarms arrive, and nowhere else; record info completes.
- **Registry**: no table names a deleted host; who can be found is watched, unless a handle closed twice took its entry away (`displaced`); who is registered can be found.
- **Uploads**: every upload gets a result, if its host was not broken already when it was called (`late`); nothing is missing between the buffer and the device; a stopped upload leaves the worker.
- **Synchronisation**: a reply answers its command; what is recorded is there; what is there can be deleted; the worker comes back.
- **File reader**: frames are read whole, each is shown once and in order, a file that plays comes to its end.

## 2. Plan

| # | Module | What | State |
|---|---|---|---|
| 1 | `FrameQueue`, `RingBuffer` | abstract queue; byte-level buffer; refinement; proofs | done |
| 2 | `RealPlay` | clients x hosts x bus x registry: live video, each call in steps on three threads | done, all properties proved |
| 3 | `Login` | sessions, `Online` column, subscription; proofs | done |
| 4 | `ClientStream` | IO states and counters of clients: data, alarm and record-info loops; proofs | done |
| 5 | `DeviceRegistry` | `m_connMap`, `m_devMap`, handles, `CXAsio`'s user map, four threads; proofs | done |
| 6 | `Upload` | clients, upload buffer, write loops, results; liveness; proofs | done |
| 7 | `FtpClient`, `SyncService` | the FTP client as an operator library, the service over it; proofs | done |
| 8 | `Playback` | file reader; proofs, liveness | done |
| 9 | `RingBufferProofs` | "`RingBuffer` implements `FrameQueue`", step by step and with its fairness | done |
| 10 | proofs | action properties and the single steps of the liveness arguments | done where section 4 says so |
| 11 | `RealPlayProofs` | that a loss reaches every viewer unless the locks are crossed | open |

`RealPlay` composes client, channel, host, device registry and bus in one module, because every property worth
stating about live video relates at least three of them. `RingBuffer` is composed with its abstraction by
`INSTANCE`. `Login` shares with `RealPlay` only the subscription and keeps its own copy of that call, since `RealPlay`
starts after the first one. `ClientStream` shares with `RealPlay` the clients and hosts, but none of the state its properties
relate, and has its own actions for plays and deletions, reduced to what they do to the loops.

## 3. Modules

### 3.1 `FrameQueue`, `RingBuffer`, `RingBufferProofs`

`FrameQueue` is what the users of `CRingBuffer` rely on. `RingBuffer` is the code: `mem` holds "byte number `off` of
frame `f`" in place of bytes; `writePoint`, `readPoint`, `dataLen` are the three members; `AddBuffer`, `Write`,
`GetData`, `GetIdleLength` are the functions of the same names (`Write`'s two `memcpy`s are one function over
addresses). `PushBuffer` holds the mutex over a loop: `PushBegin` takes it, each `EraseBuffer` is one turn, `PushEnd` writes
and releases; `Pop`/`PopNothing` are `PopBuffer`. `m_nDiscardedFrameNum` is written and never read, and is left out.
The assumption `RingAssumption` says that a single frame fits the buffer: the code does not check it, and the loop reads dead
bytes otherwise (listed as a hazard).

Run `ring_buffer`: frames of 3, 4 and 6 bytes in a buffer of 8. Nodes of two bytes wrap themselves, so do
header and payload; every alignment of the two points occurs. `ImplementsFrameQueue` checks
the steps of the refinement, `EveryPushCompletes` the queue's fairness. Fairness: the thread in `PushBuffer` keeps running; it holds the only lock it needs.

Proved for every buffer size, node and header size, and any set of frames and lengths: `TypeOK`, `PointersAgree`, `WholeFrames`,
`PopIsOneFrame`, and the refinement. The inductive invariant is `TypeOK /\ PointersAgree /\ WholeFrames`; `WholeFrames` needs
`PointersAgree` to know that what is written behind the write point is not live, and the lemma `ThreeWritesAreOne`
that node, header and payload in turn are one write of `Total(f)` bytes.

The refinement (`BufferImplementsQueue`) needs to know what the abstract queue is that the buffer's bytes stand for. The mapping is a recursive function that reads
frame after frame from the read point, and nothing can be proved of it by unfolding. So the proof describes the layout instead: `LaidOut` says that a sequence of frames lies in the live
region, one after the other, `Holds` that it fills it; the lemma that the mapping equals such a sequence goes by the least position at which they would differ. Then each action is followed on the layout:
an erase or a pop takes the head off, a push appends at the end, and a push stores only when the new frame fits. `PushesGetOn`: a turn of `PushBuffer`'s loop that does not end the push leaves fewer
bytes, so the loop ends. `PushesAreFair`: weak fairness of the thread in `PushBuffer` gives weak fairness of the queue's turns, because every turn of the one is a turn of the other. It has two premises,
`PushCanGoOn` and `TurnsOnlyForPushes`, which say when the two fair actions are enabled.

### 3.2 `RealPlay`, `MCRealPlay`, `RealPlayProofs`

Three threads call into hosts, and each has a call record (`call`): the client service's worker, which runs all clients' handlers (`worker`); whoever runs `OnMessage`, which delivers a message to one
subscriber after the other under `CDataBus::m_locker` (`bus`); and whoever deletes a client, under `CClientManager::m_locker` (`stopper`). A record is the client, the stream, whether the host's pointer is still
live, the entries of `m_videoInfoVec` a loop has still to visit, and the step taken next:

| Step of a call | Code | Lock |
|---|---|---|
| `RealPlay`, `RealStop`, `StopAllReal`, `ReConnect`: the host is looked up | `GetDeviceObj` (`DeviceManager.cpp:164`) | `m_devLocker` |
| `MakeChannel`: the insert after a find that failed | `XlHost.cpp:83-93` | the find: none; the insert: `m_channelLocker` |
| `OpenStream`, `CloseStream` | `AddRingBuffer`, `DelRingBuffer` | the channel's |
| `ReqRealPlay`, `ReqRealStop` | `XlHost.cpp:781-849` | `m_channelLocker` |
| `PushView`, `EraseView` | `XlClient.cpp:454-460, 495-509` | the client's `m_vecLocker` |

State besides: `phase`, `link`, `joins` of hosts; `made`, `nRef`, `rings`, `streaming` of channels (`streaming` is the device's side: what it was last told); `views` and `wanted` of clients (`wanted`: what a client
has asked for and not stopped); `gone`, the deleted clients; `subscribers`, `bus`; `closing`, the host `DelDevice` holds `m_devLocker` for; `answer`, the host whose answer to `SetTime` is being handled.
`SendMsgInfo` and `StopAllReal` hold the client's `m_vecLocker` throughout (`VecFree`). `DelDevice` takes `m_devLocker`, `OnBroken` publishes, `MessageSent` deletes the host and lets go. `Broken`, `StopAllReal`, `ClearViews`,
`Unsubscribe` are the stages of a client's release.

What two steps of the code are one, and why nothing is lost:
- the find of `MakeChannel` in a play belongs to the look-up. It is under no lock, reads `m_channelMap` only, and may miss an entry while somebody inserts (`MayMiss`); another thread's insert between the two in the code may as
  well come before the look-up. In a stop the find is a step of its own (`CloseStream`), after the count;
- `Register` is `SetTime` and `AddDevice`: `CheckDevice` holds `CDeviceManager::m_locker` from line 134 on, across both, and the device service's worker, which would handle the answer, needs `m_locker` first, to look the host up
  by its socket (`TcpServer4Device.cpp:67`, `DeviceManager.cpp:66`); the host object is new with the connection, and no other code sends `SetTime`. So the announcement cannot come before the entry in `m_devMap`. What can happen, and is in the model, is that the host
  is deleted between that look-up and the announcement (`answer.live`);
- what a call does to a host that has been deleted changes nothing that lives (the use of freed memory itself is a listed hazard).

What is left out: a client's handler and the deletion of the same client at once (in `Login`); connections are used once; a client asks for a stream only when it has not, and stops only what it has asked for; a client logs in at most `MaxLogins` times. It may
play without having logged in, as in the code. `GetState`'s 30 s and `IsReady`'s 120 s are "at any time".

Three history variables name what the code lets happen, so that the properties can say that it happens nowhere else. TLC was run without each of them: each is needed.
- `replaced`: streams whose channel two calls made at once. The second insert takes the first channel's place, which feeds nobody any more, and counts from 0 while the device streams (`XlHost.cpp:78-92`).
- `crossed`: streams a client stopped while the bus was opening its view of it again. The stop may take the reconnection's buffer out, whose reference is counted after it.
- `late`: views entered when their client could no longer be told of the host's loss: it was not a subscriber, or `xlc_host_broken` had passed it, or the host was deleted, between the look-up and the entry (`XlClient.cpp:432, 453`).

Run `real_play` (1 877 393 states): two clients and one host with one channel that registers twice. Two clients make the count exceed one and call for two threads at once; the second registration is the
reconnection; the old object's announcement may come when the new one is there, and opens views at a host that has not been announced itself, as any other host's announcement would (`SendMsgInfo` opens every unconnected view). A second host, a third registration
and clients that log in twice are in the theorems, and the second host in run `recovery`. Clients are symmetric. `CHECK_DEADLOCK FALSE`: registrations and logins are bounded, and the real deadlock is a finding of its own.

- `StreamingMatchesRefs`: a device that can be told streams iff the count is positive, but for `replaced`.
- `RefsHaveRings`: `nRef` never exceeds the number of attached buffers, but for `replaced` and `crossed`.
- `ConnectedViewsAreAttached`: `bConnected` never outlives the host object, and the channel feeds the buffer, but for `replaced`, `late`, and while the view is being stopped.
- `AnnouncedHostsFeedTheirViews`: who has heard of the host's return is attached, with the same exceptions.

Runs that end in a violation, each a disagreement between code and documentation (details under "findings"): `stream_leak` (a reconnection answered `J_UNKNOW` counts and attaches again at the next announcement;
two clients and one host, as in `real_play`) and `recovery` (the two lock orders deadlock; one client, two hosts, three registrations). Neither needs one of the three exceptions. `recovery` states fairness: the server's own threads go on when they can (worker, bus, timers: all are
ordinary threads without priorities), and a device that has a link answers `SetTime`; links, registrations, deletions and clients' new commands are not fair.

Proved in `RealPlayProofs`, for any number of clients, hosts, channels, registrations and logins: the type invariant and the four properties. The inductive invariant `IInv` adds to them the reasons why they hold:

- `CallsFit`, `ThreadsFit`: what a call's step says of its stream (a live pointer is of a registered host, a channel that was found or made is there), and which two threads never work for one client;
- `UnmadeAreEmpty`: a channel that has not been made, of a host away or not, counts and feeds nothing, so that a registration starts from nothing;
- `ViewsFit`: a client has a view only of what it wants; a play under way has no entry yet, a reconnection has one;
- `CrossingsAreKnown`, `PlaysAreAttached`, `DebtsAreCovered`: a play that is to be counted has its buffer attached unless its own client takes it out, and the buffers cover the references that are counted and those still to be counted. The last is
  what `RefsHaveRings` needs: a reference and its buffer come and go under two locks;
- `NewsFits`: `xlc_host_broken` is on the bus only inside the `DelDevice` of its host, so nobody looks the host up while it is being delivered;
- `ViewersAreSubscribed`, `LossIsStillToBeHeard`: who has a view that is not `late` is a subscriber, and while `xlc_host_broken` is delivered, a view still marked connected belongs to a client the loop has yet to reach;
- `DeliveryGoesOn`: of the client that is being told, a broken view of an announced host is attached, or is among those `SendMsgInfo` has still to visit.

The proof first says what inserts, attachments, counts and deletions do to channels and what owes what, then preserves the conjuncts, one lemma per action with one step per conjunct it can disturb.

`CrossedLocksAreForGood` is the general form of what run `recovery` meets. `LocksAreCrossed`: `DelDevice` holds `m_devLocker` and waits for the bus, while the announcement holds the bus and has come to a client that has an entry left to look up, or to a client whose
`StopAllReal` already runs, keeps its `m_vecLocker` and has one. Then no step of anybody leads out; no host registers or goes, nobody subscribes or leaves, no message moves, and no broken view is marked connected again (a handler that had its pointer before still ends). Both ways are reached on the instance of `real_play`.

### 3.3 `Login`, `MCLogin`, `LoginProofs`

State: `online` (the column); `userMap` and `clientMap`, the two maps of `CClientManager`; of the sockets which are open, which `CXAsio` knows, and which a client was accepted on (`open`, `asioUsers`, `sock`); of every connection its `CXlClient` (`client`) and `m_userName`;
`subscribed` (how often it is on the bus's list) and `listMade`. Three threads (`thread`): the client service's worker, its listener, and the timer of `CheckClient`.

`Accept`, `CreateClientObj`, `ReadPosted` are the listener's `OnAccept`. `Found`, `DelUser`, `ReleaseClientObj`, `DeleteClient` are `OnBroken`: the handle is closed (`TcpServer4Client.cpp:156`) before the client is looked up by it (157), so that the listener may have
been given the same number in between; the client found under it is released then, and the one that had it before is in no table any more. `CheckClient` begins the same release from the timer. `GetClientObj` is `OnRead`'s look-up; `SelectUser` or `RefuseLogin`, `SetOnline`, `EnterUserMap`, `AcceptLogin` are the steps of `OnLogin`,
between which the other threads run: the client whose `OnLogin` it is may itself be deleted there. A client that has a session may log in again, as whomever: `m_userName` is overwritten whatever the answer (`XlClient.cpp:765-766`). `LoginFault` and the second branch of `Logout` are statements
that throw. `Restart` is a crash in any step followed by `CSqlServerAccess::Init`, whose UPDATEs may fail too; failed UPDATEs are remembered in `lost`.

`stuck` are the users whose entry was left to a client that will not clear it. The code has three ways to do this, and each action that does it says so: a client that logs in, or tries to, as somebody else forgets its first user (`Answer`); a client loses its place in `m_clientMap` to
a reused handle (`CreateClientObj`), or has lost it when its entry is made (`EnterUserMap`); a client is deleted inside its own `OnLogin`, after the entry and before the name (`DeleteClient`, `EnteredOnly`).

Run `login` (about 1.79 million states): two users, three connections on two handles, so that one handle is reused; any two commands to log in or out: a login and a second one, of the same or another client and user, or a logout; one fault, one restart. No fairness is assumed, only safety is stated. Two things the module shows and no property
denies: a user may get a second session nobody is told of, when the timer logs the first client out between a login's UPDATE and its
entry in the map; and a client that never logged in may stay on the bus's list for good.
`CHECK_DEADLOCK FALSE`: connections are used once, so behaviours end.

- `EntriesAreCleared`: the client an entry of `m_userMap` points to exists, is found by its socket and logs out as that user, or the user is `stuck`.
- `NoGhostOnline`: a user is online in the database only while such an entry is there or about to be made, or an UPDATE to offline failed (`lost`), or the user is `stuck`.

Proved for any users, connections, handles and bounds: `TypeOK` and both. The inductive invariant adds `ThreadsFit` (which step goes with which thread, client and handle), `ClientMapFits` (an entry of `m_clientMap` is a live client
under its own handle), `LeavingFits` (the client that is being deleted is the one in the map, and two threads never delete one client) and `OnlineHasEntry` (who is online has an entry, or an `OnLogin` that will make it, or is in `lost`).

### 3.4 `ClientStream`, `MCClientStream`, `ClientStreamProofs`

A client's commands are answered by the handler; video, alarms and record info are sent by *write loops*: an overlapped write completes,
`OnWrite` calls `ProcessData`, `ProcessAlarm` or `ProcessRcd`, which either prepares the next write or lets the loop end (`j_keep_e`). `OnRead`
starts a loop when the handler answers `j_read_write_..._e`. State: the loops of each kind that are under way (`dataLoops`, `alarmLoops`, `rcdLoops`,
`keepLoops` for the write type `j_rcd_keep_e`); the members that are to say so (`nRef`, `alarmRef`, `alarmBusy`, `rcdBusy`); `alarms` (`m_alarmInfoVec`); the hosts'
lists of buffers `alarmRings` and `rcdRings`; `asked`, the requests a device has not completed; `rcdBuffer`, the completions in `m_rcdBuffer`. `alarmsWanted` and
`rcdWanted` are history variables: what a client has opened, or asked for, of a host that is there.

Each handler is one step, with the first turn of the loop it starts, since `OnWork` runs them one after the other. `Play` and `Stop` are `OnRealPlay`/`OnVodPlay` and
`OnRealStop`/`OnVodStop` as far as `m_nRefCnt` goes (the rest is `RealPlay`). A turn of a loop that goes on changes nothing and is no step. `GetRcdInfo` is `OnGetRctInfo` with
`EnableRcdInfo`, the device's request and the first `MakeRcdData`. `Release` is `StopAll` and the deletion; writes under way remain and end when `OnWrite` finds no client.
Simplified: intervals before a completion are not represented; the video and record-info parts of an object that is gone are not used
again; a device is asked whenever the host is there, though the write on its socket may fail.

Run `client_stream` (375 973 states): two clients, so that one takes the device's answers from the other; only `c1` plays and opens alarms
(`Viewers`), because those parts of two clients share nothing; two hosts, so that a stop for one resets the state under a start for the other. `MaxPlays = 2` has a
play that finds another; `MaxLoops = 2` has the second loop that a stop and a play in quick succession start; `MaxRequests = 2` has one request overtake another.

- `PlaysAreServed`, `AlarmsAreServed`: who is to be sent something has a loop. More than one is possible and nothing in the repository forbids it.
- `AlarmsGoWhereTheyAreWanted`: no alarms into the buffer of a client that closed them or is deleted, none twice.
- `OneRcdLoopWhenBusy`: the state of record info is exact.
- `UnusedLoopsEnd` (liveness): fairness of completions. A write completes because the client reads or its connection breaks.

Violation run: `alarms_lost` (a request for record info sets the state of alarms, line 960). The module also shows that a second client's request for
record info takes the first one's completion (`EnableRcdInfo` clears the list), so that the first waits for good; no property denies it.

Proved in `ClientStreamProofs` for any clients, hosts and bounds: the five invariants of `client_stream`. `IInv` adds `AlarmRefsCountEntries` (the counter is the number of
entries, so that a loop that ends on zero leaves no entry behind) and `RingsHaveEntries` (a list holds only buffers of clients with an entry, and only if the host is in
`m_devMap`, so that a stop finds what it has to take out). `StepsByPart` splits the steps by the part they change; `StartAlarmFacts` and `MakeRcdDataFacts` say what the two
larger operations do; then one lemma per part.

Two theorems are about `UnusedLoopsEnd`. `NoLoopForNothing` (an action property): a client that needs no loop gets none, and each of its writes that completes leaves it one less. It rests on `AlarmRefsCountEntries`: a start of alarms
that enters no host leaves the counter at zero. `UnusedLoopsGetFewer`: for every `n`, a client with `n` such loops comes to need them or to have fewer, if its writes can complete (`WritesCanComplete`). The
induction over `n` is what only TLC checks.

### 3.5 `DeviceRegistry`, `MCDeviceRegistry`, `DeviceRegistryProofs`

A connection is known by its socket handle alone: `m_connMap`, `m_devMap` and `CXAsio`'s user map are keyed by it, completions carry it, and
the system gives a closed handle's number to the next connection. State: `handle` (what a number stands for now), `addr` (the number a
connection was accepted on), `up` (the device is at the other end), `calls` (overlapped calls not completed), `users` (`m_userMap`), the host objects (`object`, `id`,
`ready`, `silent`), `connMap`, `devMap`, what the listener and the worker are doing (`thread`), and the two locks that may be left held (`locker`, `userLocker`).

Four threads: the listener, the device service's worker, the client service's worker, and the timer, whose turns are one step each. `Accept`, `AddUser`, `CreateDevObj`, `Post` are the listener's steps of `OnListen` and `OnAccept`; `OnRead`, `ParserRequest`, `Post` are the worker's of a
message, so that the look-up of a host and its use are apart; `Fail` is a failed completion. `GetDeviceObj` and `SentData` are the client service's worker at the start of an upload: it looks a host up by its id, and later writes on that host's handle; a write that fails
(`x_asio_win.cpp:319-324`) makes it run the device service's `OnBroken`. `BrokenRelease`, `BrokenDelUser`, `BrokenClose` are the three parts of `OnBroken`, by whichever of the three threads.
`CheckNew`, `CheckOld`, `CheckUnready` are `CheckDevice` for one connection (the loop holds `m_locker`, but turns about different
connections commute). The second `TUnlock` of `CheckDevice` has either outcome of an unowned `LeaveCriticalSection`: nothing, or a lock nobody can take.
Assumed: a device does not change its id; `MaxCalls` calls at once on a connection; a use of a deleted host's memory does nothing.

Two threads may be in `OnBroken` of one connection. The second `j_close_socket` (`TcpServer4Device.cpp:116`) may then close a handle that a later, registered host has been given meanwhile; the next accept gets the number again and overwrites that host's entry in `m_connMap` (`DeviceManager.cpp:56`).
The host stays in `m_devMap` and is watched by nobody. `displaced` are the hosts whose entry was overwritten so, or erased with that of an older object of the same id under the same number (`AddDevice`).

Run `device_registry` (2 devices, 2 handles, 3 connections, one upload, one silence; 4 986 040 states): three connections on two handles make one reused, two devices and three hosts make one come back
before its older connection is noticed, and the upload brings in the fourth thread. `CHECK_DEADLOCK FALSE`: connections are bounded and locks may stick.

- `TablesHoldLiveHosts`: no entry of either map names a deleted host.
- `RegisteredHostsAreWatched`: a host in `m_devMap` is in `m_connMap` under the handle `m_devMap` has, marked registered, so that the timer can delete it, or is `displaced`.
- `RegisteredHostsAreFound`: a host with `bRegister` is found under its id.

Proved for any devices, handles, connections, calls and uploads: all four. `IInv` adds `ThreadsFit`, `NewHostsAreUntouched` (a host that has not been made has no entry, one that is ready has an id), `HostsKeepTheirHandle` (an entry of either table names its host under
the handle that host was accepted on) and `KeysAreUnique` (a host is in `m_devMap` under one id only, and a host not marked registered under none). Nothing is said of what a handle stands for: it may be closed under its host at any time.

`HostsAreDeletedOnce` is an action property over the same invariant: a host is deleted in exactly the step in which it leaves `m_devMap`, never twice, and who is in neither table stays as it is. The second
half has a price, which TLC shows: a connection that breaks before its device is registered leaves `m_connMap`, and its `CXlHost` is never deleted (`ReleaseDevObj` deletes through `DelDevice`, which knows `m_devMap` only).

### 3.6 `Upload`, `MCUpload`, `UploadProofs`

A client's upload is `OnUploadStart`, chunks, `OnUploadStop`; the host queues them in a ring buffer of its own; the device service's worker takes them out one by one, writes them,
and at an empty buffer waits in `j_sleep(1); goto begin_write`. State: the host objects of one device (`phase`, `link`, `current`, `closing`), `sessions` (`m_vecFileUploadInfo`), `queue`
(messages in place of frames; a start, a chunk or a stop is one message, which the code pushes in pieces), `writing` and `writeBuff`, what the two workers are doing (`worker` the device service's, `calling` and `sending` the client service's), `fileState` (the column), and what the device has of each file. `begun` is the
device's side: it may answer success when it has start and stop, failure any time in between. History variables count messages, starts and stops per connection.

`GetDeviceObj` is the look-up under `m_devLocker` (`XlClient.cpp:974`); `OnStartUpload`, `OnUploading`, `OnStopUpload` are the host's calls, made later, under `m_fileUploadLocker` at most, on a host that may have run `OnBroken` or be deleted by then. Each looks the host up anew, and may come in any
order and whatever has been started, as in the code. A session pushed behind `OnBroken`'s `clear` and before the deletion is nobody's to settle; a call on a deleted host puts nothing anywhere: files given so are `late`. The one device is followed; the others share its worker, which may be with them for as long as it likes (`HandleOther`, `OtherHandled`, without fairness).
`SentData` is apart from `OnStartUpload` because it is called after the lock has been left, on the client service's thread. `OnMsgInfo` and
`EraseSession` are the two parts of the device's answer: the first writes the state, the second erases the session under another lock. `OnBroken` fails all sessions left.
A terminator (no bytes, frame type 100) follows each stop and ends a write loop. `SpinOnDeleted` is a loop whose host has been deleted under it.
Left out: the message to the user, the layout of requests.

Run `upload` (333 890 states): one file, two connections of the device, four calls, a buffer for three messages, one fault: one upload's four messages overflow
it if the worker is late; a second start meets the first loop, or the device's next connection. A host whose buffer overflowed, or whose loop met a second start (two loops then share
`m_writeBuff`), is `damaged`: the runs go there, and the properties are about the others. `CHECK_DEADLOCK FALSE`: calls and connections are bounded.

- `EveryUploadIsSettled`: a file that is not settled has a session on the live host, so the loss of the device is written down as a failure, whatever result is in the middle of being written, but for the files whose UPDATE failed (`lost`) and the `late` ones.
- `NothingIsMissing`: what is being written and what waits are exactly the messages between the last the device has got and the last pushed, in order.
- `LoopsMatchUploads`: loops under way less terminators queued are starts less stops: each stop ends one loop, and none ends early.
- `StoppedUploadsLeaveTheWorker` (liveness): if the worker comes back from the other devices again and again (that is the property's hypothesis, not a fairness: another device's upload may keep it for good), the write loops of stopped uploads end. Fairness: a write completes or its connection breaks, the sleep loop goes on, a broken connection is noticed
  (by the failed write or the timer), and the completion port is a queue, so that a write's completion is not passed over for ever (the strong fairness of `OnWrite`).

Proved for any files, connections, calls, buffer size and faults: `TypeOK` and the three invariants. `IInv` has, besides what says where the two workers are (`WorkerIsOnAHost`, `CallFits`: the host about to be called was there once), two counts. `StreamsAreWhole`, of a host in use whose connection is not
damaged: at most one loop, the messages being written and waiting are numbered on from the last the device got, and, while `SentData` is due, there is a loop or a message to write whose last is not
a terminator, so that its first write finds something. `SessionsCoverStarts`, if no connection is damaged: a host has at least as many sessions of a file as starts of it that
wait, are being written, have been begun by the device, or have been answered with the session still to be erased; so `EraseSession` erases the session of its own answer and never that of
a later start of the same file. `OpenFilesHaveSessions` then gives `EveryUploadIsSettled`. The module has lemmas on counting in sequences, on what each operation does to the
two counts (`StreamSent`, `StreamTurn`, `StreamWritten`, `CoverStarted`, `CoverWritten`), and one lemma per action.

`WorkerWaitsForUploads`, from the first count: the worker is in a host's sleep loop with nothing to write only while more uploads have started there than stopped, so that an upload that is over does not hold the worker.
`LostUploadsAreSettled` (liveness): a file open on a device that is then lost is settled, by the answer that had come, by `OnBroken`, or by an UPDATE that fails, or is given again too late. Its premise `LossCanBeHandled` says
that `DelDevice` and `OnBroken` are enabled for a lost device; it is one deletion after the other otherwise, and needs no induction.

### 3.7 `FtpClient`, `SyncService`, `MCSyncService`, `SyncServiceProofs`

`FtpClient` has no state: each call of the library (`SendCommand`, `GetResponse`, `Logout`, `OpenControlChannel`) is an operator on a connection record that gives the set of outcomes. A connection is
the socket, `m_qResponseBuffer` (which outlives the socket), the replies on the wire and the representation the server has been told. Replies carry the command they answer, so that a
model can say what the program cannot see. A receive takes any number of the replies that are there; it may fail, or find the server gone.

`SyncService` is the worker thread of `CDataDownloader`, one exchange a step, from `GetFileList` (login, `TYPE A`, `PORT`, `NLST`, data, last reply) to `StartDownLoad` (look-up, `PrepareSpace`,
`SIZE`, `TYPE I`, `PORT`, `REST`, `RETR`, data, last reply), with the callbacks `OnPreReceiveFile` and `OnEndReceivingData` where they are made, the broadcast listener (`UpdateHostInfo`) and `Restart`.
`disk` and `rows` survive a restart. Files are numbered in the order of their time stamps, and a listing is in that order.

What the module shows and the properties are relative to: `OnEndReceivingData` returns before it compares lengths, so a broken transfer is recorded (`cut`); `CFtpHelper` never takes its callback back, so
the end of a later listing is recorded as the last file's (`echoed`); a transfer given up leaves its last reply to the next command (`strayed`); a transfer that a time-out or a stop
leaves after its last byte leaves a whole file without a row, and so does `PrepareSpace` when `remove()` fails for a file in use, since it deletes the row all the same (`orphaned`, until the file is recorded again); a stop between `remove()`
and the row's deletion leaves a row without its file (`removed`). A
failed login leaves the connection open. Files older than the oldest row of *any* recorder count as downloaded (`HasDownLoaded`). The first recorder of the map starves the others while it answers. `CheckHost` has
no caller. `m_nMaxFreeSize` is the space to be kept free (`SyncDataService.cpp:14`), though `DataDownloader.h:17` calls it the most that may be used.

Run `sync_service` (497 582 states; bounds in `MCSyncService.cfg`): two recorders, so that a row may be under the wrong one; a file each and room for one of them, so that the disk clean-up runs; one fault
at any exchange, one restart. Fairness: the worker goes on; a socket call ends in an answer or a time-out, but `Accept` has none (`deaf`).

- `RepliesAreInStep`: a command returns another one's reply only on a connection with a stray.
- `RecordedFilesAreWhole`, `WholeFilesCanBeDeleted`: the table and the disk agree, both ways, but for the named cases.
- `DownloaderComesBack` (liveness): the worker is at its list again and again, or waits in `Accept` or in `PrepareSpace` without rows.

Proved for any number of recorders, files, faults and restarts: the four invariants. `IInv` adds `RepliesAreExpected` (on a connection without strays, buffer and wire hold only what the step will ask for),
`JobFits` (which step has which file and recorder), `NotYetRecorded` (the file on its way has no row yet), `ObserverIsThere` (during a transfer the callback is the downloader's), `ReceivedFilesAreWhole` and
`WrongRowsAreEchoed` (a row under another recorder than the file's comes from a listing's end).

Three theorems are about the worker's turn, which ends at its list (`idle`), in `PrepareSpace` (`space`) or in `Accept` (`deaf`). `TurnsGoOn`: `Rank`, at most 15, falls with every exchange, whether the server answers, refuses, is
silent or gone; only a restart goes straight to the list. `EveryTurnEnds`: hence every turn ends, if the worker has a step to take within its turn (`WorkerCanStep`). `RoomOrFewerRows`: each turn of
`PrepareSpace` finds space or deletes rows. What `DownloaderComesBack` says beyond these is an induction over the rows.

### 3.8 `Playback`, `MCPlayback`, `PlaybackProofs`

The file reader's trigger thread is the clock (`Tick`), the sender reads what is due (`Wake` to `LeaveLoop`, one step per visit to `s_file_mux` and one per effect inside where another thread can see
the difference), the decoder shows what is queued (`Show`), the player's calls come one at a time (`Call`) and those with more than one effect outside a common lock are several steps. `pos` is a place in the file: before a header, before
a body, or `Nowhere`, inside something. `header` is what the sender read last. `raced` records that a call which moves the file met the sender on its way, `leaked` a failed Open, which returns holding `s_file_mux` (920-932).

Run `playback` (387 194 states): three frames, four calls: enough for start, seek, a second seek or stop, and a start again. Fairness: each thread goes on when it can, a call once begun goes on; the player
need not call. `CHECK_DEADLOCK FALSE`: calls are bounded. Run `playback_assert` ends in the violation of `KnownTypes` (see "findings").

- `FramesAreReadWhole`: headers and bodies are read where they are, unless raced.
- `NoFrameIsSkipped`: the queue is exactly the frames between the last shown and the place in the file, unless raced.
- `QueuedFramesAreShown`, `PlaysToTheEnd` (liveness): no wake-up is lost; a file that plays comes to its end, unless a failed Open blocks the sender or a race stops the trigger.

Proved for any file length and number of calls: the three invariants and, of the two liveness properties, `QueuedFramesAreShown`. `NoWakeUpIsLost` says that queued frames have been announced or are about to be, which holds because
only the decoder takes the announcement and it empties the queue; then the sender's fairness announces and the decoder's shows. The premises `SenderCanAnnounce` and `DecoderCanShow` say that the two steps are
enabled there. `PlaysToTheEnd` is an induction over the file. `IInv` says, besides, where the place is at each of the sender's steps, which `s_bReadData` goes with it, and that
who is in `s_file_mux` is where it must be.

Not in the model: speeds and steps (`CalcSpeed` is a new clock), `IsNeedShow`, audio and alarm frames, `GetFileInfo`, `UnInitialize` (which frees the queue while the threads run), and the tick's
read-modify-write of `s_tmStart`. `Normal` resumes a paused file and leaves `s_bPause` set; the model has it (`SetSpeed`).

## 4. What is proved and what is only checked

Proved (TLAPS, every leaf): the theorems named in section 3. They assume of the constants what the `ASSUME`s of the modules say and nothing else. Every invariant of a passing run is among them, so is
the refinement `ImplementsFrameQueue`.

Liveness is proved in part. The provers have no rule for `ENABLED`, but propositional temporal logic can use a fairness condition whose `ENABLED` stays a symbol. So a theorem about something that happens eventually
has a premise of the form `[](P => ENABLED <<A>>_vars)`, named and defined before it: `PushCanGoOn`, `SenderCanAnnounce`, `DecoderCanShow`, `WorkerCanStep`, `WritesCanComplete`, `LossCanBeHandled`. In each, `P` implies the
guard of `A`. One premise goes the other way: `TurnsOnlyForPushes` of `FrameQueue` says that its fair action is enabled only for a push, `[](ENABLED <<A>>_vars => P)`, which carries its fairness from the buffer. TLC finds each of them true of the specification on the instance of the run. The rest of these theorems (that the step taken leads where it should, and that no other step leads away) is proved
from the inductive invariants.

| Property | Proved | Only model-checked |
|---|---|---|
| `EveryPushCompletes` | from its two premises | the premises |
| `QueuedFramesAreShown` | from its two premises | the premises |
| `UnusedLoopsEnd` | loops never become more; from `n` there are fewer some time | the induction over `n` |
| `DownloaderComesBack` | every turn ends; each turn of `PrepareSpace` has fewer rows | the induction over the rows |
| `StoppedUploadsLeaveTheWorker` | the worker waits only for uploads under way | that the messages ahead are written once the worker is back, an induction over the queue |
| `PlaysToTheEnd` | that no wake-up is lost | the induction over the file |

An induction in a temporal formula needs a theorem with an operator as its parameter, which the installed provers cannot instantiate.
What the violation runs are about is model-checked: they are counterexamples. Only the deadlock of `recovery` also has a theorem, that it is for good.

## 5. Mutants

Each property has a variant of a mapped definition (marked "Slip" in the modules) that a plausible mistake in that code would
produce and that makes TLC find the property violated. The variants are used by no run of their own.

## 6. Not modelled

- The sessions of vod (`OpenVod`, `CloseVod`, `StopAllVod`). They are live video's sessions once more, without counts or reconnection; what is particular is `StopAllVod` (`XlClient.cpp:695-737`),
  which clears `m_videoInfoVec` where it means `m_vodInfoVec` and releases a lock it does not hold.
- Text messages, alarms and logs into the database: forwarded or inserted, read by no later decision. `m_pRec`, which the threads share without a lock: appears as a statement that throws.
- `Request`, `Response`, `CheckState` of the data bus, `Notify` of the client registry: no caller.
- Locks, threads, timers, sockets, the log, configuration, headers and checksums, the Windows services: no state that the properties depend on, or modelled where they are used.
- The synchronisation service's Equipment table and failing INSERTs; of the FTP library everything its one user does not call (uploads, passive mode, directories, firewalls, list parsing).
- The demonstration client and the renderer are dialogs and drawing over vendored SDL headers; `FileReader__.c` is an older copy of the file reader. These and the headers are most of the repository's lines,
  which is why the modules stand for a small share of them.
