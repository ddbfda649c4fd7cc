-------------------------------- MODULE Upload --------------------------------
(***************************************************************************)
(* Files on their way from clients to a device.  The client service's      *)
(* worker puts the messages into the host's upload buffer (CXlHost::       *)
(* OnStartUpload, OnUploading, OnStopUpload); the device service's only    *)
(* worker takes them out again, one overlapped write after the other       *)
(* (CTcpServer4Device::OnWrite, CXlHost::ProcessUploadData), and waits for *)
(* more in a sleep loop.  A message of length zero ends the write loop.    *)
(*                                                                         *)
(* One device is followed over the host objects of its connections; the    *)
(* other devices share the worker with it, and keep it as long as they     *)
(* like.  The client service's worker looks the host up, lets m_devLocker  *)
(* go, and uses the pointer later.                                         *)
(***************************************************************************)
EXTENDS Integers, Sequences, SequencesExt, FiniteSets

CONSTANTS
    Files,          \* the file ids of table FileInfo
    MaxHosts,       \* bound: connections of the device
    MaxCalls,       \* bound: uploads started, chunks and stops handled in a behaviour
    Capacity,       \* messages the upload buffer has room for
    MaxFaults,      \* bound: UPDATE statements that fail
    NoFile          \* "no file"

ASSUME UploadAssumption ==
    /\ MaxHosts \in Nat \ {0}
    /\ MaxCalls \in Nat
    /\ Capacity \in Nat \ {0}
    /\ MaxFaults \in Nat
    /\ NoFile \notin Files

Hosts == 1 .. MaxHosts
NoHost == 0

VARIABLES
    phase,      \* of a host object: "new", "live", "broken" (OnBroken has run), "deleted"
    link,       \* hosts whose device is still at the other end
    current,    \* the host m_devMap has for the device, or NoHost
    closing,    \* the host DelDevice is at work on (m_devLocker), or NoHost
    sessions,   \* m_vecFileUploadInfo of a host, as file ids
    queue,      \* m_uploadRingBuffer of a host
    writing,    \* the writes under way on a host's connection, oldest first
    writeBuff,  \* m_writeBuff: what was taken out of the buffer last
    worker,     \* what the device worker is doing, and on which host
    sending,    \* the host SentData is about to be called for, or NoHost
    calling,    \* what the client worker is about to call, for which file, and on which host
    begun,      \* what the device has of a file, by connection: "no", "begun", "whole"
    calls,      \* calls made so far
    faults,     \* UPDATE statements that failed
    fileState,  \* FileInfo.State: "none", "done", "failed"
    open,       \* history: files given to a host and not settled since
    lost,       \* history: files whose UPDATE failed
    late,       \* history: files given to a host whose OnBroken had run
    pushed,     \* history: messages put into a host's buffer
    got,        \* history: the number of the last message the device got, or that ended a loop
    starts,     \* history: uploads started on a host
    stops,      \* history: uploads stopped on a host
    damaged     \* history: hosts whose buffer overflowed, or whose loop met a second start

hostVars == <<phase, link, current, closing>>
bufferVars == <<queue, writing, writeBuff>>
fileVars == <<sessions, fileState, open, lost, late, faults>>
clientVars == <<calling, calls>>
historyVars == <<pushed, got, starts, stops, damaged>>
vars == <<hostVars, bufferVars, fileVars, historyVars, clientVars, worker, sending, begun>>

Idle == [at |-> "idle", host |-> NoHost, file |-> NoFile]
Away == [at |-> "away", host |-> NoHost, file |-> NoFile]

\* A message of the buffer; its number is its place among those of its connection.
Message == [kind : {"start", "data", "stop"}, file : Files, n : Nat]
\* Stop's second push: no bytes, frame type 100.
Terminator == [kind : {"end"}, file : {NoFile}, n : Nat]
\* What a write that found the buffer empty sends.
Nothing == [kind |-> "none", file |-> NoFile, n |-> 0]

Init ==
    /\ phase = [h \in Hosts |-> "new"]
    /\ link = {}
    /\ current = NoHost
    /\ closing = NoHost
    /\ sessions = [h \in Hosts |-> <<>>]
    /\ queue = [h \in Hosts |-> <<>>]
    /\ writing = [h \in Hosts |-> <<>>]
    /\ writeBuff = [h \in Hosts |-> Nothing]
    /\ worker = Idle
    /\ sending = NoHost
    /\ calling = Idle
    /\ calls = 0
    /\ begun = [h \in Hosts |-> [f \in Files |-> "no"]]
    /\ faults = 0
    /\ fileState = [f \in Files |-> "none"]
    /\ open = {}
    /\ lost = {}
    /\ late = {}
    /\ pushed = [h \in Hosts |-> 0]
    /\ got = [h \in Hosts |-> 0]
    /\ starts = [h \in Hosts |-> 0]
    /\ stops = [h \in Hosts |-> 0]
    /\ damaged = {}

-------------------------------------------------------------------------------

(***************************************************************************)
(* The buffer: a full one drops its oldest message.                        *)
(***************************************************************************)

\* Slip: nothing is dropped for the new message.
PutUnbounded(q, m) == Append(q, m)

Put(q, m) == Append(IF Len(q) < Capacity THEN q ELSE Tail(q), m)

\* Whether putting n messages in drops some.
Overflows(h, n) == Len(queue[h]) + n > Capacity

Push(h, kind, f) ==
    /\ queue' = [queue EXCEPT ![h] = Put(@, [kind |-> kind, file |-> f, n |-> pushed[h] + 1])]
    /\ pushed' = [pushed EXCEPT ![h] = @ + 1]

MarkDamage(h, cond) == damaged' = IF cond THEN damaged \cup {h} ELSE damaged

Spins(h) == worker.at = "spin" /\ worker.host = h

\* Write loops of a host: writes under way, and the worker's waiting for more.
Loops(h) == Len(writing[h]) + (IF Spins(h) THEN 1 ELSE 0)

(***************************************************************************)
(* The client service's worker.                                            *)
(***************************************************************************)

\* OnUploadStart, OnUploadFile and OnUploadStop all look the host up by the id they were
\* sent, whatever has been started.  Without a host nothing happens, and the client is
\* told 0 all the same.
GetDeviceObj(call, f) ==
    /\ calling = Idle
    /\ sending = NoHost
    /\ closing = NoHost
    /\ current # NoHost
    /\ calls < MaxCalls
    /\ calls' = calls + 1
    /\ calling' = [at |-> call, host |-> current, file |-> f]
    /\ UNCHANGED <<hostVars, bufferVars, fileVars, historyVars, worker, sending, begun>>

\* The host is called, whatever has become of it.
Call(call) == calling.at = call /\ calling' = Idle

\* Slip: the session is not recorded.
AddSessionNot(h, f) == UNCHANGED sessions

AddSession(h, f) == sessions' = [sessions EXCEPT ![h] = Append(@, f)]

\* The session, the message, and SentData is to be called.
OnStartUpload ==
    LET h == calling.host
        f == calling.file
    IN  /\ Call("start")
        /\ sending' = h
        /\ open' = open \cup {f}
        /\ lost' = lost \ {f}
        /\ late' = IF phase[h] = "live" THEN late \ {f} ELSE late \cup {f}
        /\ IF phase[h] = "deleted"
           THEN UNCHANGED <<sessions, queue, pushed, starts, damaged>>
           ELSE /\ AddSession(h, f)
                /\ MarkDamage(h, Overflows(h, 1))
                /\ Push(h, "start", f)
                /\ starts' = [starts EXCEPT ![h] = @ + 1]
        /\ UNCHANGED <<hostVars, writing, writeBuff, fileState, faults, got, stops, worker, calls,
                       begun>>

\* The host's next message ends a loop.
AtEnd(h) == queue[h] # <<>> /\ Head(queue[h]).kind = "end"

\* The device has got message n; a terminator that is taken out next comes right behind it.
GotUpTo(h, n) == got' = [got EXCEPT ![h] = IF AtEnd(h) THEN Head(queue[h]).n ELSE n]

\* The first write of a loop is issued by the client service's worker.  The host is
\* looked up by its handle, which may by then be that of the device's next connection.
SentData(h) ==
    LET m == IF queue[h] = <<>> THEN Nothing ELSE Head(queue[h])
    IN  /\ sending # NoHost
        /\ closing = NoHost
        /\ \/ h = sending
           \/ h = current /\ phase[sending] = "deleted"
        /\ sending' = NoHost
        /\ IF phase[h] # "live"
           THEN UNCHANGED <<bufferVars, closing, got, damaged>>
           ELSE /\ queue' = [queue EXCEPT ![h] = IF @ = <<>> THEN @ ELSE Tail(@)]
                /\ GotUpTo(h, got[h])
                /\ MarkDamage(h, h # sending \/ Loops(h) > 0 \/ (~AtEnd(h) /\ h \notin link))
                /\ IF AtEnd(h)
                   THEN UNCHANGED <<writing, writeBuff, closing>>
                   ELSE /\ writeBuff' = [writeBuff EXCEPT ![h] = IF m = Nothing THEN @ ELSE m]
                        /\ IF h \in link
                           THEN writing' = [writing EXCEPT ![h] = Append(@, m)] /\ UNCHANGED closing
                           ELSE closing' = h /\ UNCHANGED writing
        /\ UNCHANGED <<phase, link, current, fileVars, pushed, starts, stops, worker,
                       clientVars, begun>>

\* A chunk.
OnUploading ==
    LET h == calling.host
    IN  /\ Call("chunk")
        /\ IF phase[h] = "deleted"
           THEN UNCHANGED <<queue, pushed, damaged>>
           ELSE MarkDamage(h, Overflows(h, 1)) /\ Push(h, "data", calling.file)
        /\ UNCHANGED <<hostVars, writing, writeBuff, fileVars, got, starts, stops, worker, sending, calls,
                       begun>>

\* Slip: no terminator.
PutStopUnended(q, m) == Put(q, m)

\* OnStopUpload: the message, and the terminator behind it.
PutStop(q, m) == Put(Put(q, m), [kind |-> "end", file |-> NoFile, n |-> m.n + 1])

OnStopUpload ==
    LET h == calling.host
        stop == [kind |-> "stop", file |-> calling.file, n |-> pushed[h] + 1]
    IN  /\ Call("stop")
        /\ IF phase[h] = "deleted"
           THEN UNCHANGED <<queue, pushed, stops, damaged>>
           ELSE /\ MarkDamage(h, Overflows(h, 2))
                /\ queue' = [queue EXCEPT ![h] = PutStop(@, stop)]
                /\ pushed' = [pushed EXCEPT ![h] = @ + 2]
                /\ stops' = [stops EXCEPT ![h] = @ + 1]
        /\ UNCHANGED <<hostVars, writing, writeBuff, fileVars, got, starts, worker, sending, calls,
                       begun>>

-------------------------------------------------------------------------------

(***************************************************************************)
(* The device service's worker: write loops.                               *)
(***************************************************************************)

\* What reaches the device: what was in m_writeBuff when the write was issued, or
\* what a second loop has put there since.
Deliver(h, m) ==
    /\ GotUpTo(h, IF m = Nothing THEN got[h] ELSE m.n)
    /\ begun' = CASE m.kind = "start" -> [begun EXCEPT ![h][m.file] = "begun"]
                  [] m.kind = "stop" /\ begun[h][m.file] = "begun" ->
                         [begun EXCEPT ![h][m.file] = "whole"]
                  [] OTHER -> begun

\* The worker handles a completion of another device, whose upload may keep it.
HandleOther ==
    /\ worker = Idle
    /\ worker' = Away
    /\ UNCHANGED <<hostVars, bufferVars, fileVars, historyVars, sending, clientVars, begun>>

OtherHandled ==
    /\ worker = Away
    /\ worker' = Idle
    /\ UNCHANGED <<hostVars, bufferVars, fileVars, historyVars, sending, clientVars, begun>>

\* Slip: the terminator is taken for nothing, and waited on.
ProcessUploadDataEndless(h, others) ==
    IF queue[h] = <<>> \/ AtEnd(h)
    THEN /\ queue' = [queue EXCEPT ![h] = IF @ = <<>> THEN @ ELSE Tail(@)]
         /\ writing' = [writing EXCEPT ![h] = others]
         /\ worker' = [at |-> "spin", host |-> h, file |-> NoFile]
         /\ UNCHANGED writeBuff
    ELSE /\ queue' = [queue EXCEPT ![h] = Tail(@)]
         /\ worker' = Idle
         /\ writing' = [writing EXCEPT ![h] = Append(others, Head(queue[h]))]
         /\ writeBuff' = [writeBuff EXCEPT ![h] = Head(queue[h])]

\* Slip: what is taken out while waiting is not written.
ProcessUploadDataUnwritten(h, others) ==
    /\ queue' = [queue EXCEPT ![h] = IF @ = <<>> THEN @ ELSE Tail(@)]
    /\ writing' = [writing EXCEPT ![h] = others]
    /\ worker' = IF AtEnd(h)
                 THEN Idle ELSE [at |-> "spin", host |-> h, file |-> NoFile]
    /\ UNCHANGED writeBuff

\* One turn of OnWrite's loop, beside the host's other writes: the next message is
\* written, a terminator ends the loop, and if there is nothing the worker waits.
ProcessUploadData(h, others) ==
    IF queue[h] = <<>>
    THEN /\ writing' = [writing EXCEPT ![h] = others]
         /\ worker' = [at |-> "spin", host |-> h, file |-> NoFile]
         /\ UNCHANGED <<queue, writeBuff>>
    ELSE LET m == Head(queue[h])
         IN  /\ queue' = [queue EXCEPT ![h] = Tail(@)]
             /\ worker' = Idle
             /\ IF AtEnd(h)
                THEN writing' = [writing EXCEPT ![h] = others] /\ UNCHANGED writeBuff
                ELSE /\ writing' = [writing EXCEPT ![h] = Append(others, m)]
                     /\ writeBuff' = [writeBuff EXCEPT ![h] = m]

\* A write completes: OnWrite prepares the next one.
OnWrite(h) ==
    /\ worker = Idle
    /\ closing = NoHost
    /\ h \in link
    /\ phase[h] = "live"
    /\ writing[h] # <<>>
    /\ \E m \in {Head(writing[h]), writeBuff[h]} : Deliver(h, m)
    /\ ProcessUploadData(h, Tail(writing[h]))
    /\ UNCHANGED <<hostVars, fileVars, pushed, starts, stops, damaged, sending, clientVars>>

\* The sleep loop of OnWrite: j_sleep(1), and another look at the buffer.
SpinTurn(h) ==
    /\ Spins(h)
    /\ phase[h] # "deleted"
    /\ queue[h] # <<>>
    /\ h \in link
    /\ ProcessUploadData(h, writing[h])
    /\ GotUpTo(h, got[h])
    /\ UNCHANGED <<hostVars, fileVars, pushed, starts, stops, damaged, sending, clientVars, begun>>

\* The same when the connection is gone: the write fails, and OnBroken deletes the host.
SpinFails(h) ==
    /\ Spins(h)
    /\ phase[h] = "live"
    /\ queue[h] # <<>>
    /\ h \notin link
    /\ closing = NoHost
    /\ queue' = [queue EXCEPT ![h] = Tail(@)]
    /\ worker' = Idle
    /\ closing' = IF AtEnd(h) THEN NoHost ELSE h
    /\ GotUpTo(h, got[h])
    /\ UNCHANGED <<phase, link, current, writing, writeBuff, fileVars, pushed, starts, stops, damaged,
                   sending, clientVars, begun>>

\* The host is deleted under the loop.  The buffer is read all the same: the loop
\* may end with an exception that OnWork catches, or go on for ever.
SpinOnDeleted(h) ==
    /\ Spins(h)
    /\ phase[h] = "deleted"
    /\ worker' = Idle
    /\ UNCHANGED <<hostVars, bufferVars, fileVars, historyVars, sending, clientVars, begun>>

(***************************************************************************)
(* The device's answer: the file is there, or is not.                      *)
(***************************************************************************)

\* UpdateFileInfo of some files at once, some of which fail.
UpdateFileInfo(fs, failing, state) ==
    /\ failing \subseteq fs
    /\ faults + Cardinality(failing) <= MaxFaults
    /\ faults' = faults + Cardinality(failing)
    /\ fileState' = [f \in Files |-> IF f \in fs \ failing THEN state ELSE fileState[f]]
    /\ open' = open \ (fs \ failing)
    /\ lost' = lost \cup failing

\* OnMsgInfo, first part: the result goes into the database and to the user.
OnMsgInfo(h, f, state) ==
    /\ worker = Idle
    /\ closing = NoHost
    /\ h \in link
    /\ phase[h] = "live"
    /\ begun[h][f] \in (IF state = "done" THEN {"whole"} ELSE {"begun", "whole"})
    /\ begun' = [begun EXCEPT ![h][f] = "no"]
    /\ \E failing \in SUBSET {f} : UpdateFileInfo({f}, failing, state)
    /\ worker' = [at |-> "result", host |-> h, file |-> f]
    /\ UNCHANGED <<hostVars, bufferVars, historyVars, sessions, late, sending, clientVars>>

\* Second part: the first session of the file is erased.  If the host has been
\* deleted meanwhile, its list and lock are dead memory.
EraseSession ==
    LET h == worker.host
    IN  /\ worker.at = "result"
        /\ IF phase[h] = "deleted"
           THEN /\ worker' \in {Idle, [worker EXCEPT !.at = "dead"]}
                /\ UNCHANGED sessions
           ELSE /\ worker' = Idle
                /\ sessions' = [sessions EXCEPT ![h] = RemoveFirst(@, worker.file)]
        /\ UNCHANGED <<hostVars, bufferVars, fileState, open, lost, late, faults, historyVars, sending,
                       clientVars, begun>>

-------------------------------------------------------------------------------

(***************************************************************************)
(* The host: its device registers, is lost, or falls silent.               *)
(***************************************************************************)

Register(h) ==
    /\ current = NoHost
    /\ closing = NoHost
    /\ phase[h] = "new"
    /\ \A k \in 1 .. (h - 1) : phase[k] # "new"
    /\ phase' = [phase EXCEPT ![h] = "live"]
    /\ link' = link \cup {h}
    /\ current' = h
    /\ UNCHANGED <<closing, bufferVars, fileVars, historyVars, worker, sending, clientVars, begun>>

PeerGone(h) ==
    /\ h \in link
    /\ link' = link \ {h}
    /\ UNCHANGED <<phase, current, closing, bufferVars, fileVars, historyVars, worker, sending,
                   clientVars, begun>>

\* DelDevice: called by the worker for a broken connection, and by the timer for a
\* host whose messages the worker has not got to for 120 s.
DelDevice(h) ==
    /\ current = h
    /\ closing = NoHost
    /\ closing' = h
    /\ UNCHANGED <<phase, link, current, bufferVars, fileVars, historyVars, worker, sending,
                   clientVars, begun>>

\* CXlHost::OnBroken: what has not been answered has failed.
OnBroken(h) ==
    /\ closing = h
    /\ phase[h] = "live"
    /\ phase' = [phase EXCEPT ![h] = "broken"]
    /\ \E failing \in SUBSET ToSet(sessions[h]) :
           UpdateFileInfo(ToSet(sessions[h]), failing, "failed")
    /\ sessions' = [sessions EXCEPT ![h] = <<>>]
    /\ UNCHANGED <<link, current, closing, late, bufferVars, historyVars, worker, sending,
                   clientVars, begun>>

\* DelDevice deletes the host; its connection is closed, its writes are aborted.
Delete(h) ==
    /\ closing = h
    /\ phase[h] = "broken"
    /\ phase' = [phase EXCEPT ![h] = "deleted"]
    /\ link' = link \ {h}
    /\ writing' = [writing EXCEPT ![h] = <<>>]
    /\ current' = NoHost
    /\ closing' = NoHost
    /\ queue' = [queue EXCEPT ![h] = <<>>]
    /\ writeBuff' = [writeBuff EXCEPT ![h] = Nothing]
    /\ begun' = [begun EXCEPT ![h] = [f \in Files |-> "no"]]
    /\ pushed' = [pushed EXCEPT ![h] = 0]
    /\ got' = [got EXCEPT ![h] = 0]
    /\ stops' = [stops EXCEPT ![h] = 0]
    /\ UNCHANGED <<fileVars, starts, damaged, worker, sending, clientVars>>

-------------------------------------------------------------------------------

ClientStep ==
    \/ \E call \in {"start", "chunk", "stop"}, f \in Files : GetDeviceObj(call, f)
    \/ OnStartUpload
    \/ OnUploading
    \/ OnStopUpload

HostStep(h) ==
    \/ SentData(h)
    \/ OnWrite(h)
    \/ SpinTurn(h)
    \/ SpinFails(h)
    \/ SpinOnDeleted(h)
    \/ \E f \in Files, state \in {"done", "failed"} : OnMsgInfo(h, f, state)
    \/ Register(h)
    \/ PeerGone(h)
    \/ DelDevice(h)
    \/ OnBroken(h)
    \/ Delete(h)

WorkerStep == HandleOther \/ OtherHandled \/ EraseSession

Next == ClientStep \/ WorkerStep \/ \E h \in Hosts : HostStep(h)

\* The server's threads go on, a write completes or its connection breaks, a broken
\* connection is noticed; the completion port is a queue, so nobody is passed over.
HostGoesOn(h) ==
    /\ SF_vars(OnWrite(h))
    /\ WF_vars(SpinTurn(h) \/ SpinFails(h))
    /\ WF_vars(h \notin link /\ DelDevice(h))
    /\ WF_vars(OnBroken(h))
    /\ WF_vars(Delete(h))

HostsGoOn == \A h \in Hosts : HostGoesOn(h)

Fairness == WF_vars(\E h \in Hosts : SentData(h)) /\ WF_vars(EraseSession) /\ HostsGoOn

Spec == Init /\ [][Next]_vars /\ Fairness

-------------------------------------------------------------------------------

Messages == Message \cup Terminator

TypeOK ==
    /\ phase \in [Hosts -> {"new", "live", "broken", "deleted"}]
    /\ link \in SUBSET Hosts
    /\ current \in Hosts \cup {NoHost}
    /\ closing \in Hosts \cup {NoHost}
    /\ sessions \in [Hosts -> Seq(Files)]
    /\ queue \in [Hosts -> Seq(Messages)]
    /\ \A h \in Hosts : Len(queue[h]) <= Capacity
    /\ writing \in [Hosts -> Seq(Message \cup {Nothing})]
    /\ writeBuff \in [Hosts -> Message \cup {Nothing}]
    /\ worker \in [at : {"idle", "away", "spin", "result", "dead"}, host : Hosts \cup {NoHost},
                   file : Files \cup {NoFile}]
    /\ sending \in Hosts \cup {NoHost}
    /\ calling \in [at : {"idle", "start", "chunk", "stop"}, host : Hosts \cup {NoHost},
                    file : Files \cup {NoFile}]
    /\ calls \in 0 .. MaxCalls
    /\ begun \in [Hosts -> [Files -> {"no", "begun", "whole"}]]
    /\ faults \in 0 .. MaxFaults
    /\ fileState \in [Files -> {"none", "done", "failed"}]
    /\ open \in SUBSET Files
    /\ lost \in SUBSET Files
    /\ late \in SUBSET Files
    /\ pushed \in [Hosts -> Nat]
    /\ got \in [Hosts -> Nat]
    /\ starts \in [Hosts -> Nat]
    /\ stops \in [Hosts -> Nat]
    /\ damaged \in SUBSET Hosts

\* A file given to a device gets its result: until it has one, the device's host has a
\* session of it, so that its loss is written down as a failure (unless the UPDATE
\* fails, or a damaged stream makes the device answer one start twice).  Only a file
\* whose host was broken between the look-up and OnStartUpload is left without.
EveryUploadIsSettled ==
    damaged = {} =>
        \A f \in open \ (lost \cup late) :
            \E h \in Hosts : phase[h] = "live" /\ f \in ToSet(sessions[h])

\* Unless the buffer overflowed or two loops shared m_writeBuff, what the device has
\* got, what is being written and what is waiting are together what was sent.
NothingIsMissing ==
    \A h \in Hosts \ damaged :
        LET rest == writing[h] \o queue[h]
        IN  phase[h] = "live" /\ h # closing =>
                /\ Len(rest) = pushed[h] - got[h]
                /\ \A i \in DOMAIN rest : rest[i].n = got[h] + i

Terminators(h) == Cardinality({i \in DOMAIN queue[h] : queue[h][i].kind = "end"})

\* Every upload that is stopped ends one write loop, or will, and no loop ends
\* without one: the worker waits only for uploads that go on.
LoopsMatchUploads ==
    \A h \in Hosts \ damaged :
        phase[h] = "live" /\ h # closing =>
            Loops(h) + (IF sending = h THEN 1 ELSE 0) - Terminators(h) = starts[h] - stops[h]

WorkerLost == worker.at = "dead" \/ (worker.at = "spin" /\ phase[worker.host] = "deleted")

\* When all uploads to a device have been stopped, its write loops end, if only the worker
\* comes back from the other devices, whose uploads may keep it.
StoppedUploadsLeaveTheWorker ==
    []<>(worker.at # "away") =>
        \A h \in Hosts :
            phase[h] = "live" /\ starts[h] <= stops[h] /\ h \notin damaged
                ~> Loops(h) = 0 \/ phase[h] # "live" \/ starts[h] > stops[h] \/ h \in damaged
                       \/ WorkerLost

===============================================================================
