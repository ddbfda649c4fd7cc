---------------------------- MODULE ClientStream -----------------------------
(***************************************************************************)
(* The write loops of a client (CXlClient).  What devices send is put into *)
(* the client's buffers; the server's IO (CTcpServer4Client, CXAsio) sends *)
(* it on: an overlapped write completes, OnWrite asks the client for more  *)
(* (ProcessData, ProcessAlarm, ProcessRcd) and writes again.  Such a loop  *)
(* is started by the command that first needs it and ends when a           *)
(* completion finds it unused.  Counters (m_nRefCnt, m_nAlarmRefCnt) and   *)
(* states (m_ioAlarmState, m_ioRcdState) of the client say which loops it  *)
(* has: these, the lists of buffers in the hosts and the loops themselves  *)
(* must agree.                                                             *)
(*                                                                         *)
(* One thread (CXAsio::OnWork) runs the handlers of all clients, so each   *)
(* is one step, with the first turn of the loop it starts (OnRead); the    *)
(* handlers of devices and the timers that delete clients and devices are  *)
(* others.  A client is one connection and is used once.                   *)
(***************************************************************************)
EXTENDS Integers, Sequences, FiniteSets

CONSTANTS
    Clients,
    Viewers,       \* bound: the clients that play and open alarms
    Hosts,
    NoHost,
    MaxPlays,      \* bound: plays of a client that are not stopped
    MaxLoops,      \* bound: loops of one kind that a client has
    MaxRequests    \* bound: requests for record info in a behaviour

ASSUME ClientStreamAssumption ==
    /\ Viewers \subseteq Clients
    /\ NoHost \notin Hosts
    /\ MaxPlays \in Nat
    /\ MaxLoops \in Nat
    /\ MaxRequests \in Nat

VARIABLES
    state,         \* of a client: "new", "on", "gone"
    registered,    \* hosts in m_devMap
    nRef,          \* m_nRefCnt: plays, live and recorded
    dataLoops,     \* overlapped writes of type j_data_e
    alarms,        \* m_alarmInfoVec
    alarmRef,      \* m_nAlarmRefCnt
    alarmBusy,     \* m_ioAlarmState # xl_init_state
    alarmLoops,    \* overlapped writes of type j_alarm_e
    alarmRings,    \* m_vecRingBuffer of a host: how often it holds a client's
    alarmsWanted,  \* hosts in m_devMap whose alarms the client has opened
    rcdBusy,       \* m_ioRcdState # xl_init_state
    rcdLoops,      \* overlapped writes of type j_rcd_e
    keepLoops,     \* overlapped writes of type j_rcd_keep_e
    rcdBuffer,     \* the xlc_rcdinfo_complete_inner in m_rcdBuffer
    rcdRings,      \* m_vecRcdRingBuffer of a host
    rcdWanted,     \* the host whose record info the client waits for
    asked,         \* requests for record info a device has yet to complete
    requests       \* how many were made

dataVars == <<nRef, dataLoops>>
alarmVars == <<alarms, alarmRef, alarmBusy, alarmLoops, alarmRings, alarmsWanted>>
loopVars == <<rcdBusy, rcdLoops, keepLoops>>
rcdVars == <<loopVars, rcdBuffer, rcdRings, rcdWanted, asked, requests>>
vars == <<state, registered, dataVars, alarmVars, rcdVars>>

Init ==
    /\ state = [c \in Clients |-> "new"]
    /\ registered = {}
    /\ nRef = [c \in Clients |-> 0]
    /\ dataLoops = [c \in Clients |-> 0]
    /\ alarms = [c \in Clients |-> {}]
    /\ alarmRef = [c \in Clients |-> 0]
    /\ alarmBusy = [c \in Clients |-> FALSE]
    /\ alarmLoops = [c \in Clients |-> 0]
    /\ alarmRings = [h \in Hosts |-> [c \in Clients |-> 0]]
    /\ alarmsWanted = [c \in Clients |-> {}]
    /\ rcdBusy = [c \in Clients |-> FALSE]
    /\ rcdLoops = [c \in Clients |-> 0]
    /\ keepLoops = [c \in Clients |-> 0]
    /\ rcdBuffer = [c \in Clients |-> <<>>]
    /\ rcdRings = [h \in Hosts |-> {}]
    /\ rcdWanted = [c \in Clients |-> NoHost]
    /\ asked = [h \in Hosts |-> 0]
    /\ requests = 0

-------------------------------------------------------------------------------

(***************************************************************************)
(* Video: any number of plays share one loop.                              *)
(***************************************************************************)

\* Slip: the play is counted before it looks whether there is another.
PlayCountedFirst(c) ==
    /\ state[c] = "on"
    /\ c \in Viewers
    /\ nRef[c] < MaxPlays
    /\ nRef' = [nRef EXCEPT ![c] = @ + 1]
    /\ dataLoops' = [dataLoops EXCEPT ![c] = IF nRef'[c] = 0 THEN @ + 1 ELSE @]
    /\ UNCHANGED <<state, registered, alarmVars, rcdVars>>

\* OnRealPlay, OnVodPlay: the play that finds no other starts the loop.
Play(c) ==
    /\ state[c] = "on"
    /\ c \in Viewers
    /\ nRef[c] < MaxPlays
    /\ nRef[c] = 0 => dataLoops[c] < MaxLoops
    /\ nRef' = [nRef EXCEPT ![c] = @ + 1]
    /\ dataLoops' = [dataLoops EXCEPT ![c] = IF nRef[c] = 0 THEN @ + 1 ELSE @]
    /\ UNCHANGED <<state, registered, alarmVars, rcdVars>>

\* Slip: the count goes below zero.
StopUnclamped(c) ==
    /\ state[c] = "on"
    /\ nRef' = [nRef EXCEPT ![c] = @ - 1]
    /\ UNCHANGED <<state, registered, dataLoops, alarmVars, rcdVars>>

\* OnRealStop, OnVodStop, of whatever the client names.
Stop(c) ==
    /\ state[c] = "on"
    /\ nRef' = [nRef EXCEPT ![c] = IF @ > 0 THEN @ - 1 ELSE @]
    /\ UNCHANGED <<state, registered, dataLoops, alarmVars, rcdVars>>

\* Slip: the loop goes on as long as its client does.
DataWrittenToTheEnd(c) ==
    /\ dataLoops[c] > 0
    /\ state[c] = "gone"
    /\ dataLoops' = [dataLoops EXCEPT ![c] = @ - 1]
    /\ UNCHANGED <<state, registered, nRef, alarmVars, rcdVars>>

\* OnWrite, ProcessData: without a play the loop ends; with one it goes on,
\* which changes nothing here.  The write of a deleted client finds nobody.
DataWritten(c) ==
    /\ dataLoops[c] > 0
    /\ nRef[c] = 0
    /\ dataLoops' = [dataLoops EXCEPT ![c] = @ - 1]
    /\ UNCHANGED <<state, registered, nRef, alarmVars, rcdVars>>

-------------------------------------------------------------------------------

(***************************************************************************)
(* Alarms: of a set of hosts.                                              *)
(***************************************************************************)

\* EnableAlarm(&m_alarmBuffer, TRUE) and (.., FALSE) of the hosts hs.
Attach(c, hs) ==
    alarmRings' = [h \in Hosts |->
                      IF h \in hs THEN [alarmRings[h] EXCEPT ![c] = @ + 1]
                                  ELSE alarmRings[h]]

Detach(c, hs) ==
    alarmRings' = [h \in Hosts |->
                      IF h \in hs /\ alarmRings[h][c] > 0
                      THEN [alarmRings[h] EXCEPT ![c] = @ - 1]
                      ELSE alarmRings[h]]

\* OnStartAlarm, StartAlarm: something happens only in xl_init_state; a host is
\* entered once, if it is there; the loop ends at once if no host is entered.
StartAlarm(c, h) ==
    LET new == IF alarmBusy[c] THEN {} ELSE {h} \cap (registered \ alarms[c])
        loops == IF ~ alarmBusy[c] /\ alarmRef[c] + Cardinality(new) > 0 THEN 1 ELSE 0
    IN  /\ state[c] = "on"
        /\ c \in Viewers
        /\ alarmLoops[c] + loops <= MaxLoops
        /\ Attach(c, new)
        /\ alarms' = [alarms EXCEPT ![c] = @ \cup new]
        /\ alarmRef' = [alarmRef EXCEPT ![c] = @ + Cardinality(new)]
        /\ alarmLoops' = [alarmLoops EXCEPT ![c] = @ + loops]
        /\ alarmBusy' = [alarmBusy EXCEPT ![c] = TRUE]
        /\ alarmsWanted' = [alarmsWanted EXCEPT ![c] = @ \cup ({h} \cap registered)]
        /\ UNCHANGED <<state, registered, dataVars, rcdVars>>

\* OnStopAlarm, StopAlarm: the state is reset whichever host is named.
StopAlarm(c, h) ==
    LET old == {h} \cap alarms[c]
    IN  /\ state[c] = "on"
        /\ Detach(c, old \cap registered)
        /\ alarms' = [alarms EXCEPT ![c] = @ \ old]
        /\ alarmRef' = [alarmRef EXCEPT
                           ![c] = IF old # {} /\ @ > 0 THEN @ - 1 ELSE @]
        /\ alarmBusy' = [alarmBusy EXCEPT ![c] = FALSE]
        /\ alarmsWanted' = [alarmsWanted EXCEPT ![c] = @ \ {h}]
        /\ UNCHANGED <<state, registered, dataVars, alarmLoops, rcdVars>>

\* Slip: a reset state is taken as the end of the loop.
AlarmWrittenInState(c) ==
    /\ alarmLoops[c] > 0
    /\ alarmBusy[c] = FALSE
    /\ alarmLoops' = [alarmLoops EXCEPT ![c] = @ - 1]
    /\ UNCHANGED <<state, registered, dataVars, alarms, alarmRef, alarmBusy,
                   alarmRings, alarmsWanted, rcdVars>>

\* OnWrite, ProcessAlarm.
AlarmWritten(c) ==
    /\ alarmLoops[c] > 0
    /\ IF alarmRef[c] = 0
       THEN /\ alarmLoops' = [alarmLoops EXCEPT ![c] = @ - 1]
            /\ UNCHANGED alarmBusy
       ELSE /\ alarmBusy' = [alarmBusy EXCEPT ![c] = TRUE]
            /\ UNCHANGED alarmLoops
    /\ UNCHANGED <<state, registered, dataVars, alarms, alarmRef, alarmRings,
                   alarmsWanted, rcdVars>>

-------------------------------------------------------------------------------

(***************************************************************************)
(* Record info: one request at a time, which the device completes.  The    *)
(* answers before the completion pass through and are left out.            *)
(***************************************************************************)

\* MakeRcdData, for a client that waits for wanted, when the hosts have the
\* buffers in lists and others of its loops go on: it pops what is in
\* m_rcdBuffer.  A completion is told to the client, whichever host it is of;
\* if the host is there, the buffer is taken out and the loop is to end.
MakeRcdData(c, wanted, lists, others) ==
    LET b == rcdBuffer[c]
        done == IF b = <<>> THEN NoHost ELSE Head(b)
        ends == done \in registered
    IN  /\ rcdBuffer' = [rcdBuffer EXCEPT ![c] = IF b = <<>> THEN b ELSE Tail(b)]
        /\ rcdWanted' = [rcdWanted EXCEPT ![c] = IF done = wanted THEN NoHost ELSE wanted]
        /\ rcdRings' = [h \in Hosts |-> IF ends /\ h = done THEN lists[h] \ {c}
                                                            ELSE lists[h]]
        /\ rcdLoops' = [rcdLoops EXCEPT ![c] = IF ends THEN others ELSE others + 1]
        /\ keepLoops' = [keepLoops EXCEPT ![c] = IF ends THEN @ + 1 ELSE @]

\* OnGetRctInfo: does something only in xl_init_state of m_ioRcdState, and sets
\* m_ioAlarmState; the first turn of the loop sets m_ioRcdState.  EnableRcdInfo
\* takes out every other buffer.
GetRcdInfo(c, h) ==
    LET there == h \in registered
    IN  /\ state[c] = "on"
        /\ rcdBusy[c] = FALSE
        /\ requests < MaxRequests
        /\ requests' = requests + 1
        /\ rcdBusy' = [rcdBusy EXCEPT ![c] = TRUE]
        /\ alarmBusy' = [alarmBusy EXCEPT ![c] = TRUE]
        /\ asked' = [asked EXCEPT ![h] = IF there THEN @ + 1 ELSE @]
        /\ MakeRcdData(c, IF there THEN h ELSE NoHost,
                       [rcdRings EXCEPT ![h] = IF there THEN {c} ELSE @], rcdLoops[c])
        /\ UNCHANGED <<state, registered, dataVars, alarms, alarmRef, alarmLoops,
                       alarmRings, alarmsWanted>>

\* OnMsgInfo, xld_rcd_info_complete: to whoever is on the list.
OnRcdComplete(h) ==
    /\ asked[h] > 0
    /\ asked' = [asked EXCEPT ![h] = @ - 1]
    /\ rcdBuffer' = [c \in Clients |->
                        IF c \in rcdRings[h] /\ state[c] = "on"
                        THEN Append(rcdBuffer[c], h) ELSE rcdBuffer[c]]
    /\ UNCHANGED <<state, registered, dataVars, alarmVars, loopVars, rcdRings,
                   rcdWanted, requests>>

\* OnWrite, ProcessRcd, for a write of type j_rcd_e and j_rcd_keep_e.
RcdWritten(c) ==
    /\ state[c] = "on"
    /\ rcdLoops[c] > 0
    /\ MakeRcdData(c, rcdWanted[c], rcdRings, rcdLoops[c] - 1)
    /\ UNCHANGED <<state, registered, dataVars, alarmVars, rcdBusy, asked, requests>>

\* Slip: the state is left.
KeepWrittenBusy(c) ==
    /\ state[c] = "on"
    /\ keepLoops[c] > 0
    /\ keepLoops' = [keepLoops EXCEPT ![c] = @ - 1]
    /\ UNCHANGED <<state, registered, dataVars, alarmVars, rcdBusy, rcdLoops,
                   rcdBuffer, rcdRings, rcdWanted, asked, requests>>

KeepWritten(c) ==
    /\ state[c] = "on"
    /\ keepLoops[c] > 0
    /\ keepLoops' = [keepLoops EXCEPT ![c] = @ - 1]
    /\ rcdBusy' = [rcdBusy EXCEPT ![c] = FALSE]
    /\ UNCHANGED <<state, registered, dataVars, alarmVars, rcdLoops, rcdBuffer,
                   rcdRings, rcdWanted, asked, requests>>

-------------------------------------------------------------------------------

Connect(c) ==
    /\ state[c] = "new"
    /\ state' = [state EXCEPT ![c] = "on"]
    /\ UNCHANGED <<registered, dataVars, alarmVars, rcdVars>>

\* Slip: nobody stops the alarms.
ReleaseWithAlarms(c) ==
    /\ state[c] = "on"
    /\ state' = [state EXCEPT ![c] = "gone"]
    /\ nRef' = [nRef EXCEPT ![c] = 0]
    /\ alarms' = [alarms EXCEPT ![c] = {}]
    /\ alarmRef' = [alarmRef EXCEPT ![c] = 0]
    /\ alarmsWanted' = [alarmsWanted EXCEPT ![c] = {}]
    /\ rcdBuffer' = [rcdBuffer EXCEPT ![c] = <<>>]
    /\ rcdLoops' = [rcdLoops EXCEPT ![c] = 0]
    /\ keepLoops' = [keepLoops EXCEPT ![c] = 0]
    /\ rcdBusy' = [rcdBusy EXCEPT ![c] = FALSE]
    /\ rcdWanted' = [rcdWanted EXCEPT ![c] = NoHost]
    /\ UNCHANGED <<registered, dataLoops, alarmBusy, alarmLoops, alarmRings,
                   rcdRings, asked, requests>>

\* ReleaseClientObj, CheckClient: Broken, which calls StopAll, and the
\* destructor.  m_rcdBuffer stays where it is.  The writes under way end when
\* they complete; those of record info are forgotten here.
Release(c) ==
    /\ state[c] = "on"
    /\ state' = [state EXCEPT ![c] = "gone"]
    /\ nRef' = [nRef EXCEPT ![c] = 0]
    /\ Detach(c, alarms[c] \cap registered)
    /\ alarms' = [alarms EXCEPT ![c] = {}]
    /\ alarmRef' = [alarmRef EXCEPT ![c] = 0]
    /\ alarmsWanted' = [alarmsWanted EXCEPT ![c] = {}]
    /\ rcdBuffer' = [rcdBuffer EXCEPT ![c] = <<>>]
    /\ rcdLoops' = [rcdLoops EXCEPT ![c] = 0]
    /\ keepLoops' = [keepLoops EXCEPT ![c] = 0]
    /\ rcdBusy' = [rcdBusy EXCEPT ![c] = FALSE]
    /\ rcdWanted' = [rcdWanted EXCEPT ![c] = NoHost]
    /\ UNCHANGED <<registered, dataLoops, alarmBusy, alarmLoops, rcdRings, asked,
                   requests>>

\* AddDevice, called by CheckDevice for a host that is ready: a new object.
AddDevice(h) ==
    /\ h \notin registered
    /\ registered' = registered \cup {h}
    /\ UNCHANGED <<state, dataVars, alarmVars, rcdVars>>

\* DelDevice: the lists of the host go with it, the entries of clients stay.
DelDevice(h) ==
    /\ h \in registered
    /\ registered' = registered \ {h}
    /\ alarmRings' = [alarmRings EXCEPT ![h] = [c \in Clients |-> 0]]
    /\ alarmsWanted' = [c \in Clients |-> alarmsWanted[c] \ {h}]
    /\ rcdRings' = [rcdRings EXCEPT ![h] = {}]
    /\ rcdWanted' = [c \in Clients |->
                        IF rcdWanted[c] = h THEN NoHost ELSE rcdWanted[c]]
    /\ asked' = [asked EXCEPT ![h] = 0]
    /\ UNCHANGED <<state, dataVars, alarms, alarmRef, alarmBusy, alarmLoops,
                   loopVars, rcdBuffer, requests>>

ClientStep(c) ==
    \/ Connect(c) \/ Release(c)
    \/ Play(c) \/ Stop(c) \/ DataWritten(c)
    \/ AlarmWritten(c)
    \/ RcdWritten(c) \/ KeepWritten(c)
    \/ \E h \in Hosts : StartAlarm(c, h) \/ StopAlarm(c, h) \/ GetRcdInfo(c, h)

HostStep(h) == AddDevice(h) \/ DelDevice(h) \/ OnRcdComplete(h)

Next == (\E c \in Clients : ClientStep(c)) \/ (\E h \in Hosts : HostStep(h))

\* A write completes, because the client reads or its connection breaks.
WritesComplete(c) ==
    /\ WF_vars(DataWritten(c))
    /\ WF_vars(AlarmWritten(c))
    /\ WF_vars(RcdWritten(c))
    /\ WF_vars(KeepWritten(c))

Fairness == \A c \in Clients : WritesComplete(c)

Spec == Init /\ [][Next]_vars /\ Fairness

-------------------------------------------------------------------------------

TypeOK ==
    /\ state \in [Clients -> {"new", "on", "gone"}]
    /\ registered \in SUBSET Hosts
    /\ nRef \in [Clients -> 0 .. MaxPlays]
    /\ dataLoops \in [Clients -> 0 .. MaxLoops]
    /\ alarms \in [Clients -> SUBSET Hosts]
    /\ alarmRef \in [Clients -> Nat]
    /\ alarmBusy \in [Clients -> BOOLEAN]
    /\ alarmLoops \in [Clients -> 0 .. MaxLoops]
    /\ alarmRings \in [Hosts -> [Clients -> Nat]]
    /\ alarmsWanted \in [Clients -> SUBSET Hosts]
    /\ rcdBusy \in [Clients -> BOOLEAN]
    /\ rcdLoops \in [Clients -> Nat]
    /\ keepLoops \in [Clients -> Nat]
    /\ rcdBuffer \in [Clients -> Seq(Hosts)]
    /\ rcdRings \in [Hosts -> SUBSET Clients]
    /\ rcdWanted \in [Clients -> Hosts \cup {NoHost}]
    /\ asked \in [Hosts -> Nat]
    /\ requests \in 0 .. MaxRequests

\* A play is served: as long as the count is positive some write loop sends
\* m_dataBuff, whatever plays and stops came before and whichever completions
\* of earlier loops are still to come (OnRealPlay, ProcessData).
PlaysAreServed == \A c \in Clients : nRef[c] > 0 => dataLoops[c] > 0

\* Alarms are served: a client with an entry in m_alarmInfoVec has a write loop
\* of its alarm buffer, though stops reset the state by which starts tell
\* whether there is one (OnStartAlarm, OnStopAlarm, ProcessAlarm).
AlarmsAreServed == \A c \in Clients : alarms[c] # {} => alarmLoops[c] > 0

\* A host puts alarms only into the buffers of clients that have opened them
\* and not closed them, never into a deleted client's, and only once, through
\* reconnections of the host and any order of starts and stops (EnableAlarm).
AlarmsGoWhereTheyAreWanted ==
    \A c \in Clients, h \in Hosts :
        /\ alarmRings[h][c] <= 1
        /\ alarmRings[h][c] = 1 => state[c] = "on" /\ h \in alarmsWanted[c]

\* Record info has one loop when the state says it is busy and none when not:
\* no request is turned away by a loop that has ended, no second loop shares
\* m_rcdBuff (OnGetRctInfo, ProcessRcd, OnRead).
OneRcdLoopWhenBusy ==
    \A c \in Clients : rcdLoops[c] + keepLoops[c] = IF rcdBusy[c] THEN 1 ELSE 0

\* A client that needs neither video nor alarms, or is deleted, has in the end
\* no loop of either, unless it needs one again (ProcessData, ProcessAlarm,
\* OnWrite).
NeedsLoops(c) == nRef[c] > 0 \/ alarms[c] # {}
HasLoops(c) == dataLoops[c] > 0 \/ alarmLoops[c] > 0

UnusedLoopsEnd ==
    \A c \in Viewers : ~ NeedsLoops(c) ~> (NeedsLoops(c) \/ ~ HasLoops(c))

\* A client that has opened the alarms of a host, and not closed them, is on
\* the host's list.  OnStartAlarm looks at m_ioAlarmState, which any start and,
\* by mistake, any request for record info sets.
OpenedAlarmsArrive ==
    \A c \in Clients : \A h \in alarmsWanted[c] : alarmRings[h][c] > 0

===============================================================================
