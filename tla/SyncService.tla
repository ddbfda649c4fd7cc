----------------------------- MODULE SyncService ------------------------------
(***************************************************************************)
(* The data synchronisation service: recorders announce themselves by      *)
(* broadcast (CBroadCastListener, CHostManager); the one worker thread of  *)
(* CDataDownloader logs in to the first of them, lists its files, gets     *)
(* those the database does not know, and deletes the oldest when the disk  *)
(* is full.  The database and the disk outlive the process.                *)
(*                                                                         *)
(* The worker's place is "step", one step per exchange with the server.    *)
(* A file is a number, the time stamp in its name.                         *)
(***************************************************************************)
EXTENDS FtpClient, FiniteSets

CONSTANTS
    MaxHost,        \* recorders are 1 .. MaxHost, as the map orders them
    MaxFile,        \* files are 1 .. MaxFile, the oldest first
    Owner,          \* the recorder a file is on
    Room,           \* files the disk holds before PrepareSpace deletes some
    MaxFaults,      \* bound: time-outs and broken connections
    MaxCrashes      \* bound: restarts of the service

Hosts == 1 .. MaxHost
NoHost == 0
Files == 1 .. MaxFile
NoFile == 0

ASSUME SyncAssumption ==
    /\ MaxHost \in Nat \ {0}
    /\ MaxFile \in Nat \ {0}
    /\ Owner \in [Files -> Hosts]
    /\ Room \in Nat
    /\ MaxFaults \in Nat
    /\ MaxCrashes \in Nat

VARIABLES
    step,       \* where the worker is
    hostMap,    \* m_hostMap
    info,       \* m_info: the recorder being synchronised
    onHost,     \* m_bStartHost
    files,      \* m_vecFileName, whose names are in the order of time
    remote,     \* m_strRemoteFile
    conn,       \* m_client's connection
    callback,   \* m_notifactionHelper.m_callback is set
    attached,   \* the observer is attached to the client
    disk,       \* what is stored of a file: "none", "part", "whole"
    rows,       \* table FileInfo
    faults,     \* faults so far
    crashes,    \* restarts so far
    heard,      \* history: the command of the last exchange and what its reply answered
    strayed,    \* history: a transfer was left before its last reply
    cut,        \* history: files whose transfer the server broke off
    echoed,     \* history: files recorded when a listing, not a file, had been received
    orphaned,   \* history: files left without a row after their last byte had come
    removed     \* history: files the service stopped on between remove() and their row

ftpVars == <<conn, callback, attached>>
dataVars == <<disk, rows>>
jobVars == <<info, onHost, files, remote>>
fileHistory == <<cut, echoed, orphaned, removed>>
historyVars == <<heard, strayed, fileHistory>>
vars == <<step, hostMap, jobVars, ftpVars, dataVars, faults, crashes, historyVars>>

Row == [host : Hosts, file : Files]

Steps == {"idle", "quit", "connect", "greet", "user", "pass", "acct", "cwd",
          "typeA", "portA", "nlst", "listing", "listingEnd", "listedEnd", "listed", "quitList",
          "space", "size", "quitSize", "typeI", "portI", "rest", "retr", "getting", "gettingEnd",
          "got", "deaf"}

Init ==
    /\ step = "idle"
    /\ hostMap = {}
    /\ info = NoHost
    /\ onHost = FALSE
    /\ files = {}
    /\ remote = NoFile
    /\ conn = NewClient
    /\ callback = FALSE
    /\ attached = FALSE
    /\ disk = [f \in Files |-> "none"]
    /\ rows = {}
    /\ faults = 0
    /\ crashes = 0
    /\ heard = [asked |-> "none", to |-> "none"]
    /\ strayed = FALSE
    /\ cut = {}
    /\ echoed = {}
    /\ orphaned = {}
    /\ removed = {}

-------------------------------------------------------------------------------

(***************************************************************************)
(* The database (CAccessOprator) and the list.                             *)
(***************************************************************************)

\* The smallest of some numbers, as a set of one or none.
First(S) == {x \in S : \A y \in S : x <= y}

OldestRows == {r \in rows : r.file \in First({q.file : q \in rows})}

HasDownLoaded(f) ==
    \/ \E r \in rows : r.file = f
    \/ rows # {} /\ \A r \in rows : f < r.file

\* Slip: the row of one recorder is deleted, not all rows of the name.
RowsWithoutOwn(f) == rows \ {[host |-> info, file |-> f]}

RowsWithout(f) == {r \in rows : r.file # f}

\* EndDownLoad.
EndDownLoad == files' = files \ {remote}

DelHost == hostMap' = hostMap \ {info}

-------------------------------------------------------------------------------

(***************************************************************************)
(* Exchanges.                                                              *)
(***************************************************************************)

Count(bad) ==
    /\ bad => faults < MaxFaults
    /\ faults' = IF bad THEN faults + 1 ELSE faults

\* A command has been sent and its reply taken; the connection is c then.
Exchange(cmd, o, c) ==
    /\ conn' = c
    /\ Count(o.fault)
    /\ heard' = [asked |-> cmd, to |-> o.heard.to]

\* GetFileList after a failed login: the recorder is dropped, nothing is closed.
LoginFails ==
    /\ step' = "idle"
    /\ onHost' = FALSE
    /\ DelHost

\* GetFileList after a failed listing: the recorder is dropped, then Logout.
ListFails ==
    /\ step' = "quitList"
    /\ onHost' = FALSE
    /\ DelHost

\* StartDownLoad after DownLoadFile has failed.
GetFails ==
    /\ step' = "idle"
    /\ EndDownLoad

-------------------------------------------------------------------------------

(***************************************************************************)
(* GetFileList: login.                                                     *)
(***************************************************************************)

GetReadyHostInfo ==
    /\ step = "idle"
    /\ ~onHost
    /\ hostMap # {}
    /\ info' \in First(hostMap)
    /\ step' = IF IsConnected(conn) THEN "quit" ELSE "connect"
    /\ UNCHANGED <<hostMap, onHost, files, remote, ftpVars, dataVars, faults, crashes, historyVars>>

\* Logout, in Login and after a failed listing.
Quit(here, there) ==
    /\ step = here
    /\ \E o \in Logout(conn) : Exchange("QUIT", o, o.conn)
    /\ step' = there
    /\ UNCHANGED <<hostMap, jobVars, callback, attached, dataVars, crashes, strayed, fileHistory>>

\* A new connection begins with what the old one has left in the buffer.
Connect ==
    /\ step = "connect"
    /\ \E o \in OpenControlChannel(conn) :
           /\ conn' = o.conn
           /\ Count(o.fault)
           /\ IF IsConnected(o.conn) THEN step' = "greet" /\ UNCHANGED <<onHost, hostMap>> ELSE LoginFails
    /\ strayed' = (conn.buffer # <<>>)
    /\ heard' = [asked |-> "none", to |-> "none"]
    /\ UNCHANGED <<info, files, remote, callback, attached, dataVars, crashes, fileHistory>>

\* Slip: the end of the table is taken for a place in it.
LogonPointUnchecked(at, class) ==
    CASE at = "greet" /\ class = Completion -> "user"
      [] at \in {"user", "pass", "acct"} /\ class = Completion -> "cwd"
      [] at = "user" /\ class = Intermediate -> "pass"
      [] at = "pass" /\ class = Intermediate -> "acct"
      [] at = "acct" /\ class = Intermediate -> "ER"
      [] at = "cwd" /\ class = Completion -> "typeA"
      [] OTHER -> "failed"

\* The login sequence without a firewall: where a reply leads.
LogonPoint(at, class) ==
    CASE at = "greet" /\ class = Completion -> "user"
      [] at \in {"user", "pass", "acct"} /\ class = Completion -> "cwd"
      [] at = "user" /\ class = Intermediate -> "pass"
      [] at = "pass" /\ class = Intermediate -> "acct"
      [] at = "cwd" /\ class = Completion -> "typeA"
      [] OTHER -> "failed"

LogonCommand == [greet |-> "GREET", user |-> "USER", pass |-> "PASS", acct |-> "ACCT", cwd |-> "CWD"]

\* What a server answers.
LogonReplies(at) ==
    IF at \in {"user", "pass", "acct"} THEN {Completion, Intermediate, Negative} ELSE {Completion, Negative}

Logon(at) ==
    /\ step = at
    /\ \E o \in (IF at = "greet" THEN GetResponse(conn, NoReply)
                 ELSE SendCommand(conn, LogonCommand[at], LogonReplies(at))) :
           /\ Exchange(LogonCommand[at], o, o.conn)
           /\ IF LogonPoint(at, o.heard.class) = "failed" THEN LoginFails
              ELSE step' = LogonPoint(at, o.heard.class) /\ UNCHANGED <<onHost, hostMap>>
    /\ files' = IF step' = "typeA" THEN {} ELSE files
    /\ UNCHANGED <<info, remote, callback, attached, dataVars, crashes, strayed, fileHistory>>

-------------------------------------------------------------------------------

(***************************************************************************)
(* ExecuteDatachannelCommand, for a listing and for a file: the            *)
(* representation if it is another one, the port, for a file in part       *)
(* stored the restart marker, the command, the data, the last reply.       *)
(***************************************************************************)

Fails(job) ==
    IF job = "A" THEN ListFails /\ UNCHANGED files ELSE GetFails /\ UNCHANGED <<onHost, hostMap>>
Goes(there) == step' = there /\ UNCHANGED <<onHost, hostMap, files>>

dataStepVars == <<info, remote, callback, attached, dataVars, crashes, fileHistory>>

RepresentationType(here, job, there) ==
    /\ step = here
    /\ IF ~IsConnected(conn)
       THEN /\ Fails(job)
            /\ UNCHANGED <<conn, faults, heard>>
       ELSE IF conn.type = job
       THEN Goes(there) /\ UNCHANGED <<conn, faults, heard>>
       ELSE \E o \in SendCommand(conn, "TYPE", {Completion, Negative}) :
               LET ok == o.heard.class = Completion
               IN  /\ Exchange("TYPE", o, [o.conn EXCEPT !.type = IF ok THEN job ELSE "none"])
                   /\ IF ok THEN Goes(there)
                      ELSE Fails(job)
    /\ UNCHANGED <<strayed, dataStepVars>>

\* PORT and REST.
Prepare(here, job, cmd, wanted, there) ==
    /\ step = here
    /\ \E o \in SendCommand(conn, cmd, {wanted, Negative}) :
           /\ Exchange(cmd, o, o.conn)
           /\ IF o.heard.class = wanted THEN Goes(there)
              ELSE Fails(job)
    /\ UNCHANGED <<strayed, dataStepVars>>

\* NLST and RETR.  A server that has begun a transfer the client does not take part in
\* ends it by itself.
DataCommand(here, job, cmd, there) ==
    /\ step = here
    /\ \E o \in SendCommand(conn, cmd, {Preliminary, Negative}) :
           LET goes == o.heard.class = Preliminary
               left == ~goes /\ o.said.class = Preliminary /\ o.conn.state = "open"
           IN  /\ Exchange(cmd, o, IF left THEN ServerSays(o.conn, Negative) ELSE o.conn)
               /\ strayed' = (strayed \/ left)
               /\ IF goes THEN Goes(there)
                  ELSE Fails(job)
    /\ UNCHANGED dataStepVars

\* Slip: the data are enough, the last reply is not read.
LastReplyUnread(here, job, there) ==
    /\ step = here
    /\ Goes(there)
    /\ UNCHANGED <<conn, faults, heard, strayed, dataStepVars>>

\* The reply after the data.
LastReply(here, job, there) ==
    /\ step = here
    /\ \E o \in GetResponse(conn, NoReply) :
           /\ Exchange("END", o, o.conn)
           /\ IF o.heard.class = Completion THEN Goes(there)
              ELSE Fails(job)
    /\ UNCHANGED <<strayed, dataStepVars>>

\* Accept waits without a time-out for a server that is gone.
NeverConnects ==
    /\ step \in {"listing", "getting"}
    /\ Count(conn.state = "open")
    /\ step' = "deaf"
    /\ UNCHANGED <<hostMap, jobVars, ftpVars, dataVars, crashes, historyVars>>

\* Some bytes, or none, have been written to the file.
SomeBytes(f) == {disk, IF disk[f] = "none" THEN [disk EXCEPT ![f] = "part"] ELSE disk}

\* The transfer is left at any of its bytes, the last one included.
LeftAtSomeByte(f) ==
    /\ disk' \in SomeBytes(f) \cup {[disk EXCEPT ![f] = "whole"]}
    /\ orphaned' = IF disk'[f] = "whole" THEN orphaned \cup {f} ELSE orphaned

\* ReceiveData gives up after 10 s: its socket is closed, the observer is not told, and
\* the server's last reply is not read.
DataTimeout(here, job) ==
    /\ step = here
    /\ conn.state = "open"
    /\ Count(TRUE)
    /\ conn' = ServerSays(conn, Negative)
    /\ strayed' = TRUE
    /\ Fails(job)
    /\ IF job = "I" THEN LeftAtSomeByte(remote) ELSE UNCHANGED <<disk, orphaned>>
    /\ UNCHANGED <<info, remote, callback, attached, rows, crashes, heard, cut, echoed, removed>>

-------------------------------------------------------------------------------

(***************************************************************************)
(* The data of a listing, of a file: all of it, or what the server sent    *)
(* before it closed the data connection.                                   *)
(***************************************************************************)

DataEnds(broken) ==
    /\ conn.state = "open"
    /\ Count(broken)
    /\ conn' = ServerSays(conn, IF broken THEN Negative ELSE Completion)

ListData ==
    /\ step = "listing"
    /\ \E broken \in BOOLEAN : DataEnds(broken)
    /\ step' = "listingEnd"
    /\ UNCHANGED <<hostMap, jobVars, callback, attached, dataVars, crashes, historyVars>>

FileData ==
    /\ step = "getting"
    /\ \E broken \in BOOLEAN :
           /\ DataEnds(broken)
           /\ IF broken THEN disk' \in SomeBytes(remote) ELSE disk' = [disk EXCEPT ![remote] = "whole"]
           /\ cut' = IF disk'[remote] = "whole" THEN cut \ {remote} ELSE cut \cup {remote}
    /\ step' = "gettingEnd"
    /\ UNCHANGED <<hostMap, jobVars, callback, attached, rows, crashes, heard, strayed, echoed, orphaned,
                   removed>>

\* Slip: the row is made for the recorder that is the first of the map by now.
OnReturnTrueForFirst ==
    /\ EndDownLoad
    /\ rows' = rows \cup {[host |-> h, file |-> remote] : h \in First(hostMap)}

\* OnReturn(true): the file leaves the list and gets its row.
OnReturnTrue ==
    /\ EndDownLoad
    /\ rows' = rows \cup {[host |-> info, file |-> remote]}

\* OnEndReceivingData, of a listing as of a file.
OnEndReceivingData(here, there) ==
    LET told == attached /\ callback
    IN  /\ step = here
        /\ IF told THEN OnReturnTrue ELSE UNCHANGED <<rows, files>>
        /\ echoed' = IF told /\ here = "listingEnd" THEN echoed \cup {remote} ELSE echoed
        /\ orphaned' = IF told /\ here = "gettingEnd" THEN orphaned \ {remote} ELSE orphaned
        /\ step' = there
        /\ UNCHANGED <<hostMap, info, onHost, remote, ftpVars, disk, faults, crashes, heard, strayed,
                       cut, removed>>

\* ListFile: what the recorder has of its files by now; nothing at all is a failure.
TakeList ==
    /\ step = "listed"
    /\ \E n \in 0 .. MaxFile : files' = {f \in 1 .. n : Owner[f] = info}
    /\ IF files' = {} THEN ListFails ELSE step' = "idle" /\ onHost' = TRUE /\ UNCHANGED hostMap
    /\ UNCHANGED <<info, remote, ftpVars, dataVars, faults, crashes, historyVars>>

-------------------------------------------------------------------------------

(***************************************************************************)
(* StartDownLoad.                                                          *)
(***************************************************************************)

NoMoreFiles ==
    /\ step = "idle"
    /\ onHost
    /\ files = {}
    /\ onHost' = FALSE
    /\ UNCHANGED <<step, hostMap, info, files, remote, ftpVars, dataVars, faults, crashes, historyVars>>

StartDownLoad ==
    /\ step = "idle"
    /\ onHost
    /\ files # {}
    /\ remote' \in First(files)
    /\ IF HasDownLoaded(remote')
       THEN files' = files \ {remote'} /\ UNCHANGED step
       ELSE step' = "space" /\ UNCHANGED files
    /\ UNCHANGED <<hostMap, info, onHost, ftpVars, dataVars, faults, crashes, historyVars>>

DiskFull == Cardinality({f \in Files : disk[f] # "none"}) >= Room

\* Slip: a row is deleted only when its file could be removed.
DelItemIfRemoved ==
    /\ step = "space"
    /\ DiskFull
    /\ \E r \in OldestRows :
           /\ r.host = Owner[r.file]
           /\ disk' = [disk EXCEPT ![r.file] = "none"]
           /\ rows' = RowsWithout(r.file)
    /\ UNCHANGED <<step, hostMap, jobVars, ftpVars, faults, crashes, historyVars>>

\* remove() of the file a row leads to: it fails for a file that is in use.
Remove(r) == r.host = Owner[r.file] /\ disk' = [disk EXCEPT ![r.file] = "none"]

\* PrepareSpace: one turn of its loop, which deletes the row whatever remove() has
\* returned.  Without rows it turns for ever.
DelItem ==
    /\ step = "space"
    /\ DiskFull
    /\ \E r \in OldestRows :
           /\ Remove(r) \/ UNCHANGED disk
           /\ rows' = RowsWithout(r.file)
           /\ orphaned' = IF disk'[r.file] = "whole" THEN orphaned \cup {r.file} ELSE orphaned
    /\ UNCHANGED <<step, hostMap, jobVars, ftpVars, faults, crashes, heard, strayed, cut, echoed,
                   removed>>

\* DownLoadFile: the callback is set, the file opened for appending.
OpenFile ==
    /\ step = "space"
    /\ ~DiskFull
    /\ step' = "size"
    /\ callback' = TRUE
    /\ attached' = TRUE
    /\ UNCHANGED <<hostMap, jobVars, conn, dataVars, faults, crashes, historyVars>>

\* FileSize and OnPreReceiveFile: without an answer to SIZE the size is 0, and so it is
\* of a file just begun.  OnReturn(false) begins.
FileSize ==
    /\ step = "size"
    /\ \E o \in SendCommand(conn, "SIZE", {Completion, Negative}) :
           /\ Exchange("SIZE", o, o.conn)
           /\ \E zero \in (IF o.heard = [to |-> "SIZE", class |-> Completion] THEN BOOLEAN ELSE {TRUE}) :
                  IF zero THEN step' = "quitSize" /\ onHost' = FALSE /\ DelHost
                  ELSE step' = "typeI" /\ UNCHANGED <<onHost, hostMap>>
    /\ UNCHANGED <<info, files, remote, callback, attached, dataVars, crashes, strayed, fileHistory>>

\* The rest of OnReturn(false): Logout, and the row; the file is open and stays.
ReturnFalse ==
    /\ step = "quitSize"
    /\ \E o \in Logout(conn) : Exchange("QUIT", o, o.conn)
    /\ rows' = RowsWithout(remote)
    /\ callback' = FALSE
    /\ step' = "typeI"
    /\ UNCHANGED <<hostMap, jobVars, attached, disk, crashes, strayed, fileHistory>>

-------------------------------------------------------------------------------

\* UpdateHostInfo: a broadcast.
UpdateHostInfo(h) ==
    /\ h \notin hostMap
    /\ hostMap' = hostMap \cup {h}
    /\ UNCHANGED <<step, jobVars, ftpVars, dataVars, faults, crashes, historyVars>>

\* A stop of the service may fall between remove() and the row's deletion.
StopsInDelItem ==
    \E r \in OldestRows :
        /\ Remove(r)
        /\ removed' = removed \cup {r.file}

\* What a stop at this step leaves on the disk.
StopsHere ==
    \/ /\ step = "getting"
       /\ LeftAtSomeByte(remote)
       /\ UNCHANGED removed
    \/ /\ step = "space"
       /\ DiskFull
       /\ StopsInDelItem
       /\ UNCHANGED orphaned
    \/ /\ step # "getting"
       /\ orphaned' = IF step = "gettingEnd" THEN orphaned \cup {remote} ELSE orphaned
       /\ UNCHANGED <<disk, removed>>

\* The service is stopped and started again.
Restart ==
    /\ crashes < MaxCrashes
    /\ crashes' = crashes + 1
    /\ step' = "idle"
    /\ hostMap' = {}
    /\ info' = NoHost
    /\ onHost' = FALSE
    /\ files' = {}
    /\ remote' = NoFile
    /\ conn' = NewClient
    /\ callback' = FALSE
    /\ attached' = FALSE
    /\ strayed' = FALSE
    /\ StopsHere
    /\ heard' = [asked |-> "none", to |-> "none"]
    /\ UNCHANGED <<rows, faults, cut, echoed>>

GetFileList ==
    \/ GetReadyHostInfo
    \/ Quit("quit", "connect")
    \/ Connect
    \/ \E at \in DOMAIN LogonCommand : Logon(at)
    \/ RepresentationType("typeA", "A", "portA")
    \/ Prepare("portA", "A", "PORT", Completion, "nlst")
    \/ DataCommand("nlst", "A", "NLST", "listing")
    \/ ListData
    \/ DataTimeout("listing", "A")
    \/ OnEndReceivingData("listingEnd", "listedEnd")
    \/ LastReply("listedEnd", "A", "listed")
    \/ TakeList
    \/ Quit("quitList", "idle")

DownLoad ==
    \/ NoMoreFiles
    \/ StartDownLoad
    \/ DelItem
    \/ OpenFile
    \/ FileSize
    \/ ReturnFalse
    \/ RepresentationType("typeI", "I", "portI")
    \/ Prepare("portI", "I", "PORT", Completion, IF disk[remote] = "none" THEN "retr" ELSE "rest")
    \/ Prepare("rest", "I", "REST", Intermediate, "retr")
    \/ DataCommand("retr", "I", "RETR", "getting")
    \/ FileData
    \/ DataTimeout("getting", "I")
    \/ OnEndReceivingData("gettingEnd", "got")
    \/ LastReply("got", "I", "idle")

Worker == GetFileList \/ DownLoad \/ NeverConnects

Next ==
    \/ Worker
    \/ \E h \in Hosts : UpdateHostInfo(h)
    \/ Restart

\* The worker is a thread, and a socket call ends in an answer or a time-out.
Fairness == WF_vars(Worker)

Spec == Init /\ [][Next]_vars /\ Fairness

-------------------------------------------------------------------------------

TypeOK ==
    /\ step \in Steps
    /\ hostMap \in SUBSET Hosts
    /\ info \in Hosts \cup {NoHost}
    /\ onHost \in BOOLEAN
    /\ files \in SUBSET Files
    /\ remote \in Files \cup {NoFile}
    /\ conn \in Connection
    /\ callback \in BOOLEAN
    /\ attached \in BOOLEAN
    /\ disk \in [Files -> {"none", "part", "whole"}]
    /\ rows \in SUBSET Row
    /\ faults \in 0 .. MaxFaults
    /\ crashes \in 0 .. MaxCrashes
    /\ heard \in [asked : Commands \cup {"none"}, to : Commands \cup {"none"}]
    /\ strayed \in BOOLEAN
    /\ cut \in SUBSET Files
    /\ echoed \in SUBSET Files
    /\ orphaned \in SUBSET Files
    /\ removed \in SUBSET Files

\* The reply a command returns is the reply to that command (FTPClient.cpp:1177), whatever
\* has happened on the connection, or on the one before, earlier.
RepliesAnswerTheirCommand == heard.to \in {heard.asked, "none"}

\* A command is answered by another one's reply only on a connection on which a transfer
\* was left before its last reply, or that began with lines of an older connection.
RepliesAreInStep == strayed \/ RepliesAnswerTheirCommand

\* What the database says has been downloaded is on the disk, all of it, unless the server
\* broke off the transfer, the row was made by the end of a listing, or the service was
\* stopped between the file's removal and its row's.
RecordedFilesAreWhole ==
    \A r \in rows : disk[r.file] = "whole" \/ r.file \in cut \cup echoed \cup removed

\* A whole file has its row under its own recorder, so that PrepareSpace can delete it,
\* unless it has just arrived, a listing's end made a row of it, its last transfer was
\* left (by a time-out or a stop) between the last byte and the row, or it could not be
\* removed when its row was.
WholeFilesCanBeDeleted ==
    \A f \in Files :
        disk[f] = "whole" =>
            \/ [host |-> Owner[f], file |-> f] \in rows
            \/ step = "gettingEnd" /\ remote = f
            \/ f \in echoed \cup orphaned

Spinning == step = "space" /\ DiskFull /\ rows = {}

\* The worker comes back to its list again and again, unless it waits for a data
\* connection that never comes or for space no row can give.
DownloaderComesBack == []<>(step \in {"idle", "deaf"} \/ Spinning)

===============================================================================
