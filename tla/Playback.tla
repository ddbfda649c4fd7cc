------------------------------- MODULE Playback -------------------------------
(***************************************************************************)
(* The file reader (FileReader.c): a trigger thread is the clock, a sender *)
(* thread reads the frames that are due, a decoder thread hands them to    *)
(* the player, and the player's thread calls Open, Start, Pause, Seek and  *)
(* so on.  The file is read in two parts a frame, header and body;         *)
(* s_bReadData says which is next.  Open, Close, Start and the sender take *)
(* s_file_mux; Stop and Seek do not.                                       *)
(*                                                                         *)
(* Frame k of the file has time stamp k.  All frames are video.            *)
(***************************************************************************)
EXTENDS Integers, Sequences

CONSTANTS
    MaxFrame,   \* frames of the file
    MaxCalls    \* bound: calls of the player

ASSUME PlaybackAssumption ==
    /\ MaxFrame \in Nat \ {0}
    /\ MaxCalls \in Nat

Frames == 1 .. MaxFrame
Torn == 0           \* bytes that are no frame
NoTime == 0

VARIABLES
    open,       \* s_pFileMdv # NULL
    started,    \* s_bStart
    paused,     \* s_bPause
    reading,    \* s_bReadData: a header is next
    pos,        \* place in the file
    header,     \* the sender's strType and timeStamp
    clock,      \* s_tmStart
    seekTime,   \* s_tmSeekTime
    suspended,  \* the trigger thread is suspended
    wake,       \* s_hEventSender[0]
    queue,      \* s_data_queue, frame numbers
    ready,      \* s_hEventDecoder[0]
    fileMux,    \* who is in s_file_mux
    sender,     \* where the sender is
    api,        \* where the player's call is, and the frame it seeks
    calls,      \* calls so far
    shown,      \* history: the last frame shown, or given up by a call
    ended,      \* history: the end of the file has been met since the last call
    leaked,     \* history: an Open has failed and left s_file_mux held
    raced       \* history: a call that moves the file met the sender on its way

fileVars == <<open, pos, fileMux, leaked>>
playVars == <<started, paused, seekTime, suspended>>
readVars == <<reading, header, clock>>
queueVars == <<queue, ready, shown>>
apiVars == <<api, calls>>
vars == <<fileVars, playVars, readVars, queueVars, apiVars, wake, sender, ended, raced>>

At(k, part) == [frame |-> k, part |-> part]
Begin == At(1, "head")
\* The place is no frame's border any more.
Nowhere == At(Torn, "inside")

Idle == [at |-> "idle", to |-> Torn]

Init ==
    /\ open = FALSE
    /\ started = FALSE
    /\ paused = FALSE
    /\ reading = TRUE
    /\ pos = Begin
    /\ header = [frame |-> Torn, time |-> NoTime]
    /\ clock = NoTime
    /\ seekTime = NoTime
    /\ suspended = TRUE
    /\ wake = FALSE
    /\ queue = <<>>
    /\ ready = FALSE
    /\ fileMux = "free"
    /\ sender = "wait"
    /\ api = Idle
    /\ calls = 0
    /\ shown = 0
    /\ ended = FALSE
    /\ leaked = FALSE
    /\ raced = FALSE

-------------------------------------------------------------------------------

(***************************************************************************)
(* OnTriger: the clock runs once it has been set, and the sender is woken. *)
(***************************************************************************)

Tick ==
    /\ ~suspended
    /\ clock' = IF clock = NoTime \/ clock = MaxFrame THEN clock ELSE clock + 1
    /\ wake' = TRUE
    /\ UNCHANGED <<fileVars, playVars, reading, header, queueVars, apiVars, sender, ended, raced>>

(***************************************************************************)
(* OnSender: woken, it reads headers and bodies until a frame is not due.  *)
(***************************************************************************)

Wake ==
    /\ sender = "wait"
    /\ wake
    /\ wake' = FALSE
    /\ sender' = "top"
    /\ UNCHANGED <<fileVars, playVars, readVars, queueVars, apiVars, ended, raced>>

Due ==
    \/ clock >= header.time
    \/ clock = NoTime
    \/ seekTime # NoTime /\ header.time < seekTime

EnterFile ==
    /\ sender = "top"
    /\ fileMux = "free"
    /\ \/ /\ open /\ reading
          /\ fileMux' = "sender"
          /\ sender' = "head"
       \/ /\ open /\ ~reading /\ Due
          /\ fileMux' = "sender"
          /\ sender' = "body"
       \/ /\ ~open \/ (~reading /\ ~Due)
          /\ sender' = "out"
          /\ UNCHANGED fileMux
    /\ UNCHANGED <<open, pos, leaked, playVars, readVars, queueVars, apiVars, wake, ended, raced>>

\* Slip: the end of the file is not noticed.
ReadHeadPastEnd ==
    /\ sender = "head"
    /\ pos.part = "head"
    /\ header' = [frame |-> pos.frame, time |-> pos.frame]
    /\ pos' = At(pos.frame, "body")
    /\ sender' = "mark"
    /\ UNCHANGED <<open, fileMux, leaked, playVars, reading, clock, queueVars, apiVars, wake, ended, raced>>

\* Type and ReadFrameInfo.  Off a border the bytes make no header, and may be the last.
ReadHead ==
    /\ sender = "head"
    /\ \/ /\ pos.part = "head" /\ pos.frame \in Frames
          /\ header' = [frame |-> pos.frame, time |-> pos.frame]
          /\ pos' = At(pos.frame, "body")
          /\ sender' = "mark"
       \/ /\ pos.part # "head"
          /\ \E t \in Frames : header' = [frame |-> Torn, time |-> t]
          /\ pos' = Nowhere
          /\ sender' = "mark"
       \/ /\ pos = At(MaxFrame + 1, "head") \/ pos = Nowhere
          /\ sender' = "end"
          /\ UNCHANGED <<header, pos>>
    /\ UNCHANGED <<open, fileMux, leaked, playVars, reading, clock, queueVars, apiVars, wake, ended, raced>>

MarkHead ==
    /\ sender = "mark"
    /\ reading' = FALSE
    /\ clock' = IF clock = NoTime THEN header.time ELSE clock
    /\ fileMux' = "free"
    /\ sender' = "top"
    /\ UNCHANGED <<open, pos, leaked, playVars, header, queueVars, apiVars, wake, ended, raced>>

\* The end of the file: the trigger is suspended, then the rest.
EndOfFile ==
    /\ sender = "end"
    /\ suspended' = TRUE
    /\ sender' = "ending"
    /\ UNCHANGED <<fileVars, started, paused, seekTime, readVars, queueVars, apiVars, wake, ended, raced>>

FileEnd ==
    /\ sender = "ending"
    /\ clock' = NoTime
    /\ reading' = TRUE
    /\ ended' = TRUE
    /\ fileMux' = "free"
    /\ sender' = "out"
    /\ UNCHANGED <<open, pos, leaked, playVars, header, queueVars, apiVars, wake, raced>>

\* ReadIFrame: the bytes the header speaks of, wherever they are taken from.
ReadBody ==
    /\ sender = "body"
    /\ header.frame # Torn
    /\ IF pos = At(header.frame, "body")
       THEN pos' = At(header.frame + 1, "head") /\ queue' = Append(queue, header.frame)
       ELSE pos' = Nowhere /\ queue' = Append(queue, Torn)
    /\ sender' = "signal"
    /\ UNCHANGED <<open, fileMux, leaked, playVars, readVars, ready, shown, apiVars, wake, ended, raced>>

BodyRead ==
    /\ sender = "signal"
    /\ ready' = TRUE
    /\ reading' = TRUE
    /\ fileMux' = "free"
    /\ sender' = "top"
    /\ UNCHANGED <<open, pos, leaked, playVars, header, clock, queue, shown, apiVars, wake, ended, raced>>

\* The assert(FALSE) of a type that is none; without assertions the next header is tried.
UnknownType ==
    /\ sender = "body"
    /\ header.frame = Torn
    /\ reading' = TRUE
    /\ fileMux' = "free"
    /\ sender' = "out"
    /\ UNCHANGED <<open, pos, leaked, playVars, header, clock, queueVars, apiVars, wake, ended, raced>>

\* No frame is due: a seek is over.
LeaveLoop ==
    /\ sender = "out"
    /\ sender' = "wait"
    /\ seekTime' = NoTime
    /\ clock' = IF seekTime # NoTime THEN header.time ELSE clock
    /\ UNCHANGED <<fileVars, started, paused, suspended, reading, header, queueVars, apiVars, wake, ended, raced>>

-------------------------------------------------------------------------------

(***************************************************************************)
(* OnDecoder: all that is queued is shown, under s_mutex.                  *)
(***************************************************************************)

\* Slip: one frame for one event.
ShowOne ==
    /\ ready
    /\ ready' = FALSE
    /\ queue' = IF queue = <<>> THEN <<>> ELSE Tail(queue)
    /\ shown' = IF queue = <<>> THEN shown ELSE Head(queue)
    /\ UNCHANGED <<fileVars, playVars, readVars, apiVars, wake, sender, ended, raced>>

Show ==
    /\ ready
    /\ ready' = FALSE
    /\ queue' = <<>>
    /\ shown' = IF queue = <<>> THEN shown ELSE queue[Len(queue)]
    /\ UNCHANGED <<fileVars, playVars, readVars, apiVars, wake, sender, ended, raced>>

-------------------------------------------------------------------------------

(***************************************************************************)
(* The player's calls, one at a time.                                      *)
(***************************************************************************)

Call(there) ==
    /\ api = Idle
    /\ calls < MaxCalls
    /\ calls' = calls + 1
    /\ api' = [Idle EXCEPT !.at = there]
    /\ ended' = FALSE

\* s_file_mux can be entered: it is free, or has been left held by this thread.
FileFree == fileMux = "free" \/ leaked

\* The sender is on its way, or will be: what a call without s_file_mux writes, it may miss.
SenderOnItsWay == sender # "wait" \/ wake

\* Frames have been read since the file was opened, though it has not been started: a
\* Start made before the Open has left the trigger running.
ReadAhead == queue # <<>> \/ ~reading

\* ANALYSE_OpenFile.
OpenFile ==
    /\ Call("idle")
    /\ ~open
    /\ FileFree
    /\ open' = TRUE
    /\ started' = FALSE
    /\ reading' = TRUE
    /\ pos' = Begin
    /\ clock' = NoTime
    /\ shown' = 0
    /\ raced' = (raced \/ SenderOnItsWay \/ queue # <<>>)
    /\ UNCHANGED <<fileMux, leaked, paused, seekTime, suspended, header, queue, ready, wake, sender>>

\* The index or the file cannot be opened: the call returns inside s_file_mux.
OpenFails ==
    /\ Call("idle")
    /\ ~open
    /\ FileFree
    /\ fileMux' = "api"
    /\ leaked' = TRUE
    /\ UNCHANGED <<open, pos, playVars, readVars, queueVars, wake, sender, raced>>

\* ANALYSE_Start: to the beginning, unless the file has been started; then go.
StartFile ==
    /\ Call("go")
    /\ IF ~started /\ open
       THEN /\ FileFree
            /\ started' = TRUE
            /\ pos' = Begin
            /\ shown' = 0
            /\ raced' = (raced \/ SenderOnItsWay \/ ReadAhead)
       ELSE UNCHANGED <<started, pos, shown, raced>>
    /\ UNCHANGED <<open, fileMux, leaked, paused, seekTime, suspended, readVars, queue, ready, wake, sender>>

StartGo ==
    /\ api.at = "go"
    /\ api' = Idle
    /\ suspended' = FALSE
    /\ paused' = FALSE
    /\ UNCHANGED <<fileVars, started, seekTime, readVars, queueVars, calls, wake, sender, ended, raced>>

\* Stop, Fast, Slow, Normal and Seek begin by suspending the trigger.
Suspend(there) ==
    /\ started
    /\ Call(there)
    /\ suspended' = TRUE
    /\ UNCHANGED <<fileVars, started, paused, seekTime, readVars, queueVars, wake, sender, raced>>

\* ANALYSE_Stop, and CloseFile, which begins with it.
StopClear ==
    /\ api.at \in {"stop", "close"}
    /\ api' = IF api.at = "stop" THEN Idle ELSE [api EXCEPT !.at = "closing"]
    /\ raced' = (raced \/ SenderOnItsWay)
    /\ queue' = <<>>
    /\ shown' = pos.frame - 1
    /\ clock' = NoTime
    /\ reading' = TRUE
    /\ started' = FALSE
    /\ UNCHANGED <<fileVars, paused, seekTime, suspended, header, ready, calls, wake, sender, ended>>

CloseUnstarted ==
    /\ ~started
    /\ open
    /\ Call("closing")
    /\ UNCHANGED <<fileVars, playVars, readVars, queueVars, wake, sender, raced>>

CloseFile ==
    /\ api.at = "closing"
    /\ FileFree
    /\ api' = Idle
    /\ open' = FALSE
    /\ UNCHANGED <<pos, fileMux, leaked, playVars, readVars, queueVars, calls, wake, sender, ended, raced>>

Pause ==
    /\ started
    /\ Call("idle")
    /\ suspended' = TRUE
    /\ paused' = TRUE
    /\ UNCHANGED <<fileVars, started, seekTime, readVars, queueVars, wake, sender, raced>>

Resume ==
    /\ started
    /\ Call("idle")
    /\ suspended' = FALSE
    /\ paused' = FALSE
    /\ UNCHANGED <<fileVars, started, seekTime, readVars, queueVars, wake, sender, raced>>

\* Slip: the trigger is not resumed.
SetSpeedStill ==
    /\ api.at \in {"speed", "normal"}
    /\ api' = Idle
    /\ clock' = NoTime
    /\ UNCHANGED <<fileVars, playVars, reading, header, queueVars, calls, wake, sender, ended, raced>>

\* ANALYSE_Fast and ANALYSE_Slow; ANALYSE_Normal, which resumes a paused player too.
SetSpeed ==
    /\ api.at \in {"speed", "normal"}
    /\ api' = Idle
    /\ clock' = NoTime
    /\ suspended' = IF ~paused \/ api.at = "normal" THEN FALSE ELSE suspended
    /\ UNCHANGED <<fileVars, started, paused, seekTime, reading, header, queueVars, calls, wake, sender,
                   ended, raced>>

\* Slip: what is queued stays queued.
SeekClearNot ==
    /\ api.at = "seek"
    /\ api' = [api EXCEPT !.at = "find"]
    /\ raced' = (raced \/ SenderOnItsWay)
    /\ UNCHANGED <<fileVars, playVars, readVars, queueVars, calls, wake, sender, ended>>

\* ANALYSE_Seek: the queue is cleared,
SeekClear ==
    /\ api.at = "seek"
    /\ api' = [api EXCEPT !.at = "find"]
    /\ raced' = (raced \/ SenderOnItsWay)
    /\ queue' = <<>>
    /\ shown' = pos.frame - 1
    /\ UNCHANGED <<fileVars, playVars, readVars, ready, calls, wake, sender, ended>>

\* the file is put before a frame of the index that is near, any but the last,
SeekFind ==
    /\ api.at = "find"
    /\ \E k \in Frames \ {MaxFrame} :
           /\ api' = [at |-> "found", to |-> k]
           /\ pos' = At(k, "head")
           /\ shown' = k - 1
    /\ raced' = (raced \/ SenderOnItsWay)
    /\ UNCHANGED <<open, fileMux, leaked, playVars, readVars, queue, ready, calls, wake, sender, ended>>

\* Slip: the header read before the seek stays in force.
SeekSetKeepingHeader ==
    /\ api.at = "found"
    /\ api' = Idle
    /\ clock' = NoTime
    /\ seekTime' \in {api.to, api.to + 1}
    /\ suspended' = IF paused THEN suspended ELSE FALSE
    /\ raced' = (raced \/ SenderOnItsWay)
    /\ UNCHANGED <<fileVars, started, paused, reading, header, queueVars, calls, wake, sender, ended>>

\* and the sender is told; the time asked for may lie beyond the frame.
SeekSet ==
    /\ api.at = "found"
    /\ api' = Idle
    /\ reading' = TRUE
    /\ clock' = NoTime
    /\ seekTime' \in {api.to, api.to + 1}
    /\ suspended' = IF paused THEN suspended ELSE FALSE
    /\ raced' = (raced \/ SenderOnItsWay)
    /\ UNCHANGED <<fileVars, started, paused, header, queueVars, calls, wake, sender, ended>>

\* No frame of the index is near.
SeekMisses ==
    /\ api.at = "find"
    /\ api' = Idle
    /\ suspended' = IF paused THEN suspended ELSE FALSE
    /\ UNCHANGED <<fileVars, started, paused, seekTime, readVars, queueVars, calls, wake, sender, ended, raced>>

-------------------------------------------------------------------------------

Sender ==
    \/ Wake
    \/ EnterFile
    \/ ReadHead
    \/ MarkHead
    \/ EndOfFile
    \/ FileEnd
    \/ ReadBody
    \/ BodyRead
    \/ UnknownType
    \/ LeaveLoop

Begins ==
    \/ OpenFile
    \/ OpenFails
    \/ StartFile
    \/ \E call \in {"stop", "close", "speed", "normal", "seek"} : Suspend(call)
    \/ CloseUnstarted
    \/ Pause
    \/ Resume

GoesOn ==
    \/ StartGo
    \/ StopClear
    \/ CloseFile
    \/ SetSpeed
    \/ SeekClear
    \/ SeekFind
    \/ SeekSet
    \/ SeekMisses

Next == Tick \/ Sender \/ Show \/ Begins \/ GoesOn

\* Threads that can run do; the player may never call again, but a call goes on.
Fairness ==
    /\ WF_vars(Tick)
    /\ WF_vars(Sender)
    /\ WF_vars(Show)
    /\ WF_vars(GoesOn)

Spec == Init /\ [][Next]_vars /\ Fairness

-------------------------------------------------------------------------------

TypeOK ==
    /\ open \in BOOLEAN
    /\ started \in BOOLEAN
    /\ paused \in BOOLEAN
    /\ reading \in BOOLEAN
    /\ pos \in [frame : 1 .. MaxFrame + 1, part : {"head"}] \cup [frame : Frames, part : {"body"}] \cup {Nowhere}
    /\ header \in [frame : Frames \cup {Torn}, time : Frames \cup {NoTime}]
    /\ clock \in Frames \cup {NoTime}
    /\ seekTime \in 0 .. MaxFrame
    /\ suspended \in BOOLEAN
    /\ wake \in BOOLEAN
    /\ queue \in Seq(Frames \cup {Torn})
    /\ ready \in BOOLEAN
    /\ fileMux \in {"free", "sender", "api"}
    /\ sender \in {"wait", "top", "head", "mark", "end", "ending", "body", "signal", "out"}
    /\ api \in [at : {"idle", "go", "stop", "close", "closing", "speed", "normal", "seek", "find", "found"},
                to : Frames \cup {Torn}]
    /\ calls \in 0 .. MaxCalls
    /\ shown \in -1 .. MaxFrame
    /\ ended \in BOOLEAN
    /\ leaked \in BOOLEAN
    /\ raced \in BOOLEAN

\* Every frame the sender takes from the file has a type it knows: assert(FALSE) of
\* OnSender is not reached (FileReader.c:551).
KnownTypes == ~(sender = "body" /\ header.frame = Torn)

\* A header is read where a header is, and a body where the body of that header is,
\* unless a Start, Stop or Seek met the sender on its way.
FramesAreReadWhole ==
    ~raced => /\ KnownTypes
              /\ Torn \notin {queue[i] : i \in DOMAIN queue}

\* From where a call has put the file, every frame read is shown or still queued, once
\* and in order.
NoFrameIsSkipped ==
    ~raced => queue = [i \in 1 .. (pos.frame - 1 - shown) |-> shown + i]

\* What has been queued is shown: no wake-up of the decoder is lost.
QueuedFramesAreShown == queue # <<>> ~> queue = <<>>

Playing == open /\ started /\ ~paused /\ api = Idle

\* A file that plays comes to its end, or the player calls (a later call of a failed
\* Open blocks the sender for good, and a race may stop the trigger).
PlaysToTheEnd == Playing ~> ended \/ ~Playing \/ leaked \/ raced

===============================================================================
