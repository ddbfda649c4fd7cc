---------------------------- MODULE PlaybackProofs ----------------------------
(***************************************************************************)
(* Proofs about Playback for files of any length and any number of calls.  *)
(* As long as no call has met the sender on its way, the place in the file *)
(* and the header in force belong together, except while a Seek is between *)
(* its two writes and after a Stop: there the trigger is suspended and the *)
(* sender waits, so nobody reads.                                          *)
(***************************************************************************)
EXTENDS Playback, TLAPS

Inside == {"head", "mark", "end", "ending", "body", "signal"}

\* s_file_mux is the sender's while it reads, and the file is open then.
FileMuxIsHeld ==
    /\ sender \in Inside <=> fileMux = "sender"
    /\ leaked <=> fileMux = "api"
    /\ sender \in Inside => open

\* The calls that begin by suspending the trigger are made on a started file, and
\* nothing else resumes it meanwhile.
CallsKeepStill ==
    /\ api.at \in {"stop", "close", "speed", "normal", "seek", "find", "found"} => started /\ suspended
    /\ api.at = "found" => api.to \in Frames \ {MaxFrame}

\* No step of the sender can happen before the trigger is resumed.
Quiet == suspended /\ ~wake /\ sender = "wait"

\* A body is next exactly if its header is in force.
HeaderFits ==
    /\ sender \in {"head", "mark", "end", "ending"} => reading
    /\ sender \in {"body", "signal"} => ~reading
    /\ sender \in {"end", "ending"} => pos = At(MaxFrame + 1, "head")
    /\ IF sender = "mark" \/ (~reading /\ sender # "signal")
       THEN pos = At(header.frame, "body")
       ELSE pos.part = "head"

\* A file that has been stopped is put at its beginning before it is read again.
Stopped == Quiet /\ ~started /\ api.at # "go"

PlaceIsKnown ==
    ~raced =>
        /\ pos # Nowhere
        /\ api.at \in {"find", "found"} => Quiet /\ queue = <<>>
        /\ api.at = "found" => pos = At(api.to, "head")
        /\ open => HeaderFits \/ api.at = "found" \/ Stopped

ShownIsBehind == ~raced => shown \in 0 .. (pos.frame - 1)

\* The inductive invariant.
IInv ==
    /\ TypeOK
    /\ FileMuxIsHeld
    /\ CallsKeepStill
    /\ PlaceIsKnown
    /\ ShownIsBehind
    /\ NoFrameIsSkipped

ApiType ==
    [at : {"idle", "go", "stop", "close", "closing", "speed", "normal", "seek", "find", "found"},
     to : Frames \cup {Torn}]
Places ==
    [frame : 1 .. MaxFrame + 1, part : {"head"}] \cup [frame : Frames, part : {"body"}] \cup {Nowhere}
SenderPlaces == {"wait", "top", "head", "mark", "end", "ending", "body", "signal", "out"}
Holders == {"free", "sender", "api"}

\* What every call of the player does.
LEMMA CallTypes ==
    ASSUME TypeOK, NEW there \in {"idle", "go", "stop", "close", "closing", "speed", "normal", "seek"},
           Call(there)
    PROVE  api' \in ApiType /\ calls' \in 0 .. MaxCalls /\ ended' \in BOOLEAN
<1>1. api' \in ApiType /\ calls' \in 0 .. MaxCalls
  BY PlaybackAssumption DEF Call, Idle, ApiType, Torn, TypeOK
<1>2. ended' \in BOOLEAN
  BY DEF Call
<1> QED
  BY <1>1, <1>2

\* Every step keeps the variables within their types.
LEMMA NextTypeOK ==
    ASSUME TypeOK, CallsKeepStill, [Next]_vars
    PROVE  TypeOK'
<1> USE PlaybackAssumption
       DEF TypeOK, At, Nowhere, Begin, Torn, Idle, Frames, NoTime, CallsKeepStill,
           ApiType, Places, SenderPlaces, Holders
<1>1. ASSUME Tick PROVE TypeOK'
  BY <1>1 DEF Tick, fileVars, playVars, readVars, queueVars, apiVars
<1>2. ASSUME Wake PROVE TypeOK'
  <2>1. wake' \in BOOLEAN
    BY <1>2 DEF Wake
  <2>2. sender' \in SenderPlaces
    BY <1>2 DEF Wake
  <2>3. UNCHANGED <<fileVars, playVars, readVars, queueVars, apiVars, ended, raced>>
    BY <1>2 DEF Wake
  <2> QED
    BY <2>1, <2>2, <2>3 DEF fileVars, playVars, readVars, queueVars, apiVars
<1>3. ASSUME EnterFile PROVE TypeOK'
  BY <1>3 DEF EnterFile, fileVars, playVars, readVars, queueVars, apiVars
<1>4. ASSUME ReadHead PROVE TypeOK'
  BY <1>4 DEF ReadHead, fileVars, playVars, readVars, queueVars, apiVars
<1>5. ASSUME MarkHead PROVE TypeOK'
  <2>1. reading' \in BOOLEAN
    BY <1>5 DEF MarkHead
  <2>2. /\ clock' \in Frames \cup {NoTime}
        /\ fileMux' \in Holders
        /\ sender' \in SenderPlaces
    BY <1>5 DEF MarkHead
  <2>3. UNCHANGED <<open, pos, leaked, playVars, header, queueVars, apiVars, wake, ended, raced>>
    BY <1>5 DEF MarkHead
  <2> QED
    BY <2>1, <2>2, <2>3 DEF playVars, queueVars, apiVars
<1>6. ASSUME EndOfFile PROVE TypeOK'
  BY <1>6 DEF EndOfFile, fileVars, playVars, readVars, queueVars, apiVars
<1>7. ASSUME FileEnd PROVE TypeOK'
  BY <1>7 DEF FileEnd, fileVars, playVars, readVars, queueVars, apiVars
<1>8. ASSUME ReadBody PROVE TypeOK'
  <2>1. header.frame \in Frames
    BY <1>8 DEF ReadBody
  <2>2. pos' \in Places /\ queue' \in Seq(Frames \cup {Torn})
    <3>1. CASE pos = At(header.frame, "body")
      <4>1. pos' = At(header.frame + 1, "head") /\ queue' = Append(queue, header.frame)
        BY <1>8, <3>1 DEF ReadBody
      <4>2. header.frame + 1 \in 1 .. MaxFrame + 1
        BY <2>1
      <4> QED
        BY <2>1, <4>1, <4>2
    <3>2. CASE pos # At(header.frame, "body")
      <4>1. pos' = Nowhere /\ queue' = Append(queue, Torn)
        BY <1>8, <3>2 DEF ReadBody
      <4> QED
        BY <4>1
    <3> QED
      BY <3>1, <3>2
  <2>3. sender' \in SenderPlaces
    BY <1>8 DEF ReadBody
  <2>4. UNCHANGED <<open, fileMux, leaked, playVars, readVars, ready, shown, apiVars, wake, ended, raced>>
    BY <1>8 DEF ReadBody
  <2> QED
    BY <2>2, <2>3, <2>4 DEF playVars, readVars, apiVars
<1>9. ASSUME BodyRead PROVE TypeOK'
  BY <1>9 DEF BodyRead, fileVars, playVars, readVars, queueVars, apiVars
<1>10. ASSUME UnknownType PROVE TypeOK'
  BY <1>10 DEF UnknownType, fileVars, playVars, readVars, queueVars, apiVars
<1>11. ASSUME LeaveLoop PROVE TypeOK'
  BY <1>11 DEF LeaveLoop, fileVars, playVars, readVars, queueVars, apiVars
<1>12. ASSUME Show PROVE TypeOK'
  <2>1. ready' \in BOOLEAN
    BY <1>12 DEF Show
  <2>2. /\ queue' \in Seq(Frames \cup {Torn})
        /\ shown' \in -1 .. MaxFrame
    BY <1>12 DEF Show
  <2>3. UNCHANGED <<fileVars, playVars, readVars, apiVars, wake, sender, ended, raced>>
    BY <1>12 DEF Show
  <2> QED
    BY <2>1, <2>2, <2>3 DEF fileVars, playVars, readVars, apiVars
<1>13. ASSUME OpenFile PROVE TypeOK'
  <2>1. api' \in ApiType /\ calls' \in 0 .. MaxCalls /\ ended' \in BOOLEAN
    BY <1>13, CallTypes DEF OpenFile
  <2>2. /\ open' \in BOOLEAN
        /\ started' \in BOOLEAN
        /\ reading' \in BOOLEAN
        /\ raced' \in BOOLEAN
    BY <1>13 DEF OpenFile
  <2>3. /\ pos' \in Places
        /\ clock' \in Frames \cup {NoTime}
        /\ shown' \in -1 .. MaxFrame
    BY <1>13 DEF OpenFile
  <2>4. UNCHANGED <<fileMux, leaked, paused, seekTime, suspended, header, queue, ready, wake, sender>>
    BY <1>13 DEF OpenFile
  <2> QED
    BY <2>1, <2>2, <2>3, <2>4
<1>14. ASSUME OpenFails PROVE TypeOK'
  <2>1. api' \in ApiType /\ calls' \in 0 .. MaxCalls /\ ended' \in BOOLEAN
    BY <1>14, CallTypes DEF OpenFails
  <2>2. leaked' \in BOOLEAN
    BY <1>14 DEF OpenFails
  <2>3. fileMux' \in Holders
    BY <1>14 DEF OpenFails
  <2>4. UNCHANGED <<open, pos, playVars, readVars, queueVars, wake, sender, raced>>
    BY <1>14 DEF OpenFails
  <2> QED
    BY <2>1, <2>2, <2>3, <2>4 DEF playVars, readVars, queueVars
<1>15. ASSUME StartFile PROVE TypeOK'
  <2>1. api' \in ApiType /\ calls' \in 0 .. MaxCalls /\ ended' \in BOOLEAN
    BY <1>15, CallTypes DEF StartFile
  <2>2. /\ started' \in BOOLEAN
        /\ raced' \in BOOLEAN
    BY <1>15 DEF StartFile
  <2>3. /\ pos' \in Places
        /\ shown' \in -1 .. MaxFrame
    BY <1>15 DEF StartFile
  <2>4. UNCHANGED <<open, fileMux, leaked, paused, seekTime, suspended, readVars, queue, ready, wake, sender>>
    BY <1>15 DEF StartFile
  <2> QED
    BY <2>1, <2>2, <2>3, <2>4 DEF readVars
<1>16. ASSUME StartGo PROVE TypeOK'
  <2>1. /\ suspended' \in BOOLEAN
        /\ paused' \in BOOLEAN
    BY <1>16 DEF StartGo
  <2>2. api' \in ApiType
    BY <1>16 DEF StartGo
  <2>3. UNCHANGED <<fileVars, started, seekTime, readVars, queueVars, calls, wake, sender, ended, raced>>
    BY <1>16 DEF StartGo
  <2> QED
    BY <2>1, <2>2, <2>3 DEF fileVars, readVars, queueVars
<1>17. ASSUME NEW there \in {"stop", "close", "speed", "normal", "seek"}, Suspend(there) PROVE TypeOK'
  <2>1. api' \in ApiType /\ calls' \in 0 .. MaxCalls /\ ended' \in BOOLEAN
    BY <1>17, CallTypes DEF Suspend
  <2>2. suspended' \in BOOLEAN
    BY <1>17 DEF Suspend
  <2>3. UNCHANGED <<fileVars, started, paused, seekTime, readVars, queueVars, wake, sender, raced>>
    BY <1>17 DEF Suspend
  <2> QED
    BY <2>1, <2>2, <2>3 DEF fileVars, readVars, queueVars
<1>18. ASSUME StopClear PROVE TypeOK'
  <2>1. /\ raced' \in BOOLEAN
        /\ reading' \in BOOLEAN
        /\ started' \in BOOLEAN
    BY <1>18 DEF StopClear
  <2>2. /\ api' \in ApiType
        /\ queue' \in Seq(Frames \cup {Torn})
        /\ shown' \in -1 .. MaxFrame
        /\ clock' \in Frames \cup {NoTime}
    <3>1. api' \in ApiType
      BY <1>18 DEF StopClear
    <3>2. queue' \in Seq(Frames \cup {Torn})
      BY <1>18 DEF StopClear
    <3>3. shown' \in -1 .. MaxFrame
      BY <1>18 DEF StopClear
    <3>4. clock' \in Frames \cup {NoTime}
      BY <1>18 DEF StopClear
    <3> QED
      BY <3>1, <3>2, <3>3, <3>4
  <2>3. UNCHANGED <<fileVars, paused, seekTime, suspended, header, ready, calls, wake, sender, ended>>
    BY <1>18 DEF StopClear
  <2> QED
    BY <2>1, <2>2, <2>3 DEF fileVars
<1>19. ASSUME CloseUnstarted PROVE TypeOK'
  <2>1. api' \in ApiType /\ calls' \in 0 .. MaxCalls /\ ended' \in BOOLEAN
    BY <1>19, CallTypes DEF CloseUnstarted
  <2>2. UNCHANGED <<fileVars, playVars, readVars, queueVars, wake, sender, raced>>
    BY <1>19 DEF CloseUnstarted
  <2> QED
    BY <2>1, <2>2 DEF fileVars, playVars, readVars, queueVars
<1>20. ASSUME CloseFile PROVE TypeOK'
  <2>1. open' \in BOOLEAN
    BY <1>20 DEF CloseFile
  <2>2. api' \in ApiType
    BY <1>20 DEF CloseFile
  <2>3. UNCHANGED <<pos, fileMux, leaked, playVars, readVars, queueVars, calls, wake, sender, ended, raced>>
    BY <1>20 DEF CloseFile
  <2> QED
    BY <2>1, <2>2, <2>3 DEF playVars, readVars, queueVars
<1>21. ASSUME Pause PROVE TypeOK'
  <2>1. api' \in ApiType /\ calls' \in 0 .. MaxCalls /\ ended' \in BOOLEAN
    BY <1>21, CallTypes DEF Pause
  <2>2. /\ suspended' \in BOOLEAN
        /\ paused' \in BOOLEAN
    BY <1>21 DEF Pause
  <2>3. UNCHANGED <<fileVars, started, seekTime, readVars, queueVars, wake, sender, raced>>
    BY <1>21 DEF Pause
  <2> QED
    BY <2>1, <2>2, <2>3 DEF fileVars, readVars, queueVars
<1>22. ASSUME Resume PROVE TypeOK'
  <2>1. api' \in ApiType /\ calls' \in 0 .. MaxCalls /\ ended' \in BOOLEAN
    BY <1>22, CallTypes DEF Resume
  <2>2. /\ suspended' \in BOOLEAN
        /\ paused' \in BOOLEAN
    BY <1>22 DEF Resume
  <2>3. UNCHANGED <<fileVars, started, seekTime, readVars, queueVars, wake, sender, raced>>
    BY <1>22 DEF Resume
  <2> QED
    BY <2>1, <2>2, <2>3 DEF fileVars, readVars, queueVars
<1>23. ASSUME SetSpeed PROVE TypeOK'
  <2>1. suspended' \in BOOLEAN
    BY <1>23 DEF SetSpeed
  <2>2. /\ api' \in ApiType
        /\ clock' \in Frames \cup {NoTime}
    BY <1>23 DEF SetSpeed
  <2>3. UNCHANGED <<fileVars, started, paused, seekTime, reading, header, queueVars, calls, wake, sender,
                   ended, raced>>
    BY <1>23 DEF SetSpeed
  <2> QED
    BY <2>1, <2>2, <2>3 DEF fileVars, queueVars
<1>24. ASSUME SeekClear PROVE TypeOK'
  <2>1. raced' \in BOOLEAN
    BY <1>24 DEF SeekClear
  <2>2. api' \in ApiType
    BY <1>24 DEF SeekClear
  <2>3. queue' \in Seq(Frames \cup {Torn})
    BY <1>24 DEF SeekClear
  <2>4. shown' \in -1 .. MaxFrame
    BY <1>24 DEF SeekClear
  <2>5. UNCHANGED <<fileVars, playVars, readVars, ready, calls, wake, sender, ended>>
    BY <1>24 DEF SeekClear
  <2> QED
    BY <2>1, <2>2, <2>3, <2>4, <2>5 DEF fileVars, playVars, readVars
<1>25. ASSUME SeekFind PROVE TypeOK'
  BY <1>25 DEF SeekFind, fileVars, playVars, readVars, queueVars, apiVars,
     SenderOnItsWay
<1>26. ASSUME SeekSet PROVE TypeOK'
  BY <1>26 DEF SeekSet, fileVars, playVars, readVars, queueVars, apiVars, Idle,
     SenderOnItsWay
<1>27. ASSUME SeekMisses PROVE TypeOK'
  BY <1>27 DEF SeekMisses, fileVars, playVars, readVars, queueVars, apiVars, Idle
<1>28. ASSUME UNCHANGED vars PROVE TypeOK'
  BY <1>28 DEF vars, fileVars, playVars, readVars, queueVars, apiVars
<1> QED
  BY <1>1, <1>2, <1>3, <1>4, <1>5, <1>6, <1>7, <1>8, <1>9, <1>10, <1>11, <1>12, <1>13,
     <1>14, <1>15, <1>16, <1>17, <1>18, <1>19, <1>20, <1>21, <1>22, <1>23, <1>24, <1>25,
     <1>26, <1>27, <1>28 DEF Next, Sender, Begins, GoesOn

\* s_file_mux is taken and left by the sender, and kept by a failed Open.
LEMMA NextFileMux ==
    ASSUME TypeOK, FileMuxIsHeld, [Next]_vars
    PROVE  FileMuxIsHeld'
<1> USE DEF TypeOK, FileMuxIsHeld, Inside
<1>1. ASSUME Tick PROVE FileMuxIsHeld'
  BY <1>1 DEF Tick, fileVars, playVars, readVars, queueVars, apiVars
<1>2. ASSUME Wake PROVE FileMuxIsHeld'
  BY <1>2 DEF Wake, fileVars, playVars, readVars, queueVars, apiVars
<1>3. ASSUME EnterFile PROVE FileMuxIsHeld'
  BY <1>3 DEF EnterFile, fileVars, playVars, readVars, queueVars, apiVars
<1>4. ASSUME ReadHead PROVE FileMuxIsHeld'
  BY <1>4 DEF ReadHead, fileVars, playVars, readVars, queueVars, apiVars
<1>5. ASSUME MarkHead PROVE FileMuxIsHeld'
  BY <1>5 DEF MarkHead, fileVars, playVars, readVars, queueVars, apiVars
<1>6. ASSUME EndOfFile PROVE FileMuxIsHeld'
  BY <1>6 DEF EndOfFile, fileVars, playVars, readVars, queueVars, apiVars
<1>7. ASSUME FileEnd PROVE FileMuxIsHeld'
  BY <1>7 DEF FileEnd, fileVars, playVars, readVars, queueVars, apiVars
<1>8. ASSUME ReadBody PROVE FileMuxIsHeld'
  BY <1>8 DEF ReadBody, fileVars, playVars, readVars, queueVars, apiVars
<1>9. ASSUME BodyRead PROVE FileMuxIsHeld'
  BY <1>9 DEF BodyRead, fileVars, playVars, readVars, queueVars, apiVars
<1>10. ASSUME UnknownType PROVE FileMuxIsHeld'
  BY <1>10 DEF UnknownType, fileVars, playVars, readVars, queueVars, apiVars
<1>11. ASSUME LeaveLoop PROVE FileMuxIsHeld'
  BY <1>11 DEF LeaveLoop, fileVars, playVars, readVars, queueVars, apiVars
<1>12. ASSUME Show PROVE FileMuxIsHeld'
  BY <1>12 DEF Show, fileVars, playVars, readVars, queueVars, apiVars
<1>13. ASSUME OpenFile PROVE FileMuxIsHeld'
  BY <1>13 DEF OpenFile, fileVars, playVars, readVars, queueVars, apiVars, Call, Idle,
     FileFree, SenderOnItsWay
<1>14. ASSUME OpenFails PROVE FileMuxIsHeld'
  BY <1>14 DEF OpenFails, fileVars, playVars, readVars, queueVars, apiVars, Call, Idle,
     FileFree
<1>15. ASSUME StartFile PROVE FileMuxIsHeld'
  BY <1>15 DEF StartFile, fileVars, playVars, readVars, queueVars, apiVars, Call, Idle,
     FileFree, SenderOnItsWay, ReadAhead
<1>16. ASSUME StartGo PROVE FileMuxIsHeld'
  BY <1>16 DEF StartGo, fileVars, playVars, readVars, queueVars, apiVars, Idle
<1>17. ASSUME NEW there \in {"stop", "close", "speed", "normal", "seek"}, Suspend(there) PROVE FileMuxIsHeld'
  BY <1>17 DEF Suspend, fileVars, playVars, readVars, queueVars, apiVars, Call, Idle
<1>18. ASSUME StopClear PROVE FileMuxIsHeld'
  BY <1>18 DEF StopClear, fileVars, playVars, readVars, queueVars, apiVars, Idle,
     SenderOnItsWay
<1>19. ASSUME CloseUnstarted PROVE FileMuxIsHeld'
  BY <1>19 DEF CloseUnstarted, fileVars, playVars, readVars, queueVars, apiVars, Call,
     Idle
<1>20. ASSUME CloseFile PROVE FileMuxIsHeld'
  BY <1>20 DEF CloseFile, fileVars, playVars, readVars, queueVars, apiVars, Idle,
     FileFree
<1>21. ASSUME Pause PROVE FileMuxIsHeld'
  BY <1>21 DEF Pause, fileVars, playVars, readVars, queueVars, apiVars, Call, Idle
<1>22. ASSUME Resume PROVE FileMuxIsHeld'
  BY <1>22 DEF Resume, fileVars, playVars, readVars, queueVars, apiVars, Call, Idle
<1>23. ASSUME SetSpeed PROVE FileMuxIsHeld'
  BY <1>23 DEF SetSpeed, fileVars, playVars, readVars, queueVars, apiVars, Idle
<1>24. ASSUME SeekClear PROVE FileMuxIsHeld'
  BY <1>24 DEF SeekClear, fileVars, playVars, readVars, queueVars, apiVars,
     SenderOnItsWay
<1>25. ASSUME SeekFind PROVE FileMuxIsHeld'
  BY <1>25 DEF SeekFind, fileVars, playVars, readVars, queueVars, apiVars,
     SenderOnItsWay
<1>26. ASSUME SeekSet PROVE FileMuxIsHeld'
  BY <1>26 DEF SeekSet, fileVars, playVars, readVars, queueVars, apiVars, Idle,
     SenderOnItsWay
<1>27. ASSUME SeekMisses PROVE FileMuxIsHeld'
  BY <1>27 DEF SeekMisses, fileVars, playVars, readVars, queueVars, apiVars, Idle
<1>28. ASSUME UNCHANGED vars PROVE FileMuxIsHeld'
  BY <1>28 DEF vars, fileVars, playVars, readVars, queueVars, apiVars
<1> QED
  BY <1>1, <1>2, <1>3, <1>4, <1>5, <1>6, <1>7, <1>8, <1>9, <1>10, <1>11, <1>12, <1>13,
     <1>14, <1>15, <1>16, <1>17, <1>18, <1>19, <1>20, <1>21, <1>22, <1>23, <1>24, <1>25,
     <1>26, <1>27, <1>28 DEF Next, Sender, Begins, GoesOn

\* A call in progress keeps the trigger suspended.
LEMMA NextCalls ==
    ASSUME TypeOK, CallsKeepStill, [Next]_vars
    PROVE  CallsKeepStill'
<1> USE DEF TypeOK, CallsKeepStill, Idle, Frames
<1>1. ASSUME Tick PROVE CallsKeepStill'
  BY <1>1 DEF Tick, fileVars, playVars, readVars, queueVars, apiVars
<1>2. ASSUME Wake PROVE CallsKeepStill'
  BY <1>2 DEF Wake, fileVars, playVars, readVars, queueVars, apiVars
<1>3. ASSUME EnterFile PROVE CallsKeepStill'
  BY <1>3 DEF EnterFile, fileVars, playVars, readVars, queueVars, apiVars
<1>4. ASSUME ReadHead PROVE CallsKeepStill'
  BY <1>4 DEF ReadHead, fileVars, playVars, readVars, queueVars, apiVars
<1>5. ASSUME MarkHead PROVE CallsKeepStill'
  BY <1>5 DEF MarkHead, fileVars, playVars, readVars, queueVars, apiVars
<1>6. ASSUME EndOfFile PROVE CallsKeepStill'
  BY <1>6 DEF EndOfFile, fileVars, playVars, readVars, queueVars, apiVars
<1>7. ASSUME FileEnd PROVE CallsKeepStill'
  BY <1>7 DEF FileEnd, fileVars, playVars, readVars, queueVars, apiVars
<1>8. ASSUME ReadBody PROVE CallsKeepStill'
  BY <1>8 DEF ReadBody, fileVars, playVars, readVars, queueVars, apiVars
<1>9. ASSUME BodyRead PROVE CallsKeepStill'
  BY <1>9 DEF BodyRead, fileVars, playVars, readVars, queueVars, apiVars
<1>10. ASSUME UnknownType PROVE CallsKeepStill'
  BY <1>10 DEF UnknownType, fileVars, playVars, readVars, queueVars, apiVars
<1>11. ASSUME LeaveLoop PROVE CallsKeepStill'
  BY <1>11 DEF LeaveLoop, fileVars, playVars, readVars, queueVars, apiVars
<1>12. ASSUME Show PROVE CallsKeepStill'
  BY <1>12 DEF Show, fileVars, playVars, readVars, queueVars, apiVars
<1>13. ASSUME OpenFile PROVE CallsKeepStill'
  BY <1>13 DEF OpenFile, fileVars, playVars, readVars, queueVars, apiVars, Call, Idle,
     FileFree, SenderOnItsWay
<1>14. ASSUME OpenFails PROVE CallsKeepStill'
  BY <1>14 DEF OpenFails, fileVars, playVars, readVars, queueVars, apiVars, Call, Idle,
     FileFree
<1>15. ASSUME StartFile PROVE CallsKeepStill'
  BY <1>15 DEF StartFile, fileVars, playVars, readVars, queueVars, apiVars, Call, Idle,
     FileFree, SenderOnItsWay, ReadAhead
<1>16. ASSUME StartGo PROVE CallsKeepStill'
  BY <1>16 DEF StartGo, fileVars, playVars, readVars, queueVars, apiVars, Idle
<1>17. ASSUME NEW there \in {"stop", "close", "speed", "normal", "seek"}, Suspend(there) PROVE CallsKeepStill'
  BY <1>17 DEF Suspend, fileVars, playVars, readVars, queueVars, apiVars, Call, Idle
<1>18. ASSUME StopClear PROVE CallsKeepStill'
  BY <1>18 DEF StopClear, fileVars, playVars, readVars, queueVars, apiVars, Idle,
     SenderOnItsWay
<1>19. ASSUME CloseUnstarted PROVE CallsKeepStill'
  BY <1>19 DEF CloseUnstarted, fileVars, playVars, readVars, queueVars, apiVars, Call,
     Idle
<1>20. ASSUME CloseFile PROVE CallsKeepStill'
  BY <1>20 DEF CloseFile, fileVars, playVars, readVars, queueVars, apiVars, Idle,
     FileFree
<1>21. ASSUME Pause PROVE CallsKeepStill'
  BY <1>21 DEF Pause, fileVars, playVars, readVars, queueVars, apiVars, Call, Idle
<1>22. ASSUME Resume PROVE CallsKeepStill'
  BY <1>22 DEF Resume, fileVars, playVars, readVars, queueVars, apiVars, Call, Idle
<1>23. ASSUME SetSpeed PROVE CallsKeepStill'
  BY <1>23 DEF SetSpeed, fileVars, playVars, readVars, queueVars, apiVars, Idle
<1>24. ASSUME SeekClear PROVE CallsKeepStill'
  BY <1>24 DEF SeekClear, fileVars, playVars, readVars, queueVars, apiVars,
     SenderOnItsWay
<1>25. ASSUME SeekFind PROVE CallsKeepStill'
  BY <1>25 DEF SeekFind, fileVars, playVars, readVars, queueVars, apiVars,
     SenderOnItsWay
<1>26. ASSUME SeekSet PROVE CallsKeepStill'
  BY <1>26 DEF SeekSet, fileVars, playVars, readVars, queueVars, apiVars, Idle,
     SenderOnItsWay
<1>27. ASSUME SeekMisses PROVE CallsKeepStill'
  BY <1>27 DEF SeekMisses, fileVars, playVars, readVars, queueVars, apiVars, Idle
<1>28. ASSUME UNCHANGED vars PROVE CallsKeepStill'
  BY <1>28 DEF vars, fileVars, playVars, readVars, queueVars, apiVars
<1> QED
  BY <1>1, <1>2, <1>3, <1>4, <1>5, <1>6, <1>7, <1>8, <1>9, <1>10, <1>11, <1>12, <1>13,
     <1>14, <1>15, <1>16, <1>17, <1>18, <1>19, <1>20, <1>21, <1>22, <1>23, <1>24, <1>25,
     <1>26, <1>27, <1>28 DEF Next, Sender, Begins, GoesOn

\* As long as no call meets the sender on its way, the place fits the header.
LEMMA NextPlace ==
    ASSUME TypeOK, FileMuxIsHeld, CallsKeepStill, PlaceIsKnown, [Next]_vars
    PROVE  PlaceIsKnown'
<1> USE PlaybackAssumption
       DEF TypeOK, FileMuxIsHeld, Inside, CallsKeepStill, PlaceIsKnown, HeaderFits, Stopped, Quiet,
           At, Nowhere, Begin, Torn, Frames, Idle
<1>1. ASSUME Tick PROVE PlaceIsKnown'
  BY <1>1 DEF Tick, fileVars, playVars, readVars, queueVars, apiVars
<1>2. ASSUME Wake PROVE PlaceIsKnown'
  BY <1>2 DEF Wake, fileVars, playVars, readVars, queueVars, apiVars
<1>3. ASSUME EnterFile PROVE PlaceIsKnown'
  BY <1>3 DEF EnterFile, fileVars, playVars, readVars, queueVars, apiVars
<1>4. ASSUME ReadHead PROVE PlaceIsKnown'
  BY <1>4 DEF ReadHead, fileVars, playVars, readVars, queueVars, apiVars
<1>5. ASSUME MarkHead PROVE PlaceIsKnown'
  BY <1>5 DEF MarkHead, fileVars, playVars, readVars, queueVars, apiVars
<1>6. ASSUME EndOfFile PROVE PlaceIsKnown'
  BY <1>6 DEF EndOfFile, fileVars, playVars, readVars, queueVars, apiVars
<1>7. ASSUME FileEnd PROVE PlaceIsKnown'
  BY <1>7 DEF FileEnd, fileVars, playVars, readVars, queueVars, apiVars
<1>8. ASSUME ReadBody PROVE PlaceIsKnown'
  BY <1>8 DEF ReadBody, fileVars, playVars, readVars, queueVars, apiVars
<1>9. ASSUME BodyRead PROVE PlaceIsKnown'
  BY <1>9 DEF BodyRead, fileVars, playVars, readVars, queueVars, apiVars
<1>10. ASSUME UnknownType PROVE PlaceIsKnown'
  BY <1>10 DEF UnknownType, fileVars, playVars, readVars, queueVars, apiVars
<1>11. ASSUME LeaveLoop PROVE PlaceIsKnown'
  BY <1>11 DEF LeaveLoop, fileVars, playVars, readVars, queueVars, apiVars
<1>12. ASSUME Show PROVE PlaceIsKnown'
  BY <1>12 DEF Show, fileVars, playVars, readVars, queueVars, apiVars
<1>13. ASSUME OpenFile PROVE PlaceIsKnown'
  BY <1>13 DEF OpenFile, fileVars, playVars, readVars, queueVars, apiVars, Call, Idle,
     FileFree, SenderOnItsWay
<1>14. ASSUME OpenFails PROVE PlaceIsKnown'
  BY <1>14 DEF OpenFails, fileVars, playVars, readVars, queueVars, apiVars, Call, Idle,
     FileFree
<1>15. ASSUME StartFile PROVE PlaceIsKnown'
  BY <1>15 DEF StartFile, fileVars, playVars, readVars, queueVars, apiVars, Call, Idle,
     FileFree, SenderOnItsWay, ReadAhead
<1>16. ASSUME StartGo PROVE PlaceIsKnown'
  BY <1>16 DEF StartGo, fileVars, playVars, readVars, queueVars, apiVars, Idle
<1>17. ASSUME NEW there \in {"stop", "close", "speed", "normal", "seek"}, Suspend(there) PROVE PlaceIsKnown'
  BY <1>17 DEF Suspend, fileVars, playVars, readVars, queueVars, apiVars, Call, Idle
<1>18. ASSUME StopClear PROVE PlaceIsKnown'
  BY <1>18 DEF StopClear, fileVars, playVars, readVars, queueVars, apiVars, Idle,
     SenderOnItsWay
<1>19. ASSUME CloseUnstarted PROVE PlaceIsKnown'
  BY <1>19 DEF CloseUnstarted, fileVars, playVars, readVars, queueVars, apiVars, Call,
     Idle
<1>20. ASSUME CloseFile PROVE PlaceIsKnown'
  BY <1>20 DEF CloseFile, fileVars, playVars, readVars, queueVars, apiVars, Idle,
     FileFree
<1>21. ASSUME Pause PROVE PlaceIsKnown'
  BY <1>21 DEF Pause, fileVars, playVars, readVars, queueVars, apiVars, Call, Idle
<1>22. ASSUME Resume PROVE PlaceIsKnown'
  BY <1>22 DEF Resume, fileVars, playVars, readVars, queueVars, apiVars, Call, Idle
<1>23. ASSUME SetSpeed PROVE PlaceIsKnown'
  BY <1>23 DEF SetSpeed, fileVars, playVars, readVars, queueVars, apiVars, Idle
<1>24. ASSUME SeekClear PROVE PlaceIsKnown'
  BY <1>24 DEF SeekClear, fileVars, playVars, readVars, queueVars, apiVars,
     SenderOnItsWay
<1>25. ASSUME SeekFind PROVE PlaceIsKnown'
  BY <1>25 DEF SeekFind, fileVars, playVars, readVars, queueVars, apiVars,
     SenderOnItsWay
<1>26. ASSUME SeekSet PROVE PlaceIsKnown'
  BY <1>26 DEF SeekSet, fileVars, playVars, readVars, queueVars, apiVars, Idle,
     SenderOnItsWay
<1>27. ASSUME SeekMisses PROVE PlaceIsKnown'
  BY <1>27 DEF SeekMisses, fileVars, playVars, readVars, queueVars, apiVars, Idle
<1>28. ASSUME UNCHANGED vars PROVE PlaceIsKnown'
  BY <1>28 DEF vars, fileVars, playVars, readVars, queueVars, apiVars
<1> QED
  BY <1>1, <1>2, <1>3, <1>4, <1>5, <1>6, <1>7, <1>8, <1>9, <1>10, <1>11, <1>12, <1>13,
     <1>14, <1>15, <1>16, <1>17, <1>18, <1>19, <1>20, <1>21, <1>22, <1>23, <1>24, <1>25,
     <1>26, <1>27, <1>28 DEF Next, Sender, Begins, GoesOn


-------------------------------------------------------------------------------

\* Frames in a row, as NoFrameIsSkipped has them in the queue.
Row(k, n) == [i \in 1 .. n |-> k + i]

\* The next frame makes the row longer.
LEMMA RowGrows ==
    ASSUME NEW k \in Int, NEW n \in Nat
    PROVE  Append(Row(k, n), k + n + 1) = Row(k, n + 1)
  BY DEF Row

\* A row without frames is the empty queue.
LEMMA NoRow ==
    ASSUME NEW k \in Int
    PROVE  Row(k, 0) = <<>>
  BY DEF Row

\* The last frame of a row.
LEMMA RowEnds ==
    ASSUME NEW k \in Int, NEW n \in Nat, Row(k, n) # <<>>
    PROVE  Len(Row(k, n)) = n /\ Row(k, n)[n] = k + n
<1>1. n # 0
  BY NoRow
<1> QED
  BY <1>1 DEF Row

\* What is queued leads from the frame shown last to the place in the file.
QueueFits ==
    ~raced =>
        /\ shown \in 0 .. (pos.frame - 1)
        /\ queue = Row(shown, pos.frame - 1 - shown)

LEMMA QueueFitsMeans == QueueFits <=> ShownIsBehind /\ NoFrameIsSkipped
  BY DEF QueueFits, ShownIsBehind, NoFrameIsSkipped, Row

\* The type of the numbers that QueueFits speaks of.
LEMMA FrameType ==
    ASSUME TypeOK
    PROVE  pos.frame \in Nat /\ shown \in Int
  BY PlaybackAssumption DEF TypeOK, Nowhere, At, Torn, Frames

\* Reading makes the row longer, showing and clearing empty it; unless a call meets the
\* sender on its way, the row is never broken.
LEMMA NextQueue ==
    ASSUME TypeOK, FileMuxIsHeld, CallsKeepStill, PlaceIsKnown, QueueFits, [Next]_vars
    PROVE  QueueFits'
<1>1. ASSUME Tick PROVE QueueFits'
  BY <1>1 DEF Tick, fileVars, playVars, readVars, queueVars, apiVars, QueueFits
<1>2. ASSUME Wake PROVE QueueFits'
  BY <1>2 DEF Wake, fileVars, playVars, readVars, queueVars, apiVars, QueueFits
<1>3. ASSUME EnterFile PROVE QueueFits'
  BY <1>3 DEF EnterFile, fileVars, playVars, readVars, queueVars, apiVars, QueueFits
<1>4. ASSUME ReadHead PROVE QueueFits'
  <2>1. UNCHANGED <<raced, shown, queue>>
    BY <1>4 DEF ReadHead, queueVars
  <2>2. ~raced => pos'.frame = pos.frame
    BY <1>4 DEF ReadHead, PlaceIsKnown, HeaderFits, FileMuxIsHeld, Inside, Stopped, Quiet, At, Nowhere, Torn
  <2> QED
    BY <2>1, <2>2 DEF QueueFits
<1>5. ASSUME MarkHead PROVE QueueFits'
  BY <1>5 DEF MarkHead, fileVars, playVars, readVars, queueVars, apiVars, QueueFits
<1>6. ASSUME EndOfFile PROVE QueueFits'
  BY <1>6 DEF EndOfFile, fileVars, playVars, readVars, queueVars, apiVars, QueueFits
<1>7. ASSUME FileEnd PROVE QueueFits'
  BY <1>7 DEF FileEnd, fileVars, playVars, readVars, queueVars, apiVars, QueueFits
<1>8. ASSUME ReadBody PROVE QueueFits'
  <2> SUFFICES ASSUME ~raced'
               PROVE  shown' \in 0 .. (pos'.frame - 1) /\ queue' = Row(shown', pos'.frame - 1 - shown')
    BY DEF QueueFits
  <2>1. ~raced /\ UNCHANGED shown
    BY <1>8 DEF ReadBody
  <2>2. pos = At(header.frame, "body")
    BY <1>8, <2>1 DEF ReadBody, PlaceIsKnown, HeaderFits, FileMuxIsHeld, Inside, Stopped, Quiet
  <2>3. pos' = At(header.frame + 1, "head") /\ queue' = Append(queue, header.frame)
    BY <1>8, <2>2 DEF ReadBody
  <2>4. pos'.frame = pos.frame + 1 /\ header.frame = pos.frame
    BY <2>2, <2>3 DEF At
  <2>5. shown \in 0 .. (pos.frame - 1) /\ queue = Row(shown, pos.frame - 1 - shown)
    BY <2>1 DEF QueueFits
  <2>6. shown + (pos.frame - 1 - shown) + 1 = pos.frame /\ pos.frame - 1 - shown \in Nat
    BY <2>5, FrameType
  <2>7. queue' = Row(shown, pos.frame - 1 - shown + 1)
    <3> DEFINE n == pos.frame - 1 - shown
    <3>1. n \in Nat /\ shown \in Int /\ queue = Row(shown, n) /\ pos.frame = shown + n + 1
      BY <2>5, <2>6, FrameType
    <3>2. queue' = Append(Row(shown, n), shown + n + 1)
      BY <2>3, <2>4, <3>1
    <3> HIDE DEF n
    <3>3. queue' = Row(shown, n + 1)
      BY <3>1, <3>2, RowGrows
    <3> QED
      BY <3>3 DEF n
  <2> QED
    BY <2>1, <2>4, <2>5, <2>7, FrameType
<1>9. ASSUME BodyRead PROVE QueueFits'
  BY <1>9 DEF BodyRead, fileVars, playVars, readVars, queueVars, apiVars, QueueFits
<1>10. ASSUME UnknownType PROVE QueueFits'
  BY <1>10 DEF UnknownType, fileVars, playVars, readVars, queueVars, apiVars, QueueFits
<1>11. ASSUME LeaveLoop PROVE QueueFits'
  BY <1>11 DEF LeaveLoop, fileVars, playVars, readVars, queueVars, apiVars, QueueFits
<1>12. ASSUME Show PROVE QueueFits'
  <2> SUFFICES ASSUME ~raced'
               PROVE  shown' \in 0 .. (pos'.frame - 1) /\ queue' = Row(shown', pos'.frame - 1 - shown')
    BY DEF QueueFits
  <2>1. ~raced /\ UNCHANGED pos
    BY <1>12 DEF Show, fileVars
  <2>2. shown' = pos.frame - 1
    <3>1. CASE queue = <<>>
      <4>1. shown' = shown
        BY <1>12, <3>1 DEF Show
      <4>2. pos.frame - 1 - shown = 0
        <5>1. ASSUME pos.frame - 1 - shown \in Nat \ {0} PROVE FALSE
          BY <2>1, <3>1, <5>1 DEF QueueFits, Row
        <5> QED
          BY <2>1, <5>1, FrameType DEF QueueFits
      <4> QED
        BY <4>1, <4>2, FrameType
    <3>2. CASE queue # <<>>
      BY <1>12, <2>1, <3>2, FrameType, RowEnds DEF Show, QueueFits
    <3> QED
      BY <3>1, <3>2
  <2>3. queue' = <<>>
    BY <1>12 DEF Show
  <2>4. pos'.frame - 1 - shown' = 0 /\ shown' \in Int
    BY <2>1, <2>2, FrameType
  <2>5. pos.frame >= 1
    BY <2>1, FrameType DEF QueueFits
  <2> QED
    BY <2>1, <2>2, <2>3, <2>4, <2>5, FrameType, NoRow
<1>13. ASSUME OpenFile PROVE QueueFits'
  <2> SUFFICES ASSUME ~raced'
               PROVE  shown' \in 0 .. (pos'.frame - 1) /\ queue' = Row(shown', pos'.frame - 1 - shown')
    BY DEF QueueFits
  <2>1. queue' = <<>> /\ ~raced
    BY <1>13 DEF OpenFile, SenderOnItsWay, Begin, At
  <2>2. pos'.frame \in Nat /\ pos'.frame >= 1 /\ shown' = pos'.frame - 1
    BY <1>13, <2>1, FrameType DEF OpenFile, SenderOnItsWay, Begin, At
  <2> QED
    BY <2>1, <2>2, NoRow
<1>14. ASSUME OpenFails PROVE QueueFits'
  BY <1>14 DEF OpenFails, fileVars, playVars, readVars, queueVars, apiVars, Call, Idle,
     FileFree, QueueFits
<1>15. ASSUME StartFile PROVE QueueFits'
  <2>1. CASE ~started /\ open
    <3> SUFFICES ASSUME ~raced'
                 PROVE  shown' \in 0 .. (pos'.frame - 1) /\ queue' = Row(shown', pos'.frame - 1 - shown')
      BY DEF QueueFits
    <3>1. queue' = <<>>
      <4>1. raced' = (raced \/ SenderOnItsWay \/ ReadAhead) /\ queue' = queue
        BY <1>15, <2>1 DEF StartFile
      <4>2. ~ReadAhead
        BY <4>1
      <4> QED
        BY <4>1, <4>2 DEF ReadAhead
    <3>2. pos' = Begin /\ shown' = 0
      BY <1>15, <2>1 DEF StartFile
    <3>3. pos'.frame = 1 /\ shown' = 0
      BY <3>2 DEF Begin, At
    <3> QED
      BY <3>1, <3>3, NoRow
  <2>2. CASE ~(~started /\ open)
    BY <1>15, <2>2 DEF StartFile, QueueFits
  <2> QED
    BY <2>1, <2>2
<1>16. ASSUME StartGo PROVE QueueFits'
  BY <1>16 DEF StartGo, fileVars, playVars, readVars, queueVars, apiVars, Idle,
     QueueFits
<1>17. ASSUME NEW there \in {"stop", "close", "speed", "normal", "seek"}, Suspend(there) PROVE QueueFits'
  BY <1>17 DEF Suspend, fileVars, playVars, readVars, queueVars, apiVars, Call, Idle,
     QueueFits
<1>18. ASSUME StopClear PROVE QueueFits'
  <2> SUFFICES ASSUME ~raced'
               PROVE  shown' \in 0 .. (pos'.frame - 1) /\ queue' = Row(shown', pos'.frame - 1 - shown')
    BY DEF QueueFits
  <2>1. queue' = <<>> /\ ~raced
    BY <1>18 DEF StopClear, fileVars, QueueFits
  <2>2. pos'.frame \in Nat /\ pos'.frame >= 1 /\ shown' = pos'.frame - 1
    BY <1>18, <2>1, FrameType DEF StopClear, fileVars, QueueFits
  <2> QED
    BY <2>1, <2>2, NoRow
<1>19. ASSUME CloseUnstarted PROVE QueueFits'
  BY <1>19 DEF CloseUnstarted, fileVars, playVars, readVars, queueVars, apiVars, Call,
     Idle, QueueFits
<1>20. ASSUME CloseFile PROVE QueueFits'
  BY <1>20 DEF CloseFile, fileVars, playVars, readVars, queueVars, apiVars, Idle,
     FileFree, QueueFits
<1>21. ASSUME Pause PROVE QueueFits'
  BY <1>21 DEF Pause, fileVars, playVars, readVars, queueVars, apiVars, Call, Idle,
     QueueFits
<1>22. ASSUME Resume PROVE QueueFits'
  BY <1>22 DEF Resume, fileVars, playVars, readVars, queueVars, apiVars, Call, Idle,
     QueueFits
<1>23. ASSUME SetSpeed PROVE QueueFits'
  BY <1>23 DEF SetSpeed, fileVars, playVars, readVars, queueVars, apiVars, Idle,
     QueueFits
<1>24. ASSUME SeekClear PROVE QueueFits'
  <2> SUFFICES ASSUME ~raced'
               PROVE  shown' \in 0 .. (pos'.frame - 1) /\ queue' = Row(shown', pos'.frame - 1 - shown')
    BY DEF QueueFits
  <2>1. queue' = <<>> /\ ~raced
    BY <1>24 DEF SeekClear, fileVars, QueueFits
  <2>2. pos'.frame \in Nat /\ pos'.frame >= 1 /\ shown' = pos'.frame - 1
    BY <1>24, <2>1, FrameType DEF SeekClear, fileVars, QueueFits
  <2> QED
    BY <2>1, <2>2, NoRow
<1>25. ASSUME SeekFind PROVE QueueFits'
  <2> SUFFICES ASSUME ~raced'
               PROVE  shown' \in 0 .. (pos'.frame - 1) /\ queue' = Row(shown', pos'.frame - 1 - shown')
    BY DEF QueueFits
  <2>1. queue' = <<>> /\ ~raced
    BY <1>25 DEF SeekFind, PlaceIsKnown
  <2>2. pos'.frame \in Nat /\ pos'.frame >= 1 /\ shown' = pos'.frame - 1
    BY <1>25, <2>1, PlaybackAssumption DEF SeekFind, At, Frames
  <2> QED
    BY <2>1, <2>2, NoRow
<1>26. ASSUME SeekSet PROVE QueueFits'
  BY <1>26 DEF SeekSet, fileVars, playVars, readVars, queueVars, apiVars, Idle,
     SenderOnItsWay, QueueFits
<1>27. ASSUME SeekMisses PROVE QueueFits'
  BY <1>27 DEF SeekMisses, fileVars, playVars, readVars, queueVars, apiVars, Idle,
     QueueFits
<1>28. ASSUME UNCHANGED vars PROVE QueueFits'
  BY <1>28 DEF vars, fileVars, playVars, readVars, queueVars, apiVars, QueueFits
<1> QED
  BY <1>1, <1>2, <1>3, <1>4, <1>5, <1>6, <1>7, <1>8, <1>9, <1>10, <1>11, <1>12, <1>13,
     <1>14, <1>15, <1>16, <1>17, <1>18, <1>19, <1>20, <1>21, <1>22, <1>23, <1>24, <1>25,
     <1>26, <1>27, <1>28 DEF Next, Sender, Begins, GoesOn

-------------------------------------------------------------------------------

\* A player that has not been called yet satisfies the invariant.
LEMMA InitIInv == Init => IInv
<1> SUFFICES ASSUME Init PROVE IInv
  OBVIOUS
<1>1. TypeOK
  <2>1. /\ open \in BOOLEAN /\ started \in BOOLEAN /\ paused \in BOOLEAN /\ reading \in BOOLEAN
        /\ suspended \in BOOLEAN /\ wake \in BOOLEAN /\ ready \in BOOLEAN /\ ended \in BOOLEAN
        /\ leaked \in BOOLEAN /\ raced \in BOOLEAN
    BY DEF Init
  <2>2. /\ pos \in Places
        /\ header \in [frame : Frames \cup {Torn}, time : Frames \cup {NoTime}]
        /\ clock \in Frames \cup {NoTime} /\ seekTime \in 0 .. MaxFrame
        /\ queue \in Seq(Frames \cup {Torn}) /\ fileMux \in Holders /\ sender \in SenderPlaces
        /\ api \in ApiType /\ calls \in 0 .. MaxCalls /\ shown \in -1 .. MaxFrame
    BY PlaybackAssumption
       DEF Init, Places, Holders, SenderPlaces, ApiType, Begin, At, Nowhere, Torn, NoTime, Frames, Idle
  <2> QED
    BY <2>1, <2>2 DEF TypeOK, Places, Holders, SenderPlaces, ApiType
<1>2. FileMuxIsHeld /\ CallsKeepStill /\ PlaceIsKnown
  BY DEF Init, FileMuxIsHeld, Inside, CallsKeepStill, PlaceIsKnown, Begin, At, Nowhere, Torn, Idle
<1>3. QueueFits
  BY NoRow DEF Init, QueueFits, Begin, At
<1> QED
  BY <1>1, <1>2, <1>3, QueueFitsMeans DEF IInv

\* No step violates it.
LEMMA NextIInv == IInv /\ [Next]_vars => IInv'
<1> SUFFICES ASSUME IInv, [Next]_vars PROVE IInv'
  OBVIOUS
<1>1. QueueFits
  BY QueueFitsMeans DEF IInv
<1>2. TypeOK' /\ FileMuxIsHeld' /\ CallsKeepStill' /\ PlaceIsKnown'
  BY NextTypeOK, NextFileMux, NextCalls, NextPlace DEF IInv
<1>3. QueueFits'
  BY <1>1, NextQueue DEF IInv
<1>4. ShownIsBehind' /\ NoFrameIsSkipped'
  BY <1>3 DEF QueueFits, ShownIsBehind, NoFrameIsSkipped, Row
<1> QED
  BY <1>2, <1>4 DEF IInv

\* Frames in a row are frames of the file, and the header in force has a type.
LEMMA IInvMeansWhole == IInv => FramesAreReadWhole
<1> SUFFICES ASSUME IInv, ~raced
             PROVE  KnownTypes /\ Torn \notin {queue[i] : i \in DOMAIN queue}
  BY DEF FramesAreReadWhole
<1>1. KnownTypes
  BY DEF IInv, TypeOK, PlaceIsKnown, HeaderFits, FileMuxIsHeld, Inside, Stopped, Quiet, KnownTypes,
         At, Nowhere, Torn, Frames
<1>2. ASSUME NEW i \in DOMAIN queue PROVE queue[i] # Torn
  <2>1. QueueFits
    BY QueueFitsMeans DEF IInv
  <2> QED
    BY <1>2, <2>1, FrameType DEF IInv, QueueFits, Row, Torn
<1> QED
  BY <1>1, <1>2

\* The inductive invariant holds in every behaviour.
LEMMA Inductive == Spec => []IInv
<1>1. Init => IInv
  BY InitIInv
<1>2. IInv /\ [Next]_vars => IInv'
  BY NextIInv
<1> QED
  BY <1>1, <1>2, PTL DEF Spec

\* The variables of the file reader keep their types, whatever the player calls.
THEOREM TypeCorrect == Spec => []TypeOK
<1>1. IInv => TypeOK
  BY DEF IInv
<1> QED
  BY <1>1, Inductive, PTL

\* Unless a call that moves the file has met the sender on its way, every header is read
\* where a header is and every body where its body is: OnSender's assert is not reached.
THEOREM WholeFrames == Spec => []FramesAreReadWhole
<1>1. IInv => FramesAreReadWhole
  BY IInvMeansWhole
<1> QED
  BY <1>1, Inductive, PTL

\* Under the same condition the queue holds exactly the frames between the one shown last
\* and the place in the file, in order.
THEOREM NothingIsSkipped == Spec => []NoFrameIsSkipped
<1>1. IInv => NoFrameIsSkipped
  BY DEF IInv
<1> QED
  BY <1>1, Inductive, PTL

-------------------------------------------------------------------------------

(***************************************************************************)
(* The decoder's wake-up.                                                  *)
(***************************************************************************)

\* Frames in the queue have been announced, or the sender is about to.
WakeUpIsDue == queue # <<>> => ready \/ sender = "signal"

\* Every step announces what it queues, and only the decoder takes the announcement.
LEMMA NextWakeUp == WakeUpIsDue /\ [Next]_vars => WakeUpIsDue'
<1> SUFFICES ASSUME WakeUpIsDue, [Next]_vars PROVE WakeUpIsDue'
  OBVIOUS
<1>1. CASE UNCHANGED <<queue, ready, sender>>
  BY <1>1 DEF WakeUpIsDue
<1>2. CASE sender' = "signal" \/ ready' \/ queue' = <<>>
  BY <1>2 DEF WakeUpIsDue
<1>3. CASE UNCHANGED <<queue, ready>> /\ sender # "signal"
  BY <1>3 DEF WakeUpIsDue
<1>4. CASE Tick
  BY <1>1, <1>4 DEF Tick, queueVars
<1>5. CASE Sender
  BY <1>2, <1>3, <1>5 DEF Sender, Wake, EnterFile, ReadHead, MarkHead, EndOfFile, FileEnd, ReadBody,
                          BodyRead, UnknownType, LeaveLoop, queueVars
<1>6. CASE Show
  BY <1>2, <1>6 DEF Show
<1>7. CASE Begins
  BY <1>1, <1>7 DEF Begins, OpenFile, OpenFails, StartFile, Suspend, CloseUnstarted, Pause, Resume,
                    queueVars
<1>8. CASE GoesOn
  BY <1>1, <1>2, <1>8 DEF GoesOn, StartGo, StopClear, CloseFile, SetSpeed, SeekClear, SeekFind,
                          SeekSet, SeekMisses, queueVars
<1>9. CASE UNCHANGED vars
  BY <1>1, <1>9 DEF vars, queueVars
<1> QED
  BY <1>4, <1>5, <1>6, <1>7, <1>8, <1>9 DEF Next

\* No wake-up of the decoder is lost: whatever the player calls in between, and however often
\* the two threads meet, queued frames have been announced or are just going to be
\* (OnSender, OnDecoder, ANALYSE_Stop and ANALYSE_Seek).
THEOREM NoWakeUpIsLost == Spec => []WakeUpIsDue
<1>1. Init => WakeUpIsDue
  BY DEF Init, WakeUpIsDue
<1> QED
  BY <1>1, NextWakeUp, PTL DEF Spec

\* Inside s_file_mux the sender waits for nobody, and neither does the decoder with its event set.
SenderCanAnnounce == [](sender = "signal" => ENABLED <<Sender>>_vars)
DecoderCanShow == [](ready => ENABLED <<Show>>_vars)

\* What the sender has begun to announce it announces, unless the queue is emptied first.
LEMMA AnnouncedOrEmptied ==
    ASSUME queue # <<>>, sender = "signal", [Next]_vars
    PROVE  /\ (queue' # <<>> /\ sender' = "signal") \/ ready' \/ queue' = <<>>
           /\ <<Sender>>_vars => ready'
<1>1. Sender => ready'
  BY DEF Sender, Wake, EnterFile, ReadHead, MarkHead, EndOfFile, FileEnd, ReadBody, BodyRead,
         UnknownType, LeaveLoop
<1>2. sender' = "signal" \/ ready'
  BY <1>1 DEF Next, Tick, Show, Begins, OpenFile, OpenFails, StartFile, Suspend, CloseUnstarted, Pause,
         Resume, GoesOn, StartGo, StopClear, CloseFile, SetSpeed, SeekClear, SeekFind, SeekSet,
         SeekMisses, vars
<1> QED
  BY <1>1, <1>2

\* The announcement stays until the decoder has emptied the queue.
LEMMA AnnouncementStays ==
    ASSUME ready, [Next]_vars
    PROVE  ready' \/ queue' = <<>>
BY DEF Next, Tick, Show, Begins, OpenFile, OpenFails, StartFile, Suspend, CloseUnstarted, Pause,
       Resume, GoesOn, StartGo, StopClear, CloseFile, SetSpeed, SeekClear, SeekFind, SeekSet,
       SeekMisses, Sender, Wake, EnterFile, ReadHead, MarkHead, EndOfFile, FileEnd, ReadBody, BodyRead,
       UnknownType, LeaveLoop, vars, queueVars

\* What is queued is shown, or thrown away by a call, as long as the two threads run.  The
\* premises say when their steps are enabled, which the guards of the steps do.
THEOREM QueuedAreShown == Spec /\ SenderCanAnnounce /\ DecoderCanShow => QueuedFramesAreShown
<1> DEFINE Empty == queue = <<>>
           Announcing == queue # <<>> /\ sender = "signal"
<1>1. Announcing /\ [Next]_vars => Announcing' \/ ready' \/ Empty'
  BY AnnouncedOrEmptied
<1>2. Announcing /\ [Next]_vars /\ <<Sender>>_vars => ready'
  BY AnnouncedOrEmptied
<1>3. ready /\ [Next]_vars => ready' \/ Empty'
  BY AnnouncementStays
<1>4. <<Show>>_vars => Empty'
  BY DEF Show
<1>5. WakeUpIsDue => Empty \/ ready \/ Announcing
  BY DEF WakeUpIsDue
<1>6. Announcing => sender = "signal"
  OBVIOUS
<1>7. Empty <=> ~(queue # <<>>)
  OBVIOUS
<1> HIDE DEF Announcing
<1> QED
  BY <1>1, <1>2, <1>3, <1>4, <1>5, <1>6, <1>7, NoWakeUpIsLost, PTL
     DEF Spec, Fairness, SenderCanAnnounce, DecoderCanShow, QueuedFramesAreShown

===============================================================================
