------------------------------ MODULE FtpClient -------------------------------
(***************************************************************************)
(* The control connection of an FTP client (CFTPClient): commands go out,  *)
(* replies come back, one line at a time.  What a recv() returns is cut    *)
(* into lines that wait in m_qResponseBuffer, and the next reply is taken  *)
(* from there whatever the command was.  The buffer outlives the           *)
(* connection.  The server is the environment.                             *)
(*                                                                         *)
(* A connection is a value; an operator of this module gives the outcomes  *)
(* a call may have, and the module that drives the client picks one.       *)
(***************************************************************************)
EXTENDS Integers, Sequences

\* First digits of reply codes; 4xx and 5xx are the same to the client.
Preliminary == 1
Completion == 2
Intermediate == 3
Negative == 5

\* What a reply answers; "end" is the second reply to a data command.
Commands == {"GREET", "USER", "PASS", "ACCT", "CWD", "TYPE", "PORT", "NLST", "RETR",
             "REST", "SIZE", "QUIT", "END"}

Reply == [to : Commands, class : {Preliminary, Completion, Intermediate, Negative}]
\* GetResponse returned false.
NoReply == [to |-> "none", class |-> 0]

(***************************************************************************)
(* A connection: whether the socket is open and, if so, whether the server *)
(* still is; the lines in m_qResponseBuffer; the replies still to be       *)
(* received; the representation the server has been told.                  *)
(***************************************************************************)
Connection == [state : {"closed", "open", "hung"}, buffer : Seq(Reply), wire : Seq(Reply),
               type : {"none", "A", "I"}]

NewClient == [state |-> "closed", buffer |-> <<>>, wire |-> <<>>, type |-> "none"]

IsConnected(c) == c.state # "closed"

\* IBlockingSocket::Cleanup, after an exception: what was not received is lost.
Cleanup(c) == [c EXCEPT !.state = "closed", !.wire = <<>>]

CloseControlChannel(c) == [Cleanup(c) EXCEPT !.type = "none"]

\* A call's outcome: the reply the caller gets, the one the server gave, the
\* connection after it, and whether something went wrong that had been well.
Outcome(heard, said, c, fault) == [heard |-> heard, said |-> said, conn |-> c, fault |-> fault]

\* GetSingleResponseLine: from the buffer, or else from the first k replies on the wire.
TakeReply(c, said) ==
    IF c.buffer # <<>>
    THEN {Outcome(Head(c.buffer), said, [c EXCEPT !.buffer = Tail(@)], FALSE)}
    ELSE {Outcome(c.wire[1], said,
                  [c EXCEPT !.buffer = SubSeq(c.wire, 2, k),
                            !.wire = SubSeq(@, k + 1, Len(@))], FALSE) : k \in 1 .. Len(c.wire)}

\* No reply: a time-out or an error closes the socket; if the server has closed its
\* end there is nothing to receive, and the socket stays open.
NoAnswer(c, said) ==
    LET well == c.state = "open"
    IN  {Outcome(NoReply, said, Cleanup(c), well)}
        \cup IF c.buffer = <<>> /\ (well \/ c.wire = <<>>)
             THEN {Outcome(NoReply, said, [c EXCEPT !.state = "hung", !.wire = <<>>], well)}
             ELSE {}

GetResponse(c, said) ==
    IF IsConnected(c) THEN TakeReply(c, said) \cup NoAnswer(c, said)
    ELSE {Outcome(NoReply, said, c, FALSE)}

\* SendCommand and GetResponse; the server answers with one of some classes of reply.
SendCommand(c, cmd, classes) ==
    IF c.state = "open"
    THEN UNION {LET said == [to |-> cmd, class |-> class]
                IN  GetResponse([c EXCEPT !.wire = Append(@, said)], said) : class \in classes}
    ELSE GetResponse(c, NoReply)

\* Logout: the channel is closed if the server has answered at all.
Logout(c) ==
    {IF o.heard = NoReply THEN o 
     ELSE Outcome(o.heard, o.said, CloseControlChannel(o.conn), o.fault) :
        o \in SendCommand(c, "QUIT", {Completion, Negative})}

\* OpenControlChannel.
OpenControlChannel(c) ==
    LET closed == CloseControlChannel(c)
        greeting == {[to |-> "GREET", class |-> class] : class \in {Completion, Negative}}
    IN  {Outcome(NoReply, NoReply, closed, TRUE)}
        \cup {Outcome(g, g, [closed EXCEPT !.state = "open", !.wire = <<g>>], FALSE) : g \in greeting}

\* What the server says by itself: the end of a data transfer.
ServerSays(c, class) ==
    IF c.state = "open" THEN [c EXCEPT !.wire = Append(@, [to |-> "END", class |-> class])] ELSE c

===============================================================================
