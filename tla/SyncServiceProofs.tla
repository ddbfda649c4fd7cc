--------------------------- MODULE SyncServiceProofs ---------------------------
(***************************************************************************)
(* Proofs about SyncService for any recorders, files and faults.           *)
(*                                                                         *)
(* The replies: as long as no transfer has been left, nothing waits in the *)
(* buffer, and on the wire there is at most the one reply the worker's     *)
(* place calls for.  The files: from StartDownLoad to OnReturn the file is *)
(* one of the recorder that m_info names and has no row yet, and a         *)
(* connection on which data can still come has the observer that records   *)
(* them.                                                                   *)
(***************************************************************************)
EXTENDS SyncService, SequenceTheorems, TLAPS

Classes == {Preliminary, Completion, Intermediate, Negative}

\* Nothing is to be received.
Quiet(c) == c.buffer = <<>> /\ c.wire = <<>>

\* One reply is to be received.
Awaits(c, w) ==
    /\ c.state = "open"
    /\ c.buffer = <<>>
    /\ \E m \in Reply : m.to = w /\ c.wire = <<m>>

\* What the worker's place lets come without a command.
Expected ==
    CASE step = "greet" -> "GREET"
      [] step \in {"listingEnd", "listedEnd", "gettingEnd", "got"} -> "END"
      [] OTHER -> "none"

RepliesAreExpected ==
    ~strayed =>
        /\ RepliesAnswerTheirCommand
        /\ Quiet(conn) \/ Awaits(conn, Expected)

GetSteps == {"space", "size", "quitSize", "typeI", "portI", "rest", "retr", "getting", "gettingEnd", "got"}

\* The job at hand has a recorder and a file; the file is the recorder's own.
JobFits ==
    /\ step # "idle" \/ onHost \/ callback => info \in Hosts
    /\ callback => remote \in Files
    /\ onHost => \A f \in files : Owner[f] = info
    /\ step \in GetSteps => remote \in Files /\ Owner[remote] = info

\* A file that is about to be fetched has no row.
NotYetRecorded ==
    step \in {"space", "size", "quitSize"} => \A r \in rows : r.file # remote

\* Data of a file can come only while their end will be noticed.
ObserverIsThere ==
    /\ step \in {"size", "gettingEnd"} => callback /\ attached
    /\ step \in {"typeI", "portI", "rest", "retr", "getting"} /\ conn.state = "open"
           => callback /\ attached

\* What has been received is all of the file, or the server broke off.
ReceivedFilesAreWhole ==
    step = "gettingEnd" => disk[remote] = "whole" \/ remote \in cut

\* A row under another recorder than the file's comes from the end of a listing.
WrongRowsAreEchoed ==
    \A r \in rows : r.host = Owner[r.file] \/ r.file \in echoed

\* The inductive invariant.
IInv ==
    /\ TypeOK
    /\ RepliesAreExpected
    /\ JobFits
    /\ NotYetRecorded
    /\ ObserverIsThere
    /\ ReceivedFilesAreWhole
    /\ WrongRowsAreEchoed
    /\ RecordedFilesAreWhole
    /\ WholeFilesCanBeDeleted

-------------------------------------------------------------------------------

(***************************************************************************)
(* The outcomes of a call on a connection.                                 *)
(***************************************************************************)

OutcomeType(o) ==
    /\ o.heard \in Reply \cup {NoReply}
    /\ o.conn \in Connection
    /\ o.fault \in BOOLEAN

\* An operator that changes the buffer and the wire of a connection only.
LEMMA ConnectionFields ==
    ASSUME NEW c \in Connection, NEW st \in {"closed", "open", "hung"}, NEW b \in Seq(Reply),
           NEW w \in Seq(Reply), NEW ty \in {"none", "A", "I"}
    PROVE  [state |-> st, buffer |-> b, wire |-> w, type |-> ty] \in Connection
BY DEF Connection

LEMMA EmptyIsSeq == <<>> \in Seq(Reply)
OBVIOUS

LEMMA CleanupFacts ==
    ASSUME NEW c \in Connection
    PROVE  /\ Cleanup(c) = [state |-> "closed", buffer |-> c.buffer, wire |-> <<>>, type |-> c.type]
           /\ Cleanup(c) \in Connection
           /\ CloseControlChannel(c) = [state |-> "closed", buffer |-> c.buffer, wire |-> <<>>, type |-> "none"]
           /\ CloseControlChannel(c) \in Connection
<1>1. Cleanup(c) = [state |-> "closed", buffer |-> c.buffer, wire |-> <<>>, type |-> c.type]
  <2> DEFINE d == Cleanup(c)
  <2>1. d = [c EXCEPT !.state = "closed", !.wire = <<>>]
    BY DEF Cleanup
  <2> HIDE DEF d
  <2>2. d = [state |-> "closed", buffer |-> c.buffer, wire |-> <<>>, type |-> c.type]
    BY <2>1 DEF Connection
  <2> QED
    BY <2>2 DEF d
<1>3. CloseControlChannel(c) = [state |-> "closed", buffer |-> c.buffer, wire |-> <<>>, type |-> "none"]
  BY <1>1 DEF CloseControlChannel
<1>2. c.buffer \in Seq(Reply) /\ c.type \in {"none", "A", "I"}
  BY DEF Connection
<1> QED
  BY <1>1, <1>2, <1>3, EmptyIsSeq, ConnectionFields

\* A reply that is taken is one of those that wait; the connection stays as it is otherwise.
LEMMA TakeReplyFacts ==
    ASSUME NEW c \in Connection, NEW said, NEW o \in TakeReply(c, said)
    PROVE  /\ OutcomeType(o)
           /\ o.said = said
           /\ o.heard \in Reply
           /\ o.conn.state = c.state
           /\ ~Quiet(c)
           /\ \A w : Awaits(c, w) => o.heard.to = w /\ Quiet(o.conn)
<1>1. CASE c.buffer # <<>>
  <2>1. o = Outcome(Head(c.buffer), said, [c EXCEPT !.buffer = Tail(@)], FALSE)
    BY <1>1 DEF TakeReply
  <2>2. c.buffer \in Seq(Reply)
    BY DEF Connection
  <2>3. Head(c.buffer) \in Reply /\ Tail(c.buffer) \in Seq(Reply)
    BY <1>1, <2>2, HeadTailProperties
  <2>4. o.heard = Head(c.buffer) /\ o.said = said /\ o.conn = [c EXCEPT !.buffer = Tail(@)]
    BY <2>1 DEF Outcome
  <2>5. o.fault \in BOOLEAN
    BY <2>1 DEF Outcome
  <2>6. o.conn \in Connection /\ o.conn.state = c.state
    BY <2>3, <2>4 DEF Connection
  <2> QED
    BY <1>1, <2>3, <2>4, <2>5, <2>6 DEF OutcomeType, Quiet, Awaits
<1>2. CASE c.buffer = <<>>
  <2>1. PICK k \in 1 .. Len(c.wire) :
            o = Outcome(c.wire[1], said, [c EXCEPT !.buffer = SubSeq(c.wire, 2, k),
                                                   !.wire = SubSeq(@, k + 1, Len(@))], FALSE)
    BY <1>2 DEF TakeReply
  <2>2. c.wire \in Seq(Reply) /\ Len(c.wire) \in Nat
    BY DEF Connection
  <2>3. c.wire[1] \in Reply
    BY <2>1, <2>2
  <2>4. SubSeq(c.wire, 2, k) \in Seq(Reply) /\ SubSeq(c.wire, k + 1, Len(c.wire)) \in Seq(Reply)
    <3>1. /\ \A i \in 2 .. k : c.wire[i] \in Reply
          /\ \A i \in (k + 1) .. Len(c.wire) : c.wire[i] \in Reply
      BY <2>1, <2>2
    <3> QED
      BY <2>2, <3>1, SubSeqProperties
  <2>5. /\ o.heard = c.wire[1]
        /\ o.said = said
        /\ o.conn = [c EXCEPT !.buffer = SubSeq(c.wire, 2, k), !.wire = SubSeq(c.wire, k + 1, Len(c.wire))]
    BY <2>1 DEF Outcome
  <2>6. o.fault \in BOOLEAN
    BY <2>1 DEF Outcome
  <2>7. /\ o.conn \in Connection
        /\ o.conn.state = c.state
        /\ o.conn.buffer = SubSeq(c.wire, 2, k)
        /\ o.conn.wire = SubSeq(c.wire, k + 1, Len(c.wire))
    BY <2>4, <2>5 DEF Connection
  <2>8. ~Quiet(c)
    BY <2>1 DEF Quiet
  <2>9. ASSUME NEW w, Awaits(c, w) PROVE o.heard.to = w /\ Quiet(o.conn)
    <3>1. Len(c.wire) = 1 /\ c.wire[1].to = w
      BY <2>9 DEF Awaits
    <3>2. SubSeq(c.wire, 2, k) = <<>> /\ SubSeq(c.wire, k + 1, Len(c.wire)) = <<>>
      BY <2>1, <3>1, SubSeqEmpty
    <3> QED
      BY <2>5, <2>7, <3>1, <3>2 DEF Quiet
  <2> QED
    BY <2>3, <2>5, <2>6, <2>7, <2>8, <2>9 DEF OutcomeType
<1> QED
  BY <1>1, <1>2

\* Without a reply the connection is closed or hangs, and nothing is to be received.
LEMMA NoAnswerFacts ==
    ASSUME NEW c \in Connection, NEW said, NEW o \in NoAnswer(c, said)
    PROVE  /\ OutcomeType(o)
           /\ o.said = said
           /\ o.heard = NoReply
           /\ o.conn.state # "open"
           /\ c.buffer = <<>> => Quiet(o.conn)
<1>1. CASE o = Outcome(NoReply, said, Cleanup(c), c.state = "open")
  <2>1. o.heard = NoReply /\ o.said = said /\ o.conn = Cleanup(c)
    BY <1>1 DEF Outcome
  <2>2. o.fault \in BOOLEAN
    BY <1>1 DEF Outcome
  <2> QED
    <3>1. /\ Cleanup(c) = [state |-> "closed", buffer |-> c.buffer, wire |-> <<>>, type |-> c.type]
          /\ Cleanup(c) \in Connection
      BY CleanupFacts
    <3> QED
      BY <2>1, <2>2, <3>1 DEF OutcomeType, Quiet
<1>2. CASE o = Outcome(NoReply, said, [c EXCEPT !.state = "hung", !.wire = <<>>], c.state = "open")
  <2>1. o.heard = NoReply /\ o.said = said /\ o.conn = [c EXCEPT !.state = "hung", !.wire = <<>>]
    BY <1>2 DEF Outcome
  <2>2. o.fault \in BOOLEAN
    BY <1>2 DEF Outcome
  <2>3. o.conn = [state |-> "hung", buffer |-> c.buffer, wire |-> <<>>, type |-> c.type]
    BY <2>1 DEF Connection
  <2>4. o.conn \in Connection
    <3>1. c.buffer \in Seq(Reply) /\ c.type \in {"none", "A", "I"}
      BY DEF Connection
    <3> QED
      BY <2>3, <3>1, EmptyIsSeq, ConnectionFields
  <2> QED
    BY <2>1, <2>2, <2>3, <2>4 DEF OutcomeType, Quiet
<1> QED
  BY <1>1, <1>2 DEF NoAnswer

LEMMA ReplyIsNone == NoReply.to = "none" /\ NoReply \notin Reply
BY DEF NoReply, Reply, Commands

LEMMA GetResponseFacts ==
    ASSUME NEW c \in Connection, NEW said, NEW o \in GetResponse(c, said)
    PROVE  /\ OutcomeType(o)
           /\ o.conn.state = "open" => c.state = "open" /\ o.heard \in Reply /\ o.said = said
           /\ o.heard = NoReply => o.conn.state # "open"
           /\ Quiet(c) => Quiet(o.conn) /\ o.heard = NoReply
           /\ \A w : Awaits(c, w) => o.heard.to \in {w, "none"} /\ Quiet(o.conn)
<1>1. CASE IsConnected(c) /\ o \in TakeReply(c, said)
  BY <1>1, TakeReplyFacts, ReplyIsNone
<1>2. CASE IsConnected(c) /\ o \in NoAnswer(c, said)
  BY <1>2, NoAnswerFacts, ReplyIsNone DEF Quiet, Awaits
<1>3. CASE ~IsConnected(c) /\ o = Outcome(NoReply, said, c, FALSE)
  <2>1. o.heard = NoReply /\ o.conn = c
    BY <1>3 DEF Outcome
  <2>2. o.fault \in BOOLEAN
    BY <1>3 DEF Outcome
  <2> QED
    BY <1>3, <2>1, <2>2 DEF OutcomeType, IsConnected, Awaits
<1> QED
  BY <1>1, <1>2, <1>3 DEF GetResponse

SendFacts(c, cmd, o) ==
    /\ OutcomeType(o)
    /\ o.conn.state = "open" => c.state = "open" /\ o.heard \in Reply
    /\ o.heard = NoReply => o.conn.state # "open"
    /\ Quiet(c) =>
           /\ Quiet(o.conn)
           /\ o.heard.to \in {cmd, "none"}
           /\ o.conn.state = "open" => o.said = o.heard

LEMMA SendCommandFacts ==
    ASSUME NEW c \in Connection, NEW cmd \in Commands, NEW classes \in SUBSET Classes,
           NEW o \in SendCommand(c, cmd, classes)
    PROVE  SendFacts(c, cmd, o)
<1>1. CASE c.state = "open"
  <2>1. PICK class \in classes :
            o \in GetResponse([c EXCEPT !.wire = Append(@, [to |-> cmd, class |-> class])],
                              [to |-> cmd, class |-> class])
    BY <1>1 DEF SendCommand
  <2> DEFINE m == [to |-> cmd, class |-> class]
             sent == [c EXCEPT !.wire = Append(@, m)]
  <2>2. m \in Reply
    BY DEF Reply, Classes
  <2>3. sent \in Connection /\ sent.state = "open" /\ sent.buffer = c.buffer /\ sent.wire = Append(c.wire, m)
    <3>1. Append(c.wire, m) \in Seq(Reply)
      <4>1. c.wire \in Seq(Reply)
        BY DEF Connection
      <4> HIDE DEF m
      <4> QED
        BY <2>2, <4>1
    <3> DEFINE x == Append(c.wire, m)
    <3>2. sent = [c EXCEPT !.wire = x] /\ x \in Seq(Reply)
      BY <3>1
    <3> HIDE DEF sent, x
    <3>3. sent \in Connection
      BY <3>2 DEF Connection
    <3>4. sent.state = "open" /\ sent.buffer = c.buffer /\ sent.wire = x
      BY <1>1, <3>2 DEF Connection
    <3> QED
      BY <3>3, <3>4 DEF x
  <2>4. Quiet(c) => Awaits(sent, cmd)
    <3>1. m.to = cmd /\ Append(<<>>, m) = <<m>>
      OBVIOUS
    <3> HIDE DEF m, sent
    <3> QED
      BY <2>2, <2>3, <3>1 DEF Quiet, Awaits
  <2>5. /\ OutcomeType(o)
        /\ o.conn.state = "open" => o.heard \in Reply
        /\ o.heard = NoReply => o.conn.state # "open"
        /\ Awaits(sent, cmd) => o.heard.to \in {cmd, "none"} /\ Quiet(o.conn)
    <3> HIDE DEF m, sent
    <3>1. o \in GetResponse(sent, m)
      BY <2>1 DEF m, sent
    <3> QED
      BY <2>3, <3>1, GetResponseFacts
  <2>6. Quiet(c) /\ o.conn.state = "open" => o.said = o.heard
    <3>1. sent \in Connection /\ o \in GetResponse(sent, m) /\ IsConnected(sent)
      BY <2>1, <2>3 DEF IsConnected
    <3>2. CASE o \in TakeReply(sent, m)
      <4>1. ASSUME Quiet(c) PROVE o.heard = m /\ o.said = m
        <5>1. sent.buffer = <<>> /\ sent.wire = <<m>>
          BY <2>3, <4>1 DEF Quiet
        <5> HIDE DEF sent, m
        <5>2. PICK k \in 1 .. Len(sent.wire) :
                  o = Outcome(sent.wire[1], m, [sent EXCEPT !.buffer = SubSeq(sent.wire, 2, k),
                                                  !.wire = SubSeq(@, k + 1, Len(@))], FALSE)
          BY <3>2, <5>1 DEF TakeReply
        <5> QED
          BY <5>1, <5>2 DEF Outcome
      <4> QED
        BY <4>1
    <3>3. CASE o \in NoAnswer(sent, m)
      <4> HIDE DEF sent, m
      <4> QED
        BY <3>1, <3>3, NoAnswerFacts
    <3> HIDE DEF sent, m
    <3> QED
      BY <3>1, <3>2, <3>3 DEF GetResponse
  <2> QED
    BY <1>1, <2>4, <2>5, <2>6 DEF SendFacts
<1>2. CASE c.state # "open"
  <2>1. o \in GetResponse(c, NoReply)
    BY <1>2 DEF SendCommand
  <2> QED
    BY <1>2, <2>1, GetResponseFacts, ReplyIsNone DEF SendFacts
<1> QED
  BY <1>1, <1>2

\* After Logout the connection is closed, or hangs.
LEMMA LogoutFacts ==
    ASSUME NEW c \in Connection, NEW o \in Logout(c)
    PROVE  SendFacts(c, "QUIT", o) /\ o.conn.state # "open"
<1>1. PICK q \in SendCommand(c, "QUIT", {Completion, Negative}) :
          o = IF q.heard = NoReply THEN q 
              ELSE Outcome(q.heard, q.said, CloseControlChannel(q.conn), q.fault)
  BY DEF Logout
<1>2. "QUIT" \in Commands /\ {Completion, Negative} \in SUBSET Classes
  BY DEF Commands, Classes
<1>3. SendFacts(c, "QUIT", q)
  BY <1>2, SendCommandFacts
<1>4. CASE q.heard = NoReply
  BY <1>1, <1>3, <1>4 DEF SendFacts
<1>5. CASE q.heard # NoReply
  <2>1. /\ CloseControlChannel(q.conn) \in Connection
        /\ CloseControlChannel(q.conn).state = "closed"
        /\ Quiet(q.conn) => Quiet(CloseControlChannel(q.conn))
    <3>1. q.conn \in Connection
      BY <1>3 DEF SendFacts, OutcomeType
    <3>2. /\ CloseControlChannel(q.conn) =
                 [state |-> "closed", buffer |-> q.conn.buffer, wire |-> <<>>, type |-> "none"]
          /\ CloseControlChannel(q.conn) \in Connection
      BY <3>1, CleanupFacts
    <3> QED
      BY <3>2 DEF Quiet
  <2>2. o.heard = q.heard /\ o.fault = q.fault /\ o.conn = CloseControlChannel(q.conn)
    BY <1>1, <1>5 DEF Outcome
  <2> QED
    BY <1>3, <2>1, <2>2 DEF SendFacts, OutcomeType
<1> QED
  BY <1>4, <1>5

\* A new connection expects its greeting; what it finds in the buffer is the old one's.
LEMMA OpenFacts ==
    ASSUME NEW c \in Connection, NEW o \in OpenControlChannel(c)
    PROVE  /\ o.conn \in Connection
           /\ o.fault \in BOOLEAN
           /\ o.conn.state \in {"closed", "open"}
           /\ c.buffer = <<>> /\ o.conn.state = "open" => Awaits(o.conn, "GREET")
           /\ c.buffer = <<>> /\ o.conn.state # "open" => Quiet(o.conn)
<1> DEFINE closed == CloseControlChannel(c)
<1>1. /\ closed = [state |-> "closed", buffer |-> c.buffer, wire |-> <<>>, type |-> "none"]
      /\ closed \in Connection
  BY CleanupFacts
<1>2. CASE o = Outcome(NoReply, NoReply, closed, TRUE)
  <2>1. o.conn = closed
    BY <1>2 DEF Outcome
  <2>2. o.fault \in BOOLEAN
    BY <1>2 DEF Outcome
  <2> QED
    BY <1>1, <2>1, <2>2 DEF Quiet
<1>3. ASSUME NEW class \in {Completion, Negative},
             o = Outcome([to |-> "GREET", class |-> class], [to |-> "GREET", class |-> class],
                         [closed EXCEPT !.state = "open", !.wire = <<[to |-> "GREET", class |-> class]>>],
                         FALSE)
      PROVE  /\ o.conn \in Connection
             /\ o.fault \in BOOLEAN
             /\ o.conn.state = "open"
             /\ c.buffer = <<>> => Awaits(o.conn, "GREET")
  <2> DEFINE g == [to |-> "GREET", class |-> class]
  <2>1. g \in Reply /\ g.to = "GREET"
    BY DEF Reply, Commands
  <2>2. o.fault \in BOOLEAN
    BY <1>3 DEF Outcome
  <2>3. o.conn = [state |-> "open", buffer |-> c.buffer, wire |-> <<g>>, type |-> "none"]
    <3>1. o.conn = [closed EXCEPT !.state = "open", !.wire = <<g>>]
      BY <1>3 DEF Outcome
    <3>2. <<g>> \in Seq(Reply)
      BY <2>1
    <3> HIDE DEF closed, g
    <3> QED
      BY <1>1, <3>1, <3>2 DEF Connection
  <2>4. c.buffer \in Seq(Reply) /\ <<g>> \in Seq(Reply)
    BY <2>1 DEF Connection
  <2> HIDE DEF g
  <2>5. o.conn \in Connection
    BY <2>3, <2>4, ConnectionFields
  <2> QED
    BY <2>1, <2>2, <2>3, <2>5 DEF Awaits
<1> HIDE DEF closed
<1>4. \/ o = Outcome(NoReply, NoReply, closed, TRUE)
      \/ \E class \in {Completion, Negative} :
             o = Outcome([to |-> "GREET", class |-> class], [to |-> "GREET", class |-> class],
                         [closed EXCEPT !.state = "open", !.wire = <<[to |-> "GREET", class |-> class]>>],
                         FALSE)
  BY DEF OpenControlChannel, closed
<1> QED
  BY <1>2, <1>3, <1>4

LEMMA ServerSaysFacts ==
    ASSUME NEW c \in Connection, NEW class \in Classes
    PROVE  /\ ServerSays(c, class) \in Connection
           /\ ServerSays(c, class).state = c.state
           /\ c.state = "open" /\ Quiet(c) => Awaits(ServerSays(c, class), "END")
<1> DEFINE m == [to |-> "END", class |-> class]
<1>1. m \in Reply /\ m.to = "END" /\ Append(<<>>, m) = <<m>>
  BY DEF Reply, Classes, Commands
<1>2. CASE c.state # "open"
  BY <1>2 DEF ServerSays
<1>3. CASE c.state = "open"
  <2>1. ServerSays(c, class) = [c EXCEPT !.wire = Append(c.wire, m)]
    BY <1>3 DEF ServerSays
  <2>2. Append(c.wire, m) \in Seq(Reply)
    BY <1>1 DEF Connection
  <2> HIDE DEF m
  <2>3. /\ ServerSays(c, class) \in Connection
        /\ ServerSays(c, class).state = c.state
        /\ ServerSays(c, class).buffer = c.buffer
        /\ ServerSays(c, class).wire = Append(c.wire, m)
    BY <2>1, <2>2 DEF Connection
  <2> QED
    BY <1>1, <1>3, <2>3 DEF Quiet, Awaits
<1> QED
  BY <1>2, <1>3

-------------------------------------------------------------------------------

(***************************************************************************)
(* What the worker's exchanges do to the connection.                       *)
(***************************************************************************)

\* The connection, the count of faults and the record of the exchange keep their types,
\* and an exchange opens nothing.
Talk ==
    /\ conn' \in Connection
    /\ faults' \in 0 .. MaxFaults
    /\ heard' \in [asked : Commands \cup {"none"}, to : Commands \cup {"none"}]
    /\ conn'.state = "open" => conn.state = "open"

HeardRight == heard'.to \in {heard'.asked, "none"}

QuietTalk == Talk /\ (Quiet(conn) => Quiet(conn') /\ HeardRight)

Closing == QuietTalk /\ conn'.state # "open"

Hearing(w) == Talk /\ (Quiet(conn) \/ Awaits(conn, w) => Quiet(conn') /\ HeardRight)

LEMMA CountFacts ==
    ASSUME TypeOK, NEW bad, Count(bad)
    PROVE  faults' \in 0 .. MaxFaults
<1>1. faults \in 0 .. MaxFaults /\ MaxFaults \in Nat
  BY SyncAssumption DEF TypeOK
<1>2. CASE bad
  BY <1>1, <1>2 DEF Count
<1>3. CASE ~bad
  BY <1>1, <1>3 DEF Count
<1> QED
  BY <1>2, <1>3

LEMMA ExchangeFacts ==
    ASSUME TypeOK, NEW cmd \in Commands, NEW o, OutcomeType(o), NEW c \in Connection,
           Exchange(cmd, o, c)
    PROVE  /\ conn' = c
           /\ faults' \in 0 .. MaxFaults
           /\ heard' \in [asked : Commands \cup {"none"}, to : Commands \cup {"none"}]
           /\ heard'.asked = cmd
           /\ heard'.to = o.heard.to
<1>1. faults' \in 0 .. MaxFaults
  BY CountFacts DEF Exchange
<1>2. o.heard.to \in Commands \cup {"none"}
  BY DEF OutcomeType, Reply, NoReply
<1> QED
  BY <1>1, <1>2 DEF Exchange

LEMMA CommandTalk ==
    ASSUME TypeOK, NEW cmd \in Commands, NEW classes \in SUBSET Classes,
           NEW o \in SendCommand(conn, cmd, classes), Exchange(cmd, o, o.conn)
    PROVE  QuietTalk
<1>1. conn \in Connection
  BY DEF TypeOK
<1>2. SendFacts(conn, cmd, o)
  BY <1>1, SendCommandFacts
<1>3. OutcomeType(o) /\ o.conn \in Connection
  BY <1>2 DEF SendFacts, OutcomeType
<1> QED
  BY <1>2, <1>3, ExchangeFacts DEF SendFacts, QuietTalk, Talk, HeardRight

LEMMA QuitTalk ==
    ASSUME TypeOK, NEW o \in Logout(conn), Exchange("QUIT", o, o.conn)
    PROVE  Closing
<1>1. conn \in Connection /\ "QUIT" \in Commands
  BY DEF TypeOK, Commands
<1>2. SendFacts(conn, "QUIT", o) /\ o.conn.state # "open"
  BY <1>1, LogoutFacts
<1>3. OutcomeType(o) /\ o.conn \in Connection
  BY <1>2 DEF SendFacts, OutcomeType
<1> QED
  BY <1>1, <1>2, <1>3, ExchangeFacts DEF SendFacts, QuietTalk, Closing, Talk, HeardRight

LEMMA HearingTalk ==
    ASSUME TypeOK, NEW cmd \in Commands, NEW o \in GetResponse(conn, NoReply),
           Exchange(cmd, o, o.conn)
    PROVE  Hearing(cmd)
<1>1. conn \in Connection
  BY DEF TypeOK
<1>2. /\ OutcomeType(o)
      /\ o.conn.state = "open" => conn.state = "open"
      /\ Quiet(conn) => Quiet(o.conn) /\ o.heard = NoReply
      /\ Awaits(conn, cmd) => o.heard.to \in {cmd, "none"} /\ Quiet(o.conn)
  BY <1>1, GetResponseFacts
<1>3. o.conn \in Connection
  BY <1>2 DEF OutcomeType
<1>4. Quiet(conn) => o.heard.to = "none"
  BY <1>2, ReplyIsNone
<1> QED
  BY <1>2, <1>3, <1>4, ExchangeFacts DEF Hearing, Talk, HeardRight

LEMMA QuitStep ==
    ASSUME TypeOK, NEW here, NEW there, Quit(here, there)
    PROVE  Closing
BY QuitTalk DEF Quit

LEMMA ReturnFalseStep == ASSUME TypeOK, ReturnFalse PROVE Closing
BY QuitTalk DEF ReturnFalse

LEMMA PrepareStep ==
    ASSUME TypeOK, NEW here, NEW job, NEW cmd \in Commands, NEW wanted \in Classes, NEW there,
           Prepare(here, job, cmd, wanted, there)
    PROVE  QuietTalk
<1>1. {wanted, Negative} \in SUBSET Classes
  BY DEF Classes
<1>2. PICK o \in SendCommand(conn, cmd, {wanted, Negative}) : Exchange(cmd, o, o.conn)
  BY DEF Prepare
<1> QED
  BY <1>1, <1>2, CommandTalk

LEMMA FileSizeStep == ASSUME TypeOK, FileSize PROVE QuietTalk
<1>1. {Completion, Negative} \in SUBSET Classes /\ "SIZE" \in Commands
  BY DEF Classes, Commands
<1>2. PICK o \in SendCommand(conn, "SIZE", {Completion, Negative}) : Exchange("SIZE", o, o.conn)
  BY DEF FileSize
<1> QED
  BY <1>1, <1>2, CommandTalk

LEMMA TypeStep ==
    ASSUME TypeOK, NEW here, NEW job \in {"A", "I"}, NEW there, RepresentationType(here, job, there)
    PROVE  QuietTalk \/ UNCHANGED <<conn, faults, heard>>
<1>1. {Completion, Negative} \in SUBSET Classes /\ "TYPE" \in Commands /\ conn \in Connection
  BY DEF Classes, Commands, TypeOK
<1>2. ASSUME NEW o \in SendCommand(conn, "TYPE", {Completion, Negative}), NEW ty \in {job, "none"},
             Exchange("TYPE", o, [o.conn EXCEPT !.type = ty])
      PROVE  QuietTalk
  <2> DEFINE c == [o.conn EXCEPT !.type = ty]
  <2>1. SendFacts(conn, "TYPE", o)
    BY <1>1, SendCommandFacts
  <2>2. OutcomeType(o) /\ o.conn \in Connection
    BY <2>1 DEF SendFacts, OutcomeType
  <2>3. /\ c \in Connection
        /\ c.state = o.conn.state
        /\ Quiet(o.conn) => Quiet(c)
    BY <2>2 DEF Connection, Quiet
  <2> HIDE DEF c
  <2>4. Exchange("TYPE", o, c)
    BY <1>2 DEF c
  <2> QED
    BY <1>1, <2>1, <2>2, <2>3, <2>4, ExchangeFacts DEF SendFacts, QuietTalk, Talk, HeardRight
<1>3. \/ UNCHANGED <<conn, faults, heard>>
      \/ \E o \in SendCommand(conn, "TYPE", {Completion, Negative}) :
             Exchange("TYPE", o, [o.conn EXCEPT !.type = IF o.heard.class = Completion THEN job ELSE "none"])
  BY DEF RepresentationType
<1> QED
  BY <1>2, <1>3

LEMMA DataCommandStep ==
    ASSUME TypeOK, NEW here, NEW job, NEW cmd \in Commands, NEW there,
           DataCommand(here, job, cmd, there)
    PROVE  /\ Talk
           /\ strayed' \in BOOLEAN
           /\ strayed => strayed'
           /\ ~strayed' /\ Quiet(conn) => Quiet(conn') /\ HeardRight
<1>1. {Preliminary, Negative} \in SUBSET Classes /\ Negative \in Classes /\ conn \in Connection
  BY DEF Classes, TypeOK
<1>2. PICK o \in SendCommand(conn, cmd, {Preliminary, Negative}), left \in BOOLEAN :
          /\ Exchange(cmd, o, IF left THEN ServerSays(o.conn, Negative) ELSE o.conn)
          /\ strayed' = (strayed \/ left)
  BY DEF DataCommand
<1> DEFINE c == IF left THEN ServerSays(o.conn, Negative) ELSE o.conn
<1>3. SendFacts(conn, cmd, o)
  BY <1>1, SendCommandFacts
<1>4. OutcomeType(o) /\ o.conn \in Connection
  BY <1>3 DEF SendFacts, OutcomeType
<1>5. c \in Connection /\ c.state = o.conn.state
  BY <1>1, <1>4, ServerSaysFacts
<1>6. ~left => c = o.conn
  OBVIOUS
<1> HIDE DEF c
<1>7. Exchange(cmd, o, c)
  BY <1>2 DEF c
<1>8. strayed' \in BOOLEAN /\ (strayed => strayed') /\ (~strayed' => ~left)
  BY <1>2
<1> QED
  BY <1>3, <1>4, <1>5, <1>6, <1>7, <1>8, ExchangeFacts DEF SendFacts, Talk, HeardRight

LEMMA LastReplyStep ==
    ASSUME TypeOK, NEW here, NEW job, NEW there, LastReply(here, job, there)
    PROVE  Hearing("END")
<1>1. "END" \in Commands
  BY DEF Commands
<1>2. PICK o \in GetResponse(conn, NoReply) : Exchange("END", o, o.conn)
  BY DEF LastReply
<1> QED
  BY <1>1, <1>2, HearingTalk

LEMMA LogonStep ==
    ASSUME TypeOK, NEW at \in DOMAIN LogonCommand, Logon(at)
    PROVE  IF at = "greet" THEN Hearing("GREET") ELSE QuietTalk
<1>1. at \in {"greet", "user", "pass", "acct", "cwd"}
  BY DEF LogonCommand
<1>2. LogonCommand[at] \in Commands /\ LogonCommand["greet"] = "GREET"
  BY <1>1 DEF LogonCommand, Commands
<1>3. LogonReplies(at) \in SUBSET Classes
  BY DEF LogonReplies, Classes
<1>4. CASE at = "greet"
  <2>1. PICK o \in GetResponse(conn, NoReply) : Exchange(LogonCommand[at], o, o.conn)
    BY <1>4 DEF Logon
  <2> QED
    BY <1>2, <1>4, <2>1, HearingTalk
<1>5. CASE at # "greet"
  <2>1. PICK o \in SendCommand(conn, LogonCommand[at], LogonReplies(at)) : Exchange(LogonCommand[at], o, o.conn)
    BY <1>5 DEF Logon
  <2> QED
    BY <1>2, <1>3, <1>5, <2>1, CommandTalk
<1> QED
  BY <1>4, <1>5

LEMMA ConnectStep ==
    ASSUME TypeOK, Connect
    PROVE  /\ conn' \in Connection
           /\ faults' \in 0 .. MaxFaults
           /\ heard' = [asked |-> "none", to |-> "none"]
           /\ strayed' \in BOOLEAN
           /\ step' = IF conn'.state = "open" THEN "greet" ELSE "idle"
           /\ ~strayed' => Awaits(conn', "GREET") \/ (conn'.state # "open" /\ Quiet(conn'))
<1>1. PICK o \in OpenControlChannel(conn) :
          /\ conn' = o.conn
          /\ Count(o.fault)
          /\ step' = IF IsConnected(o.conn) THEN "greet" ELSE "idle"
  BY DEF Connect, LoginFails
<1>2. conn \in Connection
  BY DEF TypeOK
<1>3. /\ o.conn \in Connection
      /\ o.conn.state \in {"closed", "open"}
      /\ conn.buffer = <<>> /\ o.conn.state = "open" => Awaits(o.conn, "GREET")
      /\ conn.buffer = <<>> /\ o.conn.state # "open" => Quiet(o.conn)
  BY <1>2, OpenFacts
<1>4. faults' \in 0 .. MaxFaults
  BY <1>1, CountFacts
<1>5. heard' = [asked |-> "none", to |-> "none"]
  BY DEF Connect
<1>6. strayed' \in BOOLEAN /\ (~strayed' => conn.buffer = <<>>)
  BY DEF Connect
<1> QED
  BY <1>1, <1>3, <1>4, <1>5, <1>6 DEF IsConnected

LEMMA DataEndsStep ==
    ASSUME TypeOK, NEW broken \in BOOLEAN, DataEnds(broken)
    PROVE  /\ conn' \in Connection
           /\ faults' \in 0 .. MaxFaults
           /\ conn.state = "open"
           /\ conn'.state = "open"
           /\ Quiet(conn) => Awaits(conn', "END")
<1>1. conn \in Connection /\ (IF broken THEN Negative ELSE Completion) \in Classes
  BY DEF TypeOK, Classes
<1>2. faults' \in 0 .. MaxFaults
  BY CountFacts DEF DataEnds
<1> QED
  BY <1>1, <1>2, ServerSaysFacts DEF DataEnds

LEMMA DataTimeoutStep ==
    ASSUME TypeOK, NEW here, NEW job, DataTimeout(here, job)
    PROVE  /\ conn' \in Connection
           /\ faults' \in 0 .. MaxFaults
           /\ conn'.state = conn.state
<1>1. conn \in Connection /\ Negative \in Classes
  BY DEF TypeOK, Classes
<1>2. faults' \in 0 .. MaxFaults
  BY CountFacts DEF DataTimeout
<1>3. conn' = ServerSays(conn, Negative)
  BY DEF DataTimeout
<1> QED
  BY <1>1, <1>2, <1>3, ServerSaysFacts

LEMMA NoneIsNotAwaited == ~Awaits(conn, "none")
BY DEF Awaits, Reply, Commands

\* An exchange that begins with nothing to be received.
LEMMA QuietKeeps ==
    ASSUME RepliesAreExpected, Expected = "none", strayed => strayed',
           ~strayed' /\ Quiet(conn) => Quiet(conn') /\ HeardRight
    PROVE  RepliesAreExpected'
<1>1. ~strayed' => Quiet(conn)
  BY NoneIsNotAwaited DEF RepliesAreExpected
<1> QED
  BY <1>1 DEF RepliesAreExpected, HeardRight, RepliesAnswerTheirCommand

\* A reply that is received without a command, where it is expected.
LEMMA HearingKeeps ==
    ASSUME RepliesAreExpected, Hearing(Expected), strayed' = strayed
    PROVE  RepliesAreExpected'
BY DEF RepliesAreExpected, Hearing, HeardRight, RepliesAnswerTheirCommand

\* The server announces the end of the data.
LEMMA AnnouncedKeeps ==
    ASSUME RepliesAreExpected, Expected = "none", strayed' = strayed, heard' = heard,
           Quiet(conn) => Awaits(conn', "END"), Expected' = "END"
    PROVE  RepliesAreExpected'
<1>1. ~strayed => Quiet(conn) /\ RepliesAnswerTheirCommand
  BY NoneIsNotAwaited DEF RepliesAreExpected
<1>2. ~strayed' => Awaits(conn', Expected') /\ RepliesAnswerTheirCommand'
  BY <1>1 DEF RepliesAnswerTheirCommand
<1> QED
  BY <1>2 DEF RepliesAreExpected

-------------------------------------------------------------------------------

(***************************************************************************)
(* The disk: a transfer that is left, a removal, a stop.                   *)
(***************************************************************************)

\* A transfer left at some byte takes nothing from the disk, and a file it completes is
\* known to have no row.
LEMMA LeftFacts ==
    ASSUME TypeOK, NEW f \in Files, LeftAtSomeByte(f)
    PROVE  /\ disk' \in [Files -> {"none", "part", "whole"}]
           /\ orphaned' \in SUBSET Files
           /\ orphaned \subseteq orphaned'
           /\ \A g \in Files : disk[g] = "whole" => disk'[g] = "whole"
           /\ \A g \in Files : disk'[g] = "whole" => disk[g] = "whole" \/ g \in orphaned'
BY DEF LeftAtSomeByte, SomeBytes, TypeOK

\* remove() takes one file, that of the row.
LEMMA RemoveFacts ==
    ASSUME TypeOK, NEW r \in rows, Remove(r)
    PROVE  /\ r.file \in Files
           /\ disk' \in [Files -> {"none", "part", "whole"}]
           /\ \A g \in Files : disk'[g] = "whole" => disk[g] = "whole"
           /\ \A g \in Files : disk[g] = "whole" => disk'[g] = "whole" \/ g = r.file
BY DEF Remove, TypeOK, Row

\* A turn of PrepareSpace deletes one file's rows; that file is not whole, or is known to
\* have no row, and nothing else changes.
LEMMA DelItemFacts ==
    ASSUME TypeOK, DelItem
    PROVE  \E f \in Files :
               /\ rows' = RowsWithout(f)
               /\ disk' \in [Files -> {"none", "part", "whole"}]
               /\ orphaned' \in SUBSET Files
               /\ orphaned \subseteq orphaned'
               /\ \A g \in Files : disk[g] = "whole" => disk'[g] = "whole" \/ g = f
               /\ \A g \in Files : disk'[g] = "whole" => disk[g] = "whole"
               /\ disk'[f] = "whole" => f \in orphaned'
<1>1. PICK r \in OldestRows :
          /\ Remove(r) \/ UNCHANGED disk
          /\ rows' = RowsWithout(r.file)
          /\ orphaned' = IF disk'[r.file] = "whole" THEN orphaned \cup {r.file} ELSE orphaned
  BY DEF DelItem
<1>2. r \in rows /\ r.file \in Files
  BY DEF OldestRows, TypeOK, Row
<1>3. CASE Remove(r)
  BY <1>1, <1>2, <1>3, RemoveFacts DEF TypeOK
<1>4. CASE UNCHANGED disk
  BY <1>1, <1>2, <1>4 DEF TypeOK
<1> QED
  BY <1>1, <1>3, <1>4

\* What a stop of the service can do to the disk.
LEMMA StopsFacts ==
    ASSUME IInv, StopsHere
    PROVE  /\ disk' \in [Files -> {"none", "part", "whole"}]
           /\ orphaned' \in SUBSET Files
           /\ removed' \in SUBSET Files
           /\ orphaned \subseteq orphaned'
           /\ removed \subseteq removed'
           /\ step = "gettingEnd" => remote \in orphaned'
           /\ \A g \in Files : disk[g] = "whole" => disk'[g] = "whole" \/ g \in removed'
           /\ \A g \in Files : disk'[g] = "whole" => disk[g] = "whole" \/ g \in orphaned'
<1>1. TypeOK
  BY DEF IInv
<1>2. step \in {"getting", "gettingEnd"} => remote \in Files
  BY DEF IInv, JobFits, GetSteps
<1>3. CASE step = "getting" /\ LeftAtSomeByte(remote) /\ UNCHANGED removed
  BY <1>1, <1>2, <1>3, LeftFacts DEF TypeOK
<1>4. CASE step = "space" /\ StopsInDelItem /\ UNCHANGED orphaned
  <2>1. PICK r \in rows : Remove(r) /\ removed' = removed \cup {r.file}
    BY <1>4 DEF StopsInDelItem, OldestRows
  <2> QED
    BY <1>1, <1>4, <2>1, RemoveFacts DEF TypeOK
<1>5. CASE /\ step # "getting"
           /\ orphaned' = IF step = "gettingEnd" THEN orphaned \cup {remote} ELSE orphaned
           /\ UNCHANGED <<disk, removed>>
  BY <1>1, <1>2, <1>5 DEF TypeOK
<1> QED
  BY <1>3, <1>4, <1>5 DEF StopsHere

-------------------------------------------------------------------------------

\* Every step keeps the variables within their types.
LEMMA NextTypes ==
    ASSUME IInv, [Next]_vars
    PROVE  TypeOK'
<1>0. TypeOK
  BY DEF IInv
<1>1. ASSUME GetReadyHostInfo PROVE TypeOK'
  BY <1>0, <1>1 DEF GetReadyHostInfo, First, ftpVars, dataVars, jobVars, historyVars, fileHistory,
     dataStepVars, IInv, TypeOK, JobFits, GetSteps, Steps, Row
<1>2. ASSUME Quit("quit", "connect") PROVE TypeOK'
  <2>1. Closing
    BY <1>0, <1>2, QuitStep
  <2> QED
    BY <1>0, <1>2, <2>1 DEF Quit, ftpVars, dataVars, jobVars, historyVars, fileHistory, dataStepVars,
       Closing, QuietTalk, Talk, IInv, TypeOK, JobFits, GetSteps, Steps, Row
<1>3. ASSUME Connect PROVE TypeOK'
  <2>1. /\ conn' \in Connection
        /\ faults' \in 0 .. MaxFaults
        /\ strayed' \in BOOLEAN
        /\ step' = IF conn'.state = "open" THEN "greet" ELSE "idle"
        /\ heard' = [asked |-> "none", to |-> "none"]
    BY <1>0, <1>3, ConnectStep
  <2>2. /\ step' \in Steps
        /\ heard' \in [asked : Commands \cup {"none"}, to : Commands \cup {"none"}]
    BY <2>1 DEF Steps
  <2>3. onHost' \in BOOLEAN /\ hostMap' \in SUBSET Hosts
    BY <1>0, <1>3 DEF Connect, LoginFails, DelHost, TypeOK
  <2> QED
    BY <1>0, <2>1, <2>2, <2>3, <1>3 DEF Connect, dataVars, fileHistory, TypeOK
<1>4. ASSUME NEW at \in DOMAIN LogonCommand, Logon(at) PROVE TypeOK'
  <2>1. Talk
    BY <1>0, <1>4, LogonStep DEF Hearing, QuietTalk
  <2>3. step' \in Steps /\ onHost' \in BOOLEAN /\ hostMap' \in SUBSET Hosts
    <3>1. \A class : LogonPoint(at, class) \in Steps \cup {"failed"}
      BY DEF LogonPoint, Steps
    <3>2. PICK class : IF LogonPoint(at, class) = "failed" THEN LoginFails
                       ELSE step' = LogonPoint(at, class) /\ UNCHANGED <<onHost, hostMap>>
      BY <1>4 DEF Logon
    <3>3. CASE LoginFails
      BY <1>0, <3>3 DEF LoginFails, DelHost, TypeOK, Steps
    <3>4. CASE /\ LogonPoint(at, class) # "failed"
               /\ step' = LogonPoint(at, class)
               /\ UNCHANGED <<onHost, hostMap>>
      BY <1>0, <3>1, <3>4 DEF TypeOK
    <3> QED
      BY <3>2, <3>3, <3>4
  <2>4. files' \in SUBSET Files
    BY <1>0, <1>4 DEF Logon, TypeOK
  <2> QED
    BY <1>0, <2>1, <2>3, <2>4, <1>4 DEF Logon, Talk, dataVars, fileHistory, TypeOK
<1>5. ASSUME RepresentationType("typeA", "A", "portA") PROVE TypeOK'
  <2>1. QuietTalk \/ UNCHANGED <<conn, faults, heard>>
    BY <1>0, <1>5, TypeStep
  <2> QED
    BY <1>0, <1>5, <2>1 DEF RepresentationType, Fails, Goes, ListFails, DelHost, ftpVars,
       dataVars, jobVars, historyVars, fileHistory, dataStepVars, QuietTalk, Talk, IInv, TypeOK,
       JobFits, GetSteps, Steps, Row
<1>6. ASSUME Prepare("portA", "A", "PORT", Completion, "nlst") PROVE TypeOK'
  <2>1. QuietTalk
    BY <1>0, <1>6, PrepareStep DEF Commands, Classes
  <2> QED
    BY <1>0, <1>6, <2>1 DEF Prepare, Fails, Goes, ListFails, DelHost, ftpVars, dataVars,
       jobVars, historyVars, fileHistory, dataStepVars, QuietTalk, Talk, IInv, TypeOK, JobFits,
       GetSteps, Steps, Row
<1>7. ASSUME DataCommand("nlst", "A", "NLST", "listing") PROVE TypeOK'
  <2>1. Talk /\ strayed' \in BOOLEAN /\ (strayed => strayed')
          /\ (~strayed' /\ Quiet(conn) => Quiet(conn') /\ HeardRight)
    BY <1>0, <1>7, DataCommandStep DEF Commands
  <2> QED
    BY <1>0, <1>7, <2>1 DEF DataCommand, Fails, Goes, ListFails, DelHost, ftpVars,
       dataVars, jobVars, historyVars, fileHistory, dataStepVars, Talk, IInv, TypeOK, JobFits,
       GetSteps, Steps, Row
<1>8. ASSUME ListData PROVE TypeOK'
  <2>1. /\ conn' \in Connection
        /\ faults' \in 0 .. MaxFaults
        /\ conn.state = "open"
        /\ conn'.state = "open"
        /\ Quiet(conn) => Awaits(conn', "END")
    BY <1>0, <1>8, DataEndsStep DEF ListData
  <2> QED
    BY <1>0, <1>8, <2>1 DEF ListData, ftpVars, dataVars, jobVars, historyVars, fileHistory,
       dataStepVars, IInv, TypeOK, JobFits, GetSteps, Steps, Row
<1>9. ASSUME DataTimeout("listing", "A") PROVE TypeOK'
  <2>1. /\ conn' \in Connection
        /\ faults' \in 0 .. MaxFaults
        /\ conn'.state = conn.state
    BY <1>0, <1>9, DataTimeoutStep
  <2> QED
    BY <1>0, <1>9, <2>1 DEF DataTimeout, Fails, ListFails, DelHost, ftpVars, dataVars,
       jobVars, historyVars, fileHistory, dataStepVars, IInv, TypeOK, JobFits, GetSteps, Steps, Row
<1>10. ASSUME OnEndReceivingData("listingEnd", "listedEnd") PROVE TypeOK'
  BY <1>0, <1>10 DEF OnEndReceivingData, OnReturnTrue, EndDownLoad, ftpVars, dataVars,
     jobVars, historyVars, fileHistory, dataStepVars, IInv, TypeOK, JobFits, GetSteps, Steps, Row
<1>11. ASSUME LastReply("listedEnd", "A", "listed") PROVE TypeOK'
  <2>1. Hearing("END")
    BY <1>0, <1>11, LastReplyStep
  <2> QED
    BY <1>0, <1>11, <2>1 DEF LastReply, Fails, Goes, ListFails, DelHost, ftpVars,
       dataVars, jobVars, historyVars, fileHistory, dataStepVars, Hearing, Talk, IInv, TypeOK, JobFits,
       GetSteps, Steps, Row
<1>12. ASSUME TakeList PROVE TypeOK'
  <2>1. files' \in SUBSET Files
    BY SyncAssumption, <1>12 DEF TakeList, Files
  <2>2. step' \in Steps /\ onHost' \in BOOLEAN /\ hostMap' \in SUBSET Hosts
    BY <1>0, <1>12 DEF TakeList, ListFails, DelHost, TypeOK, Steps
  <2> QED
    BY <1>0, <2>1, <2>2, <1>12 DEF TakeList, ftpVars, dataVars, historyVars, fileHistory, TypeOK
<1>13. ASSUME Quit("quitList", "idle") PROVE TypeOK'
  <2>1. Closing
    BY <1>0, <1>13, QuitStep
  <2> QED
    BY <1>0, <1>13, <2>1 DEF Quit, ftpVars, dataVars, jobVars, historyVars, fileHistory, dataStepVars,
       Closing, QuietTalk, Talk, IInv, TypeOK, JobFits, GetSteps, Steps, Row
<1>14. ASSUME NoMoreFiles PROVE TypeOK'
  BY <1>0, <1>14 DEF NoMoreFiles, ftpVars, dataVars, jobVars, historyVars, fileHistory, dataStepVars,
     IInv, TypeOK, JobFits, GetSteps, Steps, Row
<1>15. ASSUME StartDownLoad PROVE TypeOK'
  BY <1>0, <1>15 DEF StartDownLoad, HasDownLoaded, First, ftpVars, dataVars, jobVars,
     historyVars, fileHistory, dataStepVars, IInv, TypeOK, JobFits, GetSteps, Steps, Row
<1>16. ASSUME DelItem PROVE TypeOK'
  BY <1>0, <1>16, DelItemFacts DEF DelItem, RowsWithout, ftpVars, jobVars, TypeOK
<1>17. ASSUME OpenFile PROVE TypeOK'
  BY <1>0, <1>17 DEF OpenFile, ftpVars, dataVars, jobVars, historyVars, fileHistory, dataStepVars,
     IInv, TypeOK, JobFits, GetSteps, Steps, Row
<1>18. ASSUME FileSize PROVE TypeOK'
  <2>1. QuietTalk
    BY <1>0, <1>18, FileSizeStep
  <2> QED
    BY <1>0, <1>18, <2>1 DEF FileSize, DelHost, ftpVars, dataVars, jobVars, historyVars, fileHistory,
       dataStepVars, QuietTalk, Talk, IInv, TypeOK, JobFits, GetSteps, Steps, Row
<1>19. ASSUME ReturnFalse PROVE TypeOK'
  <2>1. Closing
    BY <1>0, <1>19, ReturnFalseStep
  <2> QED
    BY <1>0, <1>19, <2>1 DEF ReturnFalse, RowsWithout, ftpVars, dataVars, jobVars,
       historyVars, fileHistory, dataStepVars, Closing, QuietTalk, Talk, IInv, TypeOK, JobFits,
       GetSteps, Steps, Row
<1>20. ASSUME RepresentationType("typeI", "I", "portI") PROVE TypeOK'
  <2>1. QuietTalk \/ UNCHANGED <<conn, faults, heard>>
    BY <1>0, <1>20, TypeStep
  <2> QED
    BY <1>0, <1>20, <2>1 DEF RepresentationType, Fails, Goes, GetFails, EndDownLoad,
       ftpVars, dataVars, jobVars, historyVars, fileHistory, dataStepVars, QuietTalk, Talk, IInv,
       TypeOK, JobFits, GetSteps, Steps, Row
<1>21. ASSUME NEW there \in {"retr", "rest"}, Prepare("portI", "I", "PORT", Completion, there) PROVE TypeOK'
  <2>1. QuietTalk
    BY <1>0, <1>21, PrepareStep DEF Commands, Classes
  <2> QED
    BY <1>0, <1>21, <2>1 DEF Prepare, Fails, Goes, GetFails, EndDownLoad, ftpVars,
       dataVars, jobVars, historyVars, fileHistory, dataStepVars, QuietTalk, Talk, IInv, TypeOK,
       JobFits, GetSteps, Steps, Row
<1>22. ASSUME Prepare("rest", "I", "REST", Intermediate, "retr") PROVE TypeOK'
  <2>1. QuietTalk
    BY <1>0, <1>22, PrepareStep DEF Commands, Classes
  <2> QED
    BY <1>0, <1>22, <2>1 DEF Prepare, Fails, Goes, GetFails, EndDownLoad, ftpVars,
       dataVars, jobVars, historyVars, fileHistory, dataStepVars, QuietTalk, Talk, IInv, TypeOK,
       JobFits, GetSteps, Steps, Row
<1>23. ASSUME DataCommand("retr", "I", "RETR", "getting") PROVE TypeOK'
  <2>1. Talk /\ strayed' \in BOOLEAN /\ (strayed => strayed')
          /\ (~strayed' /\ Quiet(conn) => Quiet(conn') /\ HeardRight)
    BY <1>0, <1>23, DataCommandStep DEF Commands
  <2> QED
    BY <1>0, <1>23, <2>1 DEF DataCommand, Fails, Goes, GetFails, EndDownLoad, ftpVars,
       dataVars, jobVars, historyVars, fileHistory, dataStepVars, Talk, IInv, TypeOK, JobFits,
       GetSteps, Steps, Row
<1>24. ASSUME FileData PROVE TypeOK'
  <2>1. /\ conn' \in Connection
        /\ faults' \in 0 .. MaxFaults
        /\ conn.state = "open"
        /\ conn'.state = "open"
        /\ Quiet(conn) => Awaits(conn', "END")
    BY <1>0, <1>24, DataEndsStep DEF FileData
  <2> QED
    BY <1>0, <1>24, <2>1 DEF FileData, SomeBytes, ftpVars, dataVars, jobVars, historyVars, fileHistory,
       dataStepVars, IInv, TypeOK, JobFits, GetSteps, Steps, Row
<1>25. ASSUME DataTimeout("getting", "I") PROVE TypeOK'
  <2>1. /\ conn' \in Connection
        /\ faults' \in 0 .. MaxFaults
        /\ conn'.state = conn.state
    BY <1>0, <1>25, DataTimeoutStep
  <2>2. LeftAtSomeByte(remote) /\ remote \in Files
    BY <1>25 DEF DataTimeout, IInv, JobFits, GetSteps
  <2>3. disk' \in [Files -> {"none", "part", "whole"}] /\ orphaned' \in SUBSET Files
    BY <1>0, <2>2, LeftFacts
  <2> QED
    BY <1>0, <1>25, <2>1, <2>3 DEF DataTimeout, Fails, GetFails, EndDownLoad, Steps, TypeOK
<1>26. ASSUME OnEndReceivingData("gettingEnd", "got") PROVE TypeOK'
  BY <1>0, <1>26 DEF OnEndReceivingData, OnReturnTrue, EndDownLoad, ftpVars, dataVars,
     jobVars, historyVars, fileHistory, dataStepVars, IInv, TypeOK, JobFits, GetSteps, Steps, Row
<1>27. ASSUME LastReply("got", "I", "idle") PROVE TypeOK'
  <2>1. Hearing("END")
    BY <1>0, <1>27, LastReplyStep
  <2> QED
    BY <1>0, <1>27, <2>1 DEF LastReply, Fails, Goes, GetFails, EndDownLoad, ftpVars,
       dataVars, jobVars, historyVars, fileHistory, dataStepVars, Hearing, Talk, IInv, TypeOK, JobFits,
       GetSteps, Steps, Row
<1>28. ASSUME NeverConnects PROVE TypeOK'
  <2>1. faults' \in 0 .. MaxFaults
    BY <1>0, <1>28, CountFacts DEF NeverConnects
  <2> QED
    BY <1>0, <1>28, <2>1 DEF NeverConnects, ftpVars, dataVars, jobVars, historyVars, fileHistory,
       dataStepVars, IInv, TypeOK, JobFits, GetSteps, Steps, Row
<1>29. ASSUME NEW h \in Hosts, UpdateHostInfo(h) PROVE TypeOK'
  BY <1>0, <1>29 DEF UpdateHostInfo, ftpVars, dataVars, jobVars, historyVars, fileHistory,
     dataStepVars, IInv, TypeOK, JobFits, GetSteps, Steps, Row
<1>30. ASSUME Restart PROVE TypeOK'
  <2>1. NewClient \in Connection
    BY EmptyIsSeq DEF NewClient, Connection
  <2>2. /\ callback' \in BOOLEAN /\ attached' \in BOOLEAN /\ strayed' \in BOOLEAN /\ onHost' \in BOOLEAN
    BY <1>30 DEF Restart
  <2>3. /\ heard' \in [asked : Commands \cup {"none"}, to : Commands \cup {"none"}]
        /\ crashes' \in 0 .. MaxCrashes
    BY <1>0, SyncAssumption, <1>30 DEF Restart, TypeOK
  <2>4. /\ disk' \in [Files -> {"none", "part", "whole"}]
        /\ orphaned' \in SUBSET Files /\ removed' \in SUBSET Files
    BY <1>30, StopsFacts DEF Restart
  <2>5. /\ step' \in Steps /\ hostMap' \in SUBSET Hosts /\ info' \in Hosts \cup {NoHost}
        /\ files' \in SUBSET Files /\ remote' \in Files \cup {NoFile}
    BY <1>30 DEF Restart, Steps
  <2>6. /\ rows' \in SUBSET Row /\ conn' = NewClient
        /\ faults' \in 0 .. MaxFaults /\ cut' \in SUBSET Files /\ echoed' \in SUBSET Files
    BY <1>0, <1>30 DEF Restart, TypeOK
  <2> QED
    BY <2>1, <2>2, <2>3, <2>4, <2>5, <2>6 DEF TypeOK
<1>31. ASSUME UNCHANGED vars PROVE TypeOK'
  BY <1>0, <1>31 DEF vars, ftpVars, dataVars, jobVars, historyVars, fileHistory, dataStepVars, IInv,
     TypeOK, JobFits, GetSteps, Steps, Row
<1> QED
  BY <1>1, <1>2, <1>3, <1>4, <1>5, <1>6, <1>7, <1>8, <1>9, <1>10, <1>11, <1>12, <1>13,
     <1>14, <1>15, <1>16, <1>17, <1>18, <1>19, <1>20, <1>21, <1>22, <1>23, <1>24, <1>25,
     <1>26, <1>27, <1>28, <1>29, <1>30, <1>31 DEF Next, Worker, GetFileList, DownLoad

\* The worker takes a reply where it expects one, and nothing comes unexpected.
LEMMA NextReplies ==
    ASSUME IInv, [Next]_vars
    PROVE  RepliesAreExpected'
<1>0. TypeOK
  BY DEF IInv
<1>1. ASSUME GetReadyHostInfo PROVE RepliesAreExpected'
  BY <1>0, <1>1 DEF GetReadyHostInfo, First, ftpVars, dataVars, jobVars, historyVars, fileHistory,
     dataStepVars, IInv, RepliesAreExpected, RepliesAnswerTheirCommand, Expected,
     LogonCommand
<1>2. ASSUME Quit("quit", "connect") PROVE RepliesAreExpected'
  <2>1. Closing
    BY <1>0, <1>2, QuitStep
  <2>2. Expected = "none" /\ strayed' = strayed
    BY <1>2 DEF Quit, Expected, historyVars, fileHistory
  <2> QED
    BY <2>1, <2>2, QuietKeeps DEF IInv, Closing, QuietTalk
<1>3. ASSUME Connect PROVE RepliesAreExpected'
  <2>1. /\ heard' = [asked |-> "none", to |-> "none"]
        /\ step' = IF conn'.state = "open" THEN "greet" ELSE "idle"
        /\ ~strayed' => Awaits(conn', "GREET") \/ (conn'.state # "open" /\ Quiet(conn'))
    BY <1>0, <1>3, ConnectStep
  <2>2. RepliesAnswerTheirCommand'
    BY <2>1 DEF RepliesAnswerTheirCommand
  <2>3. ~strayed' => Awaits(conn', Expected') \/ Quiet(conn')
    BY <2>1 DEF Expected, Awaits
  <2> QED
    BY <2>2, <2>3 DEF RepliesAreExpected
<1>4. ASSUME NEW at \in DOMAIN LogonCommand, Logon(at) PROVE RepliesAreExpected'
  <2>1. IF at = "greet" THEN Hearing("GREET") ELSE QuietTalk
    BY <1>0, <1>4, LogonStep
  <2>2. strayed' = strayed /\ step = at /\ at \in {"greet", "user", "pass", "acct", "cwd"}
    BY <1>4 DEF Logon, LogonCommand
  <2>3. CASE at = "greet"
    <3>1. Expected = "GREET"
      BY <2>2, <2>3 DEF Expected
    <3> QED
      BY <2>1, <2>2, <2>3, <3>1, HearingKeeps DEF IInv
  <2>4. CASE at # "greet"
    <3>1. Expected = "none"
      BY <2>2, <2>4 DEF Expected
    <3> QED
      BY <2>1, <2>2, <2>4, <3>1, QuietKeeps DEF IInv, QuietTalk
  <2> QED
    BY <2>3, <2>4
<1>5. ASSUME RepresentationType("typeA", "A", "portA") PROVE RepliesAreExpected'
  <2>1. QuietTalk \/ UNCHANGED <<conn, faults, heard>>
    BY <1>0, <1>5, TypeStep
  <2>2. Expected = "none" /\ strayed' = strayed
    BY <1>5 DEF RepresentationType, Expected, historyVars, fileHistory
  <2>3. Quiet(conn) => Quiet(conn') /\ (HeardRight \/ UNCHANGED heard)
    BY <2>1 DEF QuietTalk, Quiet
  <2>4. ~strayed => RepliesAnswerTheirCommand
    BY DEF IInv, RepliesAreExpected
  <2>5. ~strayed' /\ Quiet(conn) => Quiet(conn') /\ HeardRight
    BY <2>2, <2>3, <2>4 DEF HeardRight, RepliesAnswerTheirCommand
  <2> QED
    BY <2>2, <2>5, QuietKeeps DEF IInv
<1>6. ASSUME Prepare("portA", "A", "PORT", Completion, "nlst") PROVE RepliesAreExpected'
  <2>1. QuietTalk
    BY <1>0, <1>6, PrepareStep DEF Commands, Classes
  <2>2. Expected = "none" /\ strayed' = strayed
    BY <1>6 DEF Prepare, Expected, historyVars, fileHistory
  <2> QED
    BY <2>1, <2>2, QuietKeeps DEF IInv, QuietTalk
<1>7. ASSUME DataCommand("nlst", "A", "NLST", "listing") PROVE RepliesAreExpected'
  <2>1. (strayed => strayed') /\ (~strayed' /\ Quiet(conn) => Quiet(conn') /\ HeardRight)
    BY <1>0, <1>7, DataCommandStep DEF Commands
  <2>2. Expected = "none"
    BY <1>7 DEF DataCommand, Expected
  <2> QED
    BY <2>1, <2>2, QuietKeeps DEF IInv
<1>8. ASSUME ListData PROVE RepliesAreExpected'
  <2>1. Quiet(conn) => Awaits(conn', "END")
    BY <1>0, <1>8, DataEndsStep DEF ListData
  <2>2. Expected = "none" /\ Expected' = "END" /\ strayed' = strayed /\ heard' = heard
    BY <1>8 DEF ListData, Expected, historyVars, fileHistory
  <2> QED
    BY <2>1, <2>2, AnnouncedKeeps DEF IInv
<1>9. ASSUME DataTimeout("listing", "A") PROVE RepliesAreExpected'
  <2>1. /\ conn' \in Connection
        /\ faults' \in 0 .. MaxFaults
        /\ conn'.state = conn.state
    BY <1>0, <1>9, DataTimeoutStep
  <2> QED
    BY <1>0, <1>9, <2>1 DEF DataTimeout, Fails, ListFails, DelHost, ftpVars, dataVars,
       jobVars, historyVars, fileHistory, dataStepVars, IInv, RepliesAreExpected,
       RepliesAnswerTheirCommand, Expected, LogonCommand
<1>10. ASSUME OnEndReceivingData("listingEnd", "listedEnd") PROVE RepliesAreExpected'
  BY <1>0, <1>10 DEF OnEndReceivingData, OnReturnTrue, EndDownLoad, ftpVars, dataVars,
     jobVars, historyVars, fileHistory, dataStepVars, IInv, RepliesAreExpected,
     RepliesAnswerTheirCommand, Expected, LogonCommand
<1>11. ASSUME LastReply("listedEnd", "A", "listed") PROVE RepliesAreExpected'
  <2>1. Hearing("END")
    BY <1>0, <1>11, LastReplyStep
  <2>2. Expected = "END" /\ strayed' = strayed
    BY <1>11 DEF LastReply, Expected
  <2> QED
    BY <2>1, <2>2, HearingKeeps DEF IInv
<1>12. ASSUME TakeList PROVE RepliesAreExpected'
  BY <1>0, <1>12 DEF TakeList, ListFails, DelHost, ftpVars, dataVars, jobVars,
     historyVars, fileHistory, dataStepVars, IInv, RepliesAreExpected, RepliesAnswerTheirCommand,
     Expected, LogonCommand
<1>13. ASSUME Quit("quitList", "idle") PROVE RepliesAreExpected'
  <2>1. Closing
    BY <1>0, <1>13, QuitStep
  <2>2. Expected = "none" /\ strayed' = strayed
    BY <1>13 DEF Quit, Expected, historyVars, fileHistory
  <2> QED
    BY <2>1, <2>2, QuietKeeps DEF IInv, Closing, QuietTalk
<1>14. ASSUME NoMoreFiles PROVE RepliesAreExpected'
  BY <1>0, <1>14 DEF NoMoreFiles, ftpVars, dataVars, jobVars, historyVars, fileHistory, dataStepVars,
     IInv, RepliesAreExpected, RepliesAnswerTheirCommand, Expected, LogonCommand
<1>15. ASSUME StartDownLoad PROVE RepliesAreExpected'
  BY <1>0, <1>15 DEF StartDownLoad, HasDownLoaded, First, ftpVars, dataVars, jobVars,
     historyVars, fileHistory, dataStepVars, IInv, RepliesAreExpected, RepliesAnswerTheirCommand,
     Expected, LogonCommand
<1>16. ASSUME DelItem PROVE RepliesAreExpected'
  BY <1>0, <1>16 DEF DelItem, OldestRows, First, RowsWithout, ftpVars, dataVars, jobVars,
     historyVars, fileHistory, dataStepVars, IInv, RepliesAreExpected, RepliesAnswerTheirCommand,
     Expected, LogonCommand
<1>17. ASSUME OpenFile PROVE RepliesAreExpected'
  BY <1>0, <1>17 DEF OpenFile, ftpVars, dataVars, jobVars, historyVars, fileHistory, dataStepVars,
     IInv, RepliesAreExpected, RepliesAnswerTheirCommand, Expected, LogonCommand
<1>18. ASSUME FileSize PROVE RepliesAreExpected'
  <2>1. QuietTalk
    BY <1>0, <1>18, FileSizeStep
  <2>2. Expected = "none" /\ strayed' = strayed
    BY <1>18 DEF FileSize, Expected, historyVars, fileHistory
  <2> QED
    BY <2>1, <2>2, QuietKeeps DEF IInv, QuietTalk
<1>19. ASSUME ReturnFalse PROVE RepliesAreExpected'
  <2>1. Closing
    BY <1>0, <1>19, ReturnFalseStep
  <2>2. Expected = "none" /\ strayed' = strayed
    BY <1>19 DEF ReturnFalse, Expected, historyVars, fileHistory
  <2> QED
    BY <2>1, <2>2, QuietKeeps DEF IInv, Closing, QuietTalk
<1>20. ASSUME RepresentationType("typeI", "I", "portI") PROVE RepliesAreExpected'
  <2>1. QuietTalk \/ UNCHANGED <<conn, faults, heard>>
    BY <1>0, <1>20, TypeStep
  <2>2. Expected = "none" /\ strayed' = strayed
    BY <1>20 DEF RepresentationType, Expected, historyVars, fileHistory
  <2>3. Quiet(conn) => Quiet(conn') /\ (HeardRight \/ UNCHANGED heard)
    BY <2>1 DEF QuietTalk, Quiet
  <2>4. ~strayed => RepliesAnswerTheirCommand
    BY DEF IInv, RepliesAreExpected
  <2>5. ~strayed' /\ Quiet(conn) => Quiet(conn') /\ HeardRight
    BY <2>2, <2>3, <2>4 DEF HeardRight, RepliesAnswerTheirCommand
  <2> QED
    BY <2>2, <2>5, QuietKeeps DEF IInv
<1>21. ASSUME NEW there \in {"retr", "rest"}, Prepare("portI", "I", "PORT", Completion, there) PROVE RepliesAreExpected'
  <2>1. QuietTalk
    BY <1>0, <1>21, PrepareStep DEF Commands, Classes
  <2>2. Expected = "none" /\ strayed' = strayed
    BY <1>21 DEF Prepare, Expected, historyVars, fileHistory
  <2> QED
    BY <2>1, <2>2, QuietKeeps DEF IInv, QuietTalk
<1>22. ASSUME Prepare("rest", "I", "REST", Intermediate, "retr") PROVE RepliesAreExpected'
  <2>1. QuietTalk
    BY <1>0, <1>22, PrepareStep DEF Commands, Classes
  <2>2. Expected = "none" /\ strayed' = strayed
    BY <1>22 DEF Prepare, Expected, historyVars, fileHistory
  <2> QED
    BY <2>1, <2>2, QuietKeeps DEF IInv, QuietTalk
<1>23. ASSUME DataCommand("retr", "I", "RETR", "getting") PROVE RepliesAreExpected'
  <2>1. (strayed => strayed') /\ (~strayed' /\ Quiet(conn) => Quiet(conn') /\ HeardRight)
    BY <1>0, <1>23, DataCommandStep DEF Commands
  <2>2. Expected = "none"
    BY <1>23 DEF DataCommand, Expected
  <2> QED
    BY <2>1, <2>2, QuietKeeps DEF IInv
<1>24. ASSUME FileData PROVE RepliesAreExpected'
  <2>1. Quiet(conn) => Awaits(conn', "END")
    BY <1>0, <1>24, DataEndsStep DEF FileData
  <2>2. Expected = "none" /\ Expected' = "END" /\ strayed' = strayed /\ heard' = heard
    BY <1>24 DEF FileData, Expected, historyVars, fileHistory
  <2> QED
    BY <2>1, <2>2, AnnouncedKeeps DEF IInv
<1>25. ASSUME DataTimeout("getting", "I") PROVE RepliesAreExpected'
  <2>1. /\ conn' \in Connection
        /\ faults' \in 0 .. MaxFaults
        /\ conn'.state = conn.state
    BY <1>0, <1>25, DataTimeoutStep
  <2> QED
    BY <1>0, <1>25, <2>1 DEF DataTimeout, Fails, GetFails, EndDownLoad, SomeBytes,
       ftpVars, dataVars, jobVars, historyVars, fileHistory, dataStepVars, IInv, RepliesAreExpected,
       RepliesAnswerTheirCommand, Expected, LogonCommand
<1>26. ASSUME OnEndReceivingData("gettingEnd", "got") PROVE RepliesAreExpected'
  BY <1>0, <1>26 DEF OnEndReceivingData, OnReturnTrue, EndDownLoad, ftpVars, dataVars,
     jobVars, historyVars, fileHistory, dataStepVars, IInv, RepliesAreExpected,
     RepliesAnswerTheirCommand, Expected, LogonCommand
<1>27. ASSUME LastReply("got", "I", "idle") PROVE RepliesAreExpected'
  <2>1. Hearing("END")
    BY <1>0, <1>27, LastReplyStep
  <2>2. Expected = "END" /\ strayed' = strayed
    BY <1>27 DEF LastReply, Expected
  <2> QED
    BY <2>1, <2>2, HearingKeeps DEF IInv
<1>28. ASSUME NeverConnects PROVE RepliesAreExpected'
  <2>1. faults' \in 0 .. MaxFaults
    BY <1>0, <1>28, CountFacts DEF NeverConnects
  <2> QED
    BY <1>0, <1>28, <2>1 DEF NeverConnects, ftpVars, dataVars, jobVars, historyVars, fileHistory,
       dataStepVars, IInv, RepliesAreExpected, RepliesAnswerTheirCommand, Expected,
       LogonCommand
<1>29. ASSUME NEW h \in Hosts, UpdateHostInfo(h) PROVE RepliesAreExpected'
  BY <1>0, <1>29 DEF UpdateHostInfo, ftpVars, dataVars, jobVars, historyVars, fileHistory,
     dataStepVars, IInv, RepliesAreExpected, RepliesAnswerTheirCommand, Expected,
     LogonCommand
<1>30. ASSUME Restart PROVE RepliesAreExpected'
  <2>1. RepliesAnswerTheirCommand' /\ Quiet(conn')
    BY <1>30 DEF Restart, RepliesAnswerTheirCommand, Quiet, NewClient
  <2> QED
    BY <2>1 DEF RepliesAreExpected
<1>31. ASSUME UNCHANGED vars PROVE RepliesAreExpected'
  BY <1>0, <1>31 DEF vars, ftpVars, dataVars, jobVars, historyVars, fileHistory, dataStepVars, IInv,
     RepliesAreExpected, RepliesAnswerTheirCommand, Expected, LogonCommand
<1> QED
  BY <1>1, <1>2, <1>3, <1>4, <1>5, <1>6, <1>7, <1>8, <1>9, <1>10, <1>11, <1>12, <1>13,
     <1>14, <1>15, <1>16, <1>17, <1>18, <1>19, <1>20, <1>21, <1>22, <1>23, <1>24, <1>25,
     <1>26, <1>27, <1>28, <1>29, <1>30, <1>31 DEF Next, Worker, GetFileList, DownLoad

\* The recorder and the file of a job stay while it goes on.
LEMMA NextJob ==
    ASSUME IInv, [Next]_vars
    PROVE  JobFits'
<1>0. TypeOK
  BY DEF IInv
<1>1. ASSUME GetReadyHostInfo PROVE JobFits'
  BY <1>0, <1>1 DEF GetReadyHostInfo, First, ftpVars, dataVars, jobVars, historyVars, fileHistory,
     dataStepVars, IInv, TypeOK, JobFits, GetSteps, Hosts, Files, NoHost, NoFile
<1>2. ASSUME Quit("quit", "connect") PROVE JobFits'
  BY <1>0, <1>2 DEF Quit, ftpVars, dataVars, jobVars, historyVars, fileHistory, dataStepVars, IInv,
     TypeOK, JobFits, GetSteps, Hosts, Files, NoHost, NoFile
<1>3. ASSUME Connect PROVE JobFits'
  BY <1>0, <1>3 DEF Connect, LoginFails, DelHost, ftpVars, dataVars, jobVars, historyVars, fileHistory,
     dataStepVars, IInv, TypeOK, JobFits, GetSteps, Hosts, Files, NoHost, NoFile
<1>4. ASSUME NEW at \in DOMAIN LogonCommand, Logon(at) PROVE JobFits'
  BY <1>0, <1>4 DEF Logon, LoginFails, DelHost, LogonPoint, ftpVars, dataVars, jobVars,
     historyVars, fileHistory, dataStepVars, IInv, TypeOK, JobFits, GetSteps, Hosts, Files, NoHost,
     NoFile
<1>5. ASSUME RepresentationType("typeA", "A", "portA") PROVE JobFits'
  BY <1>0, <1>5 DEF RepresentationType, Fails, Goes, ListFails, DelHost, ftpVars,
     dataVars, jobVars, historyVars, fileHistory, dataStepVars, IInv, TypeOK, JobFits, GetSteps, Hosts,
     Files, NoHost, NoFile
<1>6. ASSUME Prepare("portA", "A", "PORT", Completion, "nlst") PROVE JobFits'
  BY <1>0, <1>6 DEF Prepare, Fails, Goes, ListFails, DelHost, ftpVars, dataVars, jobVars,
     historyVars, fileHistory, dataStepVars, IInv, TypeOK, JobFits, GetSteps, Hosts, Files, NoHost,
     NoFile
<1>7. ASSUME DataCommand("nlst", "A", "NLST", "listing") PROVE JobFits'
  BY <1>0, <1>7 DEF DataCommand, Fails, Goes, ListFails, DelHost, ftpVars, dataVars,
     jobVars, historyVars, fileHistory, dataStepVars, IInv, TypeOK, JobFits, GetSteps, Hosts, Files,
     NoHost, NoFile
<1>8. ASSUME ListData PROVE JobFits'
  BY <1>0, <1>8 DEF ListData, ftpVars, dataVars, jobVars, historyVars, fileHistory, dataStepVars, IInv,
     TypeOK, JobFits, GetSteps, Hosts, Files, NoHost, NoFile
<1>9. ASSUME DataTimeout("listing", "A") PROVE JobFits'
  BY <1>0, <1>9 DEF DataTimeout, Fails, ListFails, DelHost, ftpVars, dataVars, jobVars,
     historyVars, fileHistory, dataStepVars, IInv, TypeOK, JobFits, GetSteps, Hosts, Files, NoHost,
     NoFile
<1>10. ASSUME OnEndReceivingData("listingEnd", "listedEnd") PROVE JobFits'
  BY <1>0, <1>10 DEF OnEndReceivingData, OnReturnTrue, EndDownLoad, ftpVars, dataVars,
     jobVars, historyVars, fileHistory, dataStepVars, IInv, TypeOK, JobFits, GetSteps, Hosts, Files,
     NoHost, NoFile
<1>11. ASSUME LastReply("listedEnd", "A", "listed") PROVE JobFits'
  BY <1>0, <1>11 DEF LastReply, Fails, Goes, ListFails, DelHost, ftpVars, dataVars,
     jobVars, historyVars, fileHistory, dataStepVars, IInv, TypeOK, JobFits, GetSteps, Hosts, Files,
     NoHost, NoFile
<1>12. ASSUME TakeList PROVE JobFits'
  BY <1>0, <1>12 DEF TakeList, ListFails, DelHost, ftpVars, dataVars, jobVars,
     historyVars, fileHistory, dataStepVars, IInv, TypeOK, JobFits, GetSteps, Hosts, Files, NoHost,
     NoFile
<1>13. ASSUME Quit("quitList", "idle") PROVE JobFits'
  BY <1>0, <1>13 DEF Quit, ftpVars, dataVars, jobVars, historyVars, fileHistory, dataStepVars, IInv,
     TypeOK, JobFits, GetSteps, Hosts, Files, NoHost, NoFile
<1>14. ASSUME NoMoreFiles PROVE JobFits'
  BY <1>0, <1>14 DEF NoMoreFiles, ftpVars, dataVars, jobVars, historyVars, fileHistory, dataStepVars,
     IInv, TypeOK, JobFits, GetSteps, Hosts, Files, NoHost, NoFile
<1>15. ASSUME StartDownLoad PROVE JobFits'
  BY <1>0, <1>15 DEF StartDownLoad, HasDownLoaded, First, ftpVars, dataVars, jobVars,
     historyVars, fileHistory, dataStepVars, IInv, TypeOK, JobFits, GetSteps, Hosts, Files, NoHost,
     NoFile
<1>16. ASSUME DelItem PROVE JobFits'
  BY <1>0, <1>16 DEF DelItem, OldestRows, First, RowsWithout, ftpVars, dataVars, jobVars,
     historyVars, fileHistory, dataStepVars, IInv, TypeOK, JobFits, GetSteps, Hosts, Files, NoHost,
     NoFile
<1>17. ASSUME OpenFile PROVE JobFits'
  BY <1>0, <1>17 DEF OpenFile, ftpVars, dataVars, jobVars, historyVars, fileHistory, dataStepVars,
     IInv, TypeOK, JobFits, GetSteps, Hosts, Files, NoHost, NoFile
<1>18. ASSUME FileSize PROVE JobFits'
  BY <1>0, <1>18 DEF FileSize, DelHost, ftpVars, dataVars, jobVars, historyVars, fileHistory,
     dataStepVars, IInv, TypeOK, JobFits, GetSteps, Hosts, Files, NoHost, NoFile
<1>19. ASSUME ReturnFalse PROVE JobFits'
  BY <1>0, <1>19 DEF ReturnFalse, RowsWithout, ftpVars, dataVars, jobVars, historyVars, fileHistory,
     dataStepVars, IInv, TypeOK, JobFits, GetSteps, Hosts, Files, NoHost, NoFile
<1>20. ASSUME RepresentationType("typeI", "I", "portI") PROVE JobFits'
  BY <1>0, <1>20 DEF RepresentationType, Fails, Goes, GetFails, EndDownLoad, ftpVars,
     dataVars, jobVars, historyVars, fileHistory, dataStepVars, IInv, TypeOK, JobFits, GetSteps, Hosts,
     Files, NoHost, NoFile
<1>21. ASSUME NEW there \in {"retr", "rest"}, Prepare("portI", "I", "PORT", Completion, there) PROVE JobFits'
  BY <1>0, <1>21 DEF Prepare, Fails, Goes, GetFails, EndDownLoad, ftpVars, dataVars,
     jobVars, historyVars, fileHistory, dataStepVars, IInv, TypeOK, JobFits, GetSteps, Hosts, Files,
     NoHost, NoFile
<1>22. ASSUME Prepare("rest", "I", "REST", Intermediate, "retr") PROVE JobFits'
  BY <1>0, <1>22 DEF Prepare, Fails, Goes, GetFails, EndDownLoad, ftpVars, dataVars,
     jobVars, historyVars, fileHistory, dataStepVars, IInv, TypeOK, JobFits, GetSteps, Hosts, Files,
     NoHost, NoFile
<1>23. ASSUME DataCommand("retr", "I", "RETR", "getting") PROVE JobFits'
  BY <1>0, <1>23 DEF DataCommand, Fails, Goes, GetFails, EndDownLoad, ftpVars, dataVars,
     jobVars, historyVars, fileHistory, dataStepVars, IInv, TypeOK, JobFits, GetSteps, Hosts, Files,
     NoHost, NoFile
<1>24. ASSUME FileData PROVE JobFits'
  BY <1>0, <1>24 DEF FileData, SomeBytes, ftpVars, dataVars, jobVars, historyVars, fileHistory,
     dataStepVars, IInv, TypeOK, JobFits, GetSteps, Hosts, Files, NoHost, NoFile
<1>25. ASSUME DataTimeout("getting", "I") PROVE JobFits'
  BY <1>0, <1>25 DEF DataTimeout, Fails, GetFails, EndDownLoad, SomeBytes, ftpVars,
     dataVars, jobVars, historyVars, fileHistory, dataStepVars, IInv, TypeOK, JobFits, GetSteps, Hosts,
     Files, NoHost, NoFile
<1>26. ASSUME OnEndReceivingData("gettingEnd", "got") PROVE JobFits'
  BY <1>0, <1>26 DEF OnEndReceivingData, OnReturnTrue, EndDownLoad, ftpVars, dataVars,
     jobVars, historyVars, fileHistory, dataStepVars, IInv, TypeOK, JobFits, GetSteps, Hosts, Files,
     NoHost, NoFile
<1>27. ASSUME LastReply("got", "I", "idle") PROVE JobFits'
  BY <1>0, <1>27 DEF LastReply, Fails, Goes, GetFails, EndDownLoad, ftpVars, dataVars,
     jobVars, historyVars, fileHistory, dataStepVars, IInv, TypeOK, JobFits, GetSteps, Hosts, Files,
     NoHost, NoFile
<1>28. ASSUME NeverConnects PROVE JobFits'
  BY <1>0, <1>28 DEF NeverConnects, ftpVars, dataVars, jobVars, historyVars, fileHistory, dataStepVars,
     IInv, TypeOK, JobFits, GetSteps, Hosts, Files, NoHost, NoFile
<1>29. ASSUME NEW h \in Hosts, UpdateHostInfo(h) PROVE JobFits'
  BY <1>0, <1>29 DEF UpdateHostInfo, ftpVars, dataVars, jobVars, historyVars, fileHistory,
     dataStepVars, IInv, TypeOK, JobFits, GetSteps, Hosts, Files, NoHost, NoFile
<1>30. ASSUME Restart PROVE JobFits'
  BY <1>0, <1>30 DEF Restart, ftpVars, dataVars, jobVars, historyVars, fileHistory, dataStepVars, IInv,
     TypeOK, JobFits, GetSteps, Hosts, Files, NoHost, NoFile
<1>31. ASSUME UNCHANGED vars PROVE JobFits'
  BY <1>0, <1>31 DEF vars, ftpVars, dataVars, jobVars, historyVars, fileHistory, dataStepVars, IInv,
     TypeOK, JobFits, GetSteps, Hosts, Files, NoHost, NoFile
<1> QED
  BY <1>1, <1>2, <1>3, <1>4, <1>5, <1>6, <1>7, <1>8, <1>9, <1>10, <1>11, <1>12, <1>13,
     <1>14, <1>15, <1>16, <1>17, <1>18, <1>19, <1>20, <1>21, <1>22, <1>23, <1>24, <1>25,
     <1>26, <1>27, <1>28, <1>29, <1>30, <1>31 DEF Next, Worker, GetFileList, DownLoad

\* Only OnReturn makes rows.
LEMMA NextUnrecorded ==
    ASSUME IInv, [Next]_vars
    PROVE  NotYetRecorded'
<1>0. TypeOK
  BY DEF IInv
<1>1. ASSUME GetReadyHostInfo PROVE NotYetRecorded'
  BY <1>0, <1>1 DEF GetReadyHostInfo, First, ftpVars, dataVars, jobVars, historyVars, fileHistory,
     dataStepVars, IInv, NotYetRecorded
<1>2. ASSUME Quit("quit", "connect") PROVE NotYetRecorded'
  BY <1>0, <1>2 DEF Quit, ftpVars, dataVars, jobVars, historyVars, fileHistory, dataStepVars, IInv,
     NotYetRecorded
<1>3. ASSUME Connect PROVE NotYetRecorded'
  BY <1>0, <1>3 DEF Connect, LoginFails, DelHost, ftpVars, dataVars, jobVars, historyVars, fileHistory,
     dataStepVars, IInv, NotYetRecorded
<1>4. ASSUME NEW at \in DOMAIN LogonCommand, Logon(at) PROVE NotYetRecorded'
  BY <1>0, <1>4 DEF Logon, LoginFails, DelHost, LogonPoint, ftpVars, dataVars, jobVars,
     historyVars, fileHistory, dataStepVars, IInv, NotYetRecorded
<1>5. ASSUME RepresentationType("typeA", "A", "portA") PROVE NotYetRecorded'
  BY <1>0, <1>5 DEF RepresentationType, Fails, Goes, ListFails, DelHost, ftpVars,
     dataVars, jobVars, historyVars, fileHistory, dataStepVars, IInv, NotYetRecorded
<1>6. ASSUME Prepare("portA", "A", "PORT", Completion, "nlst") PROVE NotYetRecorded'
  BY <1>0, <1>6 DEF Prepare, Fails, Goes, ListFails, DelHost, ftpVars, dataVars, jobVars,
     historyVars, fileHistory, dataStepVars, IInv, NotYetRecorded
<1>7. ASSUME DataCommand("nlst", "A", "NLST", "listing") PROVE NotYetRecorded'
  BY <1>0, <1>7 DEF DataCommand, Fails, Goes, ListFails, DelHost, ftpVars, dataVars,
     jobVars, historyVars, fileHistory, dataStepVars, IInv, NotYetRecorded
<1>8. ASSUME ListData PROVE NotYetRecorded'
  BY <1>0, <1>8 DEF ListData, ftpVars, dataVars, jobVars, historyVars, fileHistory, dataStepVars, IInv,
     NotYetRecorded
<1>9. ASSUME DataTimeout("listing", "A") PROVE NotYetRecorded'
  BY <1>0, <1>9 DEF DataTimeout, Fails, ListFails, DelHost, ftpVars, dataVars, jobVars,
     historyVars, fileHistory, dataStepVars, IInv, NotYetRecorded
<1>10. ASSUME OnEndReceivingData("listingEnd", "listedEnd") PROVE NotYetRecorded'
  BY <1>0, <1>10 DEF OnEndReceivingData, OnReturnTrue, EndDownLoad, ftpVars, dataVars,
     jobVars, historyVars, fileHistory, dataStepVars, IInv, NotYetRecorded
<1>11. ASSUME LastReply("listedEnd", "A", "listed") PROVE NotYetRecorded'
  BY <1>0, <1>11 DEF LastReply, Fails, Goes, ListFails, DelHost, ftpVars, dataVars,
     jobVars, historyVars, fileHistory, dataStepVars, IInv, NotYetRecorded
<1>12. ASSUME TakeList PROVE NotYetRecorded'
  BY <1>0, <1>12 DEF TakeList, ListFails, DelHost, ftpVars, dataVars, jobVars,
     historyVars, fileHistory, dataStepVars, IInv, NotYetRecorded
<1>13. ASSUME Quit("quitList", "idle") PROVE NotYetRecorded'
  BY <1>0, <1>13 DEF Quit, ftpVars, dataVars, jobVars, historyVars, fileHistory, dataStepVars, IInv,
     NotYetRecorded
<1>14. ASSUME NoMoreFiles PROVE NotYetRecorded'
  BY <1>0, <1>14 DEF NoMoreFiles, ftpVars, dataVars, jobVars, historyVars, fileHistory, dataStepVars,
     IInv, NotYetRecorded
<1>15. ASSUME StartDownLoad PROVE NotYetRecorded'
  BY <1>0, <1>15 DEF StartDownLoad, HasDownLoaded, First, ftpVars, dataVars, jobVars,
     historyVars, fileHistory, dataStepVars, IInv, NotYetRecorded
<1>16. ASSUME DelItem PROVE NotYetRecorded'
  BY <1>0, <1>16 DEF DelItem, OldestRows, First, RowsWithout, ftpVars, dataVars, jobVars,
     historyVars, fileHistory, dataStepVars, IInv, NotYetRecorded
<1>17. ASSUME OpenFile PROVE NotYetRecorded'
  BY <1>0, <1>17 DEF OpenFile, ftpVars, dataVars, jobVars, historyVars, fileHistory, dataStepVars,
     IInv, NotYetRecorded
<1>18. ASSUME FileSize PROVE NotYetRecorded'
  BY <1>0, <1>18 DEF FileSize, DelHost, ftpVars, dataVars, jobVars, historyVars, fileHistory,
     dataStepVars, IInv, NotYetRecorded
<1>19. ASSUME ReturnFalse PROVE NotYetRecorded'
  BY <1>0, <1>19 DEF ReturnFalse, RowsWithout, ftpVars, dataVars, jobVars, historyVars, fileHistory,
     dataStepVars, IInv, NotYetRecorded
<1>20. ASSUME RepresentationType("typeI", "I", "portI") PROVE NotYetRecorded'
  BY <1>0, <1>20 DEF RepresentationType, Fails, Goes, GetFails, EndDownLoad, ftpVars,
     dataVars, jobVars, historyVars, fileHistory, dataStepVars, IInv, NotYetRecorded
<1>21. ASSUME NEW there \in {"retr", "rest"}, Prepare("portI", "I", "PORT", Completion, there) PROVE NotYetRecorded'
  BY <1>0, <1>21 DEF Prepare, Fails, Goes, GetFails, EndDownLoad, ftpVars, dataVars,
     jobVars, historyVars, fileHistory, dataStepVars, IInv, NotYetRecorded
<1>22. ASSUME Prepare("rest", "I", "REST", Intermediate, "retr") PROVE NotYetRecorded'
  BY <1>0, <1>22 DEF Prepare, Fails, Goes, GetFails, EndDownLoad, ftpVars, dataVars,
     jobVars, historyVars, fileHistory, dataStepVars, IInv, NotYetRecorded
<1>23. ASSUME DataCommand("retr", "I", "RETR", "getting") PROVE NotYetRecorded'
  BY <1>0, <1>23 DEF DataCommand, Fails, Goes, GetFails, EndDownLoad, ftpVars, dataVars,
     jobVars, historyVars, fileHistory, dataStepVars, IInv, NotYetRecorded
<1>24. ASSUME FileData PROVE NotYetRecorded'
  BY <1>0, <1>24 DEF FileData, SomeBytes, ftpVars, dataVars, jobVars, historyVars, fileHistory,
     dataStepVars, IInv, NotYetRecorded
<1>25. ASSUME DataTimeout("getting", "I") PROVE NotYetRecorded'
  BY <1>0, <1>25 DEF DataTimeout, Fails, GetFails, EndDownLoad, SomeBytes, ftpVars,
     dataVars, jobVars, historyVars, fileHistory, dataStepVars, IInv, NotYetRecorded
<1>26. ASSUME OnEndReceivingData("gettingEnd", "got") PROVE NotYetRecorded'
  BY <1>0, <1>26 DEF OnEndReceivingData, OnReturnTrue, EndDownLoad, ftpVars, dataVars,
     jobVars, historyVars, fileHistory, dataStepVars, IInv, NotYetRecorded
<1>27. ASSUME LastReply("got", "I", "idle") PROVE NotYetRecorded'
  BY <1>0, <1>27 DEF LastReply, Fails, Goes, GetFails, EndDownLoad, ftpVars, dataVars,
     jobVars, historyVars, fileHistory, dataStepVars, IInv, NotYetRecorded
<1>28. ASSUME NeverConnects PROVE NotYetRecorded'
  BY <1>0, <1>28 DEF NeverConnects, ftpVars, dataVars, jobVars, historyVars, fileHistory, dataStepVars,
     IInv, NotYetRecorded
<1>29. ASSUME NEW h \in Hosts, UpdateHostInfo(h) PROVE NotYetRecorded'
  BY <1>0, <1>29 DEF UpdateHostInfo, ftpVars, dataVars, jobVars, historyVars, fileHistory,
     dataStepVars, IInv, NotYetRecorded
<1>30. ASSUME Restart PROVE NotYetRecorded'
  BY <1>0, <1>30 DEF Restart, ftpVars, dataVars, jobVars, historyVars, fileHistory, dataStepVars, IInv,
     NotYetRecorded
<1>31. ASSUME UNCHANGED vars PROVE NotYetRecorded'
  BY <1>0, <1>31 DEF vars, ftpVars, dataVars, jobVars, historyVars, fileHistory, dataStepVars, IInv,
     NotYetRecorded
<1> QED
  BY <1>1, <1>2, <1>3, <1>4, <1>5, <1>6, <1>7, <1>8, <1>9, <1>10, <1>11, <1>12, <1>13,
     <1>14, <1>15, <1>16, <1>17, <1>18, <1>19, <1>20, <1>21, <1>22, <1>23, <1>24, <1>25,
     <1>26, <1>27, <1>28, <1>29, <1>30, <1>31 DEF Next, Worker, GetFileList, DownLoad

\* The callback is cleared where the connection is closed.
LEMMA NextObserver ==
    ASSUME IInv, [Next]_vars
    PROVE  ObserverIsThere'
<1>0. TypeOK
  BY DEF IInv
<1>1. ASSUME GetReadyHostInfo PROVE ObserverIsThere'
  BY <1>0, <1>1 DEF GetReadyHostInfo, First, ftpVars, dataVars, jobVars, historyVars, fileHistory,
     dataStepVars, IInv, ObserverIsThere
<1>2. ASSUME Quit("quit", "connect") PROVE ObserverIsThere'
  <2>1. Closing
    BY <1>0, <1>2, QuitStep
  <2> QED
    BY <1>0, <1>2, <2>1 DEF Quit, ftpVars, dataVars, jobVars, historyVars, fileHistory, dataStepVars,
       Closing, QuietTalk, Talk, IInv, ObserverIsThere
<1>3. ASSUME Connect PROVE ObserverIsThere'
  <2>1. /\ conn' \in Connection
        /\ faults' \in 0 .. MaxFaults
        /\ heard' = [asked |-> "none", to |-> "none"]
        /\ strayed' \in BOOLEAN
        /\ step' = IF conn'.state = "open" THEN "greet" ELSE "idle"
        /\ ~strayed' => Awaits(conn', "GREET") \/ (conn'.state # "open" /\ Quiet(conn'))
    BY <1>0, <1>3, ConnectStep
  <2> QED
    BY <1>0, <1>3, <2>1 DEF Connect, LoginFails, DelHost, ftpVars, dataVars, jobVars,
       historyVars, fileHistory, dataStepVars, IInv, ObserverIsThere
<1>4. ASSUME NEW at \in DOMAIN LogonCommand, Logon(at) PROVE ObserverIsThere'
  <2>1. IF at = "greet" THEN Hearing("GREET") ELSE QuietTalk
    BY <1>0, <1>4, LogonStep
  <2> QED
    BY <1>0, <1>4, <2>1 DEF Logon, LoginFails, DelHost, LogonPoint, ftpVars, dataVars,
       jobVars, historyVars, fileHistory, dataStepVars, QuietTalk, Talk, Hearing, IInv, ObserverIsThere
<1>5. ASSUME RepresentationType("typeA", "A", "portA") PROVE ObserverIsThere'
  <2>1. QuietTalk \/ UNCHANGED <<conn, faults, heard>>
    BY <1>0, <1>5, TypeStep
  <2> QED
    BY <1>0, <1>5, <2>1 DEF RepresentationType, Fails, Goes, ListFails, DelHost, ftpVars,
       dataVars, jobVars, historyVars, fileHistory, dataStepVars, QuietTalk, Talk, IInv,
       ObserverIsThere
<1>6. ASSUME Prepare("portA", "A", "PORT", Completion, "nlst") PROVE ObserverIsThere'
  <2>1. QuietTalk
    BY <1>0, <1>6, PrepareStep DEF Commands, Classes
  <2> QED
    BY <1>0, <1>6, <2>1 DEF Prepare, Fails, Goes, ListFails, DelHost, ftpVars, dataVars,
       jobVars, historyVars, fileHistory, dataStepVars, QuietTalk, Talk, IInv, ObserverIsThere
<1>7. ASSUME DataCommand("nlst", "A", "NLST", "listing") PROVE ObserverIsThere'
  <2>1. Talk /\ strayed' \in BOOLEAN /\ (strayed => strayed')
          /\ (~strayed' /\ Quiet(conn) => Quiet(conn') /\ HeardRight)
    BY <1>0, <1>7, DataCommandStep DEF Commands
  <2> QED
    BY <1>0, <1>7, <2>1 DEF DataCommand, Fails, Goes, ListFails, DelHost, ftpVars,
       dataVars, jobVars, historyVars, fileHistory, dataStepVars, Talk, IInv, ObserverIsThere
<1>8. ASSUME ListData PROVE ObserverIsThere'
  <2>1. /\ conn' \in Connection
        /\ faults' \in 0 .. MaxFaults
        /\ conn.state = "open"
        /\ conn'.state = "open"
        /\ Quiet(conn) => Awaits(conn', "END")
    BY <1>0, <1>8, DataEndsStep DEF ListData
  <2> QED
    BY <1>0, <1>8, <2>1 DEF ListData, ftpVars, dataVars, jobVars, historyVars, fileHistory,
       dataStepVars, IInv, ObserverIsThere
<1>9. ASSUME DataTimeout("listing", "A") PROVE ObserverIsThere'
  <2>1. /\ conn' \in Connection
        /\ faults' \in 0 .. MaxFaults
        /\ conn'.state = conn.state
    BY <1>0, <1>9, DataTimeoutStep
  <2> QED
    BY <1>0, <1>9, <2>1 DEF DataTimeout, Fails, ListFails, DelHost, ftpVars, dataVars,
       jobVars, historyVars, fileHistory, dataStepVars, IInv, ObserverIsThere
<1>10. ASSUME OnEndReceivingData("listingEnd", "listedEnd") PROVE ObserverIsThere'
  BY <1>0, <1>10 DEF OnEndReceivingData, OnReturnTrue, EndDownLoad, ftpVars, dataVars,
     jobVars, historyVars, fileHistory, dataStepVars, IInv, ObserverIsThere
<1>11. ASSUME LastReply("listedEnd", "A", "listed") PROVE ObserverIsThere'
  <2>1. Hearing("END")
    BY <1>0, <1>11, LastReplyStep
  <2> QED
    BY <1>0, <1>11, <2>1 DEF LastReply, Fails, Goes, ListFails, DelHost, ftpVars,
       dataVars, jobVars, historyVars, fileHistory, dataStepVars, Hearing, Talk, IInv, ObserverIsThere
<1>12. ASSUME TakeList PROVE ObserverIsThere'
  BY <1>0, <1>12 DEF TakeList, ListFails, DelHost, ftpVars, dataVars, jobVars,
     historyVars, fileHistory, dataStepVars, IInv, ObserverIsThere
<1>13. ASSUME Quit("quitList", "idle") PROVE ObserverIsThere'
  <2>1. Closing
    BY <1>0, <1>13, QuitStep
  <2> QED
    BY <1>0, <1>13, <2>1 DEF Quit, ftpVars, dataVars, jobVars, historyVars, fileHistory, dataStepVars,
       Closing, QuietTalk, Talk, IInv, ObserverIsThere
<1>14. ASSUME NoMoreFiles PROVE ObserverIsThere'
  BY <1>0, <1>14 DEF NoMoreFiles, ftpVars, dataVars, jobVars, historyVars, fileHistory, dataStepVars,
     IInv, ObserverIsThere
<1>15. ASSUME StartDownLoad PROVE ObserverIsThere'
  BY <1>0, <1>15 DEF StartDownLoad, HasDownLoaded, First, ftpVars, dataVars, jobVars,
     historyVars, fileHistory, dataStepVars, IInv, ObserverIsThere
<1>16. ASSUME DelItem PROVE ObserverIsThere'
  BY <1>0, <1>16 DEF DelItem, OldestRows, First, RowsWithout, ftpVars, dataVars, jobVars,
     historyVars, fileHistory, dataStepVars, IInv, ObserverIsThere
<1>17. ASSUME OpenFile PROVE ObserverIsThere'
  BY <1>0, <1>17 DEF OpenFile, ftpVars, dataVars, jobVars, historyVars, fileHistory, dataStepVars,
     IInv, ObserverIsThere
<1>18. ASSUME FileSize PROVE ObserverIsThere'
  <2>1. QuietTalk
    BY <1>0, <1>18, FileSizeStep
  <2> QED
    BY <1>0, <1>18, <2>1 DEF FileSize, DelHost, ftpVars, dataVars, jobVars, historyVars, fileHistory,
       dataStepVars, QuietTalk, Talk, IInv, ObserverIsThere
<1>19. ASSUME ReturnFalse PROVE ObserverIsThere'
  <2>1. Closing
    BY <1>0, <1>19, ReturnFalseStep
  <2> QED
    BY <1>0, <1>19, <2>1 DEF ReturnFalse, RowsWithout, ftpVars, dataVars, jobVars,
       historyVars, fileHistory, dataStepVars, Closing, QuietTalk, Talk, IInv, ObserverIsThere
<1>20. ASSUME RepresentationType("typeI", "I", "portI") PROVE ObserverIsThere'
  <2>1. QuietTalk \/ UNCHANGED <<conn, faults, heard>>
    BY <1>0, <1>20, TypeStep
  <2> QED
    BY <1>0, <1>20, <2>1 DEF RepresentationType, Fails, Goes, GetFails, EndDownLoad,
       ftpVars, dataVars, jobVars, historyVars, fileHistory, dataStepVars, QuietTalk, Talk, IInv,
       ObserverIsThere
<1>21. ASSUME NEW there \in {"retr", "rest"}, Prepare("portI", "I", "PORT", Completion, there) PROVE ObserverIsThere'
  <2>1. QuietTalk
    BY <1>0, <1>21, PrepareStep DEF Commands, Classes
  <2> QED
    BY <1>0, <1>21, <2>1 DEF Prepare, Fails, Goes, GetFails, EndDownLoad, ftpVars,
       dataVars, jobVars, historyVars, fileHistory, dataStepVars, QuietTalk, Talk, IInv,
       ObserverIsThere
<1>22. ASSUME Prepare("rest", "I", "REST", Intermediate, "retr") PROVE ObserverIsThere'
  <2>1. QuietTalk
    BY <1>0, <1>22, PrepareStep DEF Commands, Classes
  <2> QED
    BY <1>0, <1>22, <2>1 DEF Prepare, Fails, Goes, GetFails, EndDownLoad, ftpVars,
       dataVars, jobVars, historyVars, fileHistory, dataStepVars, QuietTalk, Talk, IInv,
       ObserverIsThere
<1>23. ASSUME DataCommand("retr", "I", "RETR", "getting") PROVE ObserverIsThere'
  <2>1. Talk /\ strayed' \in BOOLEAN /\ (strayed => strayed')
          /\ (~strayed' /\ Quiet(conn) => Quiet(conn') /\ HeardRight)
    BY <1>0, <1>23, DataCommandStep DEF Commands
  <2> QED
    BY <1>0, <1>23, <2>1 DEF DataCommand, Fails, Goes, GetFails, EndDownLoad, ftpVars,
       dataVars, jobVars, historyVars, fileHistory, dataStepVars, Talk, IInv, ObserverIsThere
<1>24. ASSUME FileData PROVE ObserverIsThere'
  <2>1. /\ conn' \in Connection
        /\ faults' \in 0 .. MaxFaults
        /\ conn.state = "open"
        /\ conn'.state = "open"
        /\ Quiet(conn) => Awaits(conn', "END")
    BY <1>0, <1>24, DataEndsStep DEF FileData
  <2> QED
    BY <1>0, <1>24, <2>1 DEF FileData, SomeBytes, ftpVars, dataVars, jobVars, historyVars, fileHistory,
       dataStepVars, IInv, ObserverIsThere
<1>25. ASSUME DataTimeout("getting", "I") PROVE ObserverIsThere'
  <2>1. /\ conn' \in Connection
        /\ faults' \in 0 .. MaxFaults
        /\ conn'.state = conn.state
    BY <1>0, <1>25, DataTimeoutStep
  <2> QED
    BY <1>0, <1>25, <2>1 DEF DataTimeout, Fails, GetFails, EndDownLoad, SomeBytes,
       ftpVars, dataVars, jobVars, historyVars, fileHistory, dataStepVars, IInv, ObserverIsThere
<1>26. ASSUME OnEndReceivingData("gettingEnd", "got") PROVE ObserverIsThere'
  BY <1>0, <1>26 DEF OnEndReceivingData, OnReturnTrue, EndDownLoad, ftpVars, dataVars,
     jobVars, historyVars, fileHistory, dataStepVars, IInv, ObserverIsThere
<1>27. ASSUME LastReply("got", "I", "idle") PROVE ObserverIsThere'
  <2>1. Hearing("END")
    BY <1>0, <1>27, LastReplyStep
  <2> QED
    BY <1>0, <1>27, <2>1 DEF LastReply, Fails, Goes, GetFails, EndDownLoad, ftpVars,
       dataVars, jobVars, historyVars, fileHistory, dataStepVars, Hearing, Talk, IInv, ObserverIsThere
<1>28. ASSUME NeverConnects PROVE ObserverIsThere'
  <2>1. faults' \in 0 .. MaxFaults
    BY <1>0, <1>28, CountFacts DEF NeverConnects
  <2> QED
    BY <1>0, <1>28, <2>1 DEF NeverConnects, ftpVars, dataVars, jobVars, historyVars, fileHistory,
       dataStepVars, IInv, ObserverIsThere
<1>29. ASSUME NEW h \in Hosts, UpdateHostInfo(h) PROVE ObserverIsThere'
  BY <1>0, <1>29 DEF UpdateHostInfo, ftpVars, dataVars, jobVars, historyVars, fileHistory,
     dataStepVars, IInv, ObserverIsThere
<1>30. ASSUME Restart PROVE ObserverIsThere'
  BY <1>0, <1>30 DEF Restart, ftpVars, dataVars, jobVars, historyVars, fileHistory, dataStepVars, IInv,
     ObserverIsThere
<1>31. ASSUME UNCHANGED vars PROVE ObserverIsThere'
  BY <1>0, <1>31 DEF vars, ftpVars, dataVars, jobVars, historyVars, fileHistory, dataStepVars, IInv,
     ObserverIsThere
<1> QED
  BY <1>1, <1>2, <1>3, <1>4, <1>5, <1>6, <1>7, <1>8, <1>9, <1>10, <1>11, <1>12, <1>13,
     <1>14, <1>15, <1>16, <1>17, <1>18, <1>19, <1>20, <1>21, <1>22, <1>23, <1>24, <1>25,
     <1>26, <1>27, <1>28, <1>29, <1>30, <1>31 DEF Next, Worker, GetFileList, DownLoad

\* A file is complete when its data end, if the server did not break off.
LEMMA NextReceived ==
    ASSUME IInv, [Next]_vars
    PROVE  ReceivedFilesAreWhole'
<1>0. TypeOK
  BY DEF IInv
<1>1. ASSUME GetReadyHostInfo PROVE ReceivedFilesAreWhole'
  BY <1>0, <1>1 DEF GetReadyHostInfo, First, ftpVars, dataVars, jobVars, historyVars, fileHistory,
     dataStepVars, IInv, TypeOK, ReceivedFilesAreWhole, JobFits, GetSteps, Files
<1>2. ASSUME Quit("quit", "connect") PROVE ReceivedFilesAreWhole'
  BY <1>0, <1>2 DEF Quit, ftpVars, dataVars, jobVars, historyVars, fileHistory, dataStepVars, IInv,
     TypeOK, ReceivedFilesAreWhole, JobFits, GetSteps, Files
<1>3. ASSUME Connect PROVE ReceivedFilesAreWhole'
  BY <1>0, <1>3 DEF Connect, LoginFails, DelHost, ftpVars, dataVars, jobVars, historyVars, fileHistory,
     dataStepVars, IInv, TypeOK, ReceivedFilesAreWhole, JobFits, GetSteps, Files
<1>4. ASSUME NEW at \in DOMAIN LogonCommand, Logon(at) PROVE ReceivedFilesAreWhole'
  BY <1>0, <1>4 DEF Logon, LoginFails, DelHost, LogonPoint, ftpVars, dataVars, jobVars,
     historyVars, fileHistory, dataStepVars, IInv, TypeOK, ReceivedFilesAreWhole, JobFits, GetSteps,
     Files
<1>5. ASSUME RepresentationType("typeA", "A", "portA") PROVE ReceivedFilesAreWhole'
  BY <1>0, <1>5 DEF RepresentationType, Fails, Goes, ListFails, DelHost, ftpVars,
     dataVars, jobVars, historyVars, fileHistory, dataStepVars, IInv, TypeOK, ReceivedFilesAreWhole,
     JobFits, GetSteps, Files
<1>6. ASSUME Prepare("portA", "A", "PORT", Completion, "nlst") PROVE ReceivedFilesAreWhole'
  BY <1>0, <1>6 DEF Prepare, Fails, Goes, ListFails, DelHost, ftpVars, dataVars, jobVars,
     historyVars, fileHistory, dataStepVars, IInv, TypeOK, ReceivedFilesAreWhole, JobFits, GetSteps,
     Files
<1>7. ASSUME DataCommand("nlst", "A", "NLST", "listing") PROVE ReceivedFilesAreWhole'
  BY <1>0, <1>7 DEF DataCommand, Fails, Goes, ListFails, DelHost, ftpVars, dataVars,
     jobVars, historyVars, fileHistory, dataStepVars, IInv, TypeOK, ReceivedFilesAreWhole, JobFits,
     GetSteps, Files
<1>8. ASSUME ListData PROVE ReceivedFilesAreWhole'
  BY <1>0, <1>8 DEF ListData, ftpVars, dataVars, jobVars, historyVars, fileHistory, dataStepVars, IInv,
     TypeOK, ReceivedFilesAreWhole, JobFits, GetSteps, Files
<1>9. ASSUME DataTimeout("listing", "A") PROVE ReceivedFilesAreWhole'
  BY <1>0, <1>9 DEF DataTimeout, Fails, ListFails, DelHost, ftpVars, dataVars, jobVars,
     historyVars, fileHistory, dataStepVars, IInv, TypeOK, ReceivedFilesAreWhole, JobFits, GetSteps,
     Files
<1>10. ASSUME OnEndReceivingData("listingEnd", "listedEnd") PROVE ReceivedFilesAreWhole'
  BY <1>0, <1>10 DEF OnEndReceivingData, OnReturnTrue, EndDownLoad, ftpVars, dataVars,
     jobVars, historyVars, fileHistory, dataStepVars, IInv, TypeOK, ReceivedFilesAreWhole, JobFits,
     GetSteps, Files
<1>11. ASSUME LastReply("listedEnd", "A", "listed") PROVE ReceivedFilesAreWhole'
  BY <1>0, <1>11 DEF LastReply, Fails, Goes, ListFails, DelHost, ftpVars, dataVars,
     jobVars, historyVars, fileHistory, dataStepVars, IInv, TypeOK, ReceivedFilesAreWhole, JobFits,
     GetSteps, Files
<1>12. ASSUME TakeList PROVE ReceivedFilesAreWhole'
  BY <1>0, <1>12 DEF TakeList, ListFails, DelHost, ftpVars, dataVars, jobVars,
     historyVars, fileHistory, dataStepVars, IInv, TypeOK, ReceivedFilesAreWhole, JobFits, GetSteps,
     Files
<1>13. ASSUME Quit("quitList", "idle") PROVE ReceivedFilesAreWhole'
  BY <1>0, <1>13 DEF Quit, ftpVars, dataVars, jobVars, historyVars, fileHistory, dataStepVars, IInv,
     TypeOK, ReceivedFilesAreWhole, JobFits, GetSteps, Files
<1>14. ASSUME NoMoreFiles PROVE ReceivedFilesAreWhole'
  BY <1>0, <1>14 DEF NoMoreFiles, ftpVars, dataVars, jobVars, historyVars, fileHistory, dataStepVars,
     IInv, TypeOK, ReceivedFilesAreWhole, JobFits, GetSteps, Files
<1>15. ASSUME StartDownLoad PROVE ReceivedFilesAreWhole'
  BY <1>0, <1>15 DEF StartDownLoad, HasDownLoaded, First, ftpVars, dataVars, jobVars,
     historyVars, fileHistory, dataStepVars, IInv, TypeOK, ReceivedFilesAreWhole, JobFits, GetSteps,
     Files
<1>16. ASSUME DelItem PROVE ReceivedFilesAreWhole'
  BY <1>0, <1>16 DEF DelItem, OldestRows, First, RowsWithout, ftpVars, dataVars, jobVars,
     historyVars, fileHistory, dataStepVars, IInv, TypeOK, ReceivedFilesAreWhole, JobFits, GetSteps,
     Files
<1>17. ASSUME OpenFile PROVE ReceivedFilesAreWhole'
  BY <1>0, <1>17 DEF OpenFile, ftpVars, dataVars, jobVars, historyVars, fileHistory, dataStepVars,
     IInv, TypeOK, ReceivedFilesAreWhole, JobFits, GetSteps, Files
<1>18. ASSUME FileSize PROVE ReceivedFilesAreWhole'
  BY <1>0, <1>18 DEF FileSize, DelHost, ftpVars, dataVars, jobVars, historyVars, fileHistory,
     dataStepVars, IInv, TypeOK, ReceivedFilesAreWhole, JobFits, GetSteps, Files
<1>19. ASSUME ReturnFalse PROVE ReceivedFilesAreWhole'
  BY <1>0, <1>19 DEF ReturnFalse, RowsWithout, ftpVars, dataVars, jobVars, historyVars, fileHistory,
     dataStepVars, IInv, TypeOK, ReceivedFilesAreWhole, JobFits, GetSteps, Files
<1>20. ASSUME RepresentationType("typeI", "I", "portI") PROVE ReceivedFilesAreWhole'
  BY <1>0, <1>20 DEF RepresentationType, Fails, Goes, GetFails, EndDownLoad, ftpVars,
     dataVars, jobVars, historyVars, fileHistory, dataStepVars, IInv, TypeOK, ReceivedFilesAreWhole,
     JobFits, GetSteps, Files
<1>21. ASSUME NEW there \in {"retr", "rest"}, Prepare("portI", "I", "PORT", Completion, there) PROVE ReceivedFilesAreWhole'
  BY <1>0, <1>21 DEF Prepare, Fails, Goes, GetFails, EndDownLoad, ftpVars, dataVars,
     jobVars, historyVars, fileHistory, dataStepVars, IInv, TypeOK, ReceivedFilesAreWhole, JobFits,
     GetSteps, Files
<1>22. ASSUME Prepare("rest", "I", "REST", Intermediate, "retr") PROVE ReceivedFilesAreWhole'
  BY <1>0, <1>22 DEF Prepare, Fails, Goes, GetFails, EndDownLoad, ftpVars, dataVars,
     jobVars, historyVars, fileHistory, dataStepVars, IInv, TypeOK, ReceivedFilesAreWhole, JobFits,
     GetSteps, Files
<1>23. ASSUME DataCommand("retr", "I", "RETR", "getting") PROVE ReceivedFilesAreWhole'
  BY <1>0, <1>23 DEF DataCommand, Fails, Goes, GetFails, EndDownLoad, ftpVars, dataVars,
     jobVars, historyVars, fileHistory, dataStepVars, IInv, TypeOK, ReceivedFilesAreWhole, JobFits,
     GetSteps, Files
<1>24. ASSUME FileData PROVE ReceivedFilesAreWhole'
  BY <1>0, <1>24 DEF FileData, SomeBytes, ftpVars, dataVars, jobVars, historyVars, fileHistory,
     dataStepVars, IInv, TypeOK, ReceivedFilesAreWhole, JobFits, GetSteps, Files
<1>25. ASSUME DataTimeout("getting", "I") PROVE ReceivedFilesAreWhole'
  BY <1>0, <1>25 DEF DataTimeout, Fails, GetFails, EndDownLoad, SomeBytes, ftpVars,
     dataVars, jobVars, historyVars, fileHistory, dataStepVars, IInv, TypeOK, ReceivedFilesAreWhole,
     JobFits, GetSteps, Files
<1>26. ASSUME OnEndReceivingData("gettingEnd", "got") PROVE ReceivedFilesAreWhole'
  BY <1>0, <1>26 DEF OnEndReceivingData, OnReturnTrue, EndDownLoad, ftpVars, dataVars,
     jobVars, historyVars, fileHistory, dataStepVars, IInv, TypeOK, ReceivedFilesAreWhole, JobFits,
     GetSteps, Files
<1>27. ASSUME LastReply("got", "I", "idle") PROVE ReceivedFilesAreWhole'
  BY <1>0, <1>27 DEF LastReply, Fails, Goes, GetFails, EndDownLoad, ftpVars, dataVars,
     jobVars, historyVars, fileHistory, dataStepVars, IInv, TypeOK, ReceivedFilesAreWhole, JobFits,
     GetSteps, Files
<1>28. ASSUME NeverConnects PROVE ReceivedFilesAreWhole'
  BY <1>0, <1>28 DEF NeverConnects, ftpVars, dataVars, jobVars, historyVars, fileHistory, dataStepVars,
     IInv, TypeOK, ReceivedFilesAreWhole, JobFits, GetSteps, Files
<1>29. ASSUME NEW h \in Hosts, UpdateHostInfo(h) PROVE ReceivedFilesAreWhole'
  BY <1>0, <1>29 DEF UpdateHostInfo, ftpVars, dataVars, jobVars, historyVars, fileHistory,
     dataStepVars, IInv, TypeOK, ReceivedFilesAreWhole, JobFits, GetSteps, Files
<1>30. ASSUME Restart PROVE ReceivedFilesAreWhole'
  BY <1>0, <1>30 DEF Restart, ftpVars, dataVars, jobVars, historyVars, fileHistory, dataStepVars, IInv,
     TypeOK, ReceivedFilesAreWhole, JobFits, GetSteps, Files
<1>31. ASSUME UNCHANGED vars PROVE ReceivedFilesAreWhole'
  BY <1>0, <1>31 DEF vars, ftpVars, dataVars, jobVars, historyVars, fileHistory, dataStepVars, IInv,
     TypeOK, ReceivedFilesAreWhole, JobFits, GetSteps, Files
<1> QED
  BY <1>1, <1>2, <1>3, <1>4, <1>5, <1>6, <1>7, <1>8, <1>9, <1>10, <1>11, <1>12, <1>13,
     <1>14, <1>15, <1>16, <1>17, <1>18, <1>19, <1>20, <1>21, <1>22, <1>23, <1>24, <1>25,
     <1>26, <1>27, <1>28, <1>29, <1>30, <1>31 DEF Next, Worker, GetFileList, DownLoad

\* OnReturn names the recorder m_info, which is the file's unless a listing's end came.
LEMMA NextWrong ==
    ASSUME IInv, [Next]_vars
    PROVE  WrongRowsAreEchoed'
<1>0. TypeOK
  BY DEF IInv
<1>1. ASSUME GetReadyHostInfo PROVE WrongRowsAreEchoed'
  BY <1>0, <1>1 DEF GetReadyHostInfo, First, ftpVars, dataVars, jobVars, historyVars, fileHistory,
     dataStepVars, IInv, WrongRowsAreEchoed, JobFits, GetSteps
<1>2. ASSUME Quit("quit", "connect") PROVE WrongRowsAreEchoed'
  BY <1>0, <1>2 DEF Quit, ftpVars, dataVars, jobVars, historyVars, fileHistory, dataStepVars, IInv,
     WrongRowsAreEchoed, JobFits, GetSteps
<1>3. ASSUME Connect PROVE WrongRowsAreEchoed'
  BY <1>0, <1>3 DEF Connect, LoginFails, DelHost, ftpVars, dataVars, jobVars, historyVars, fileHistory,
     dataStepVars, IInv, WrongRowsAreEchoed, JobFits, GetSteps
<1>4. ASSUME NEW at \in DOMAIN LogonCommand, Logon(at) PROVE WrongRowsAreEchoed'
  BY <1>0, <1>4 DEF Logon, LoginFails, DelHost, LogonPoint, ftpVars, dataVars, jobVars,
     historyVars, fileHistory, dataStepVars, IInv, WrongRowsAreEchoed, JobFits, GetSteps
<1>5. ASSUME RepresentationType("typeA", "A", "portA") PROVE WrongRowsAreEchoed'
  BY <1>0, <1>5 DEF RepresentationType, Fails, Goes, ListFails, DelHost, ftpVars,
     dataVars, jobVars, historyVars, fileHistory, dataStepVars, IInv, WrongRowsAreEchoed, JobFits,
     GetSteps
<1>6. ASSUME Prepare("portA", "A", "PORT", Completion, "nlst") PROVE WrongRowsAreEchoed'
  BY <1>0, <1>6 DEF Prepare, Fails, Goes, ListFails, DelHost, ftpVars, dataVars, jobVars,
     historyVars, fileHistory, dataStepVars, IInv, WrongRowsAreEchoed, JobFits, GetSteps
<1>7. ASSUME DataCommand("nlst", "A", "NLST", "listing") PROVE WrongRowsAreEchoed'
  BY <1>0, <1>7 DEF DataCommand, Fails, Goes, ListFails, DelHost, ftpVars, dataVars,
     jobVars, historyVars, fileHistory, dataStepVars, IInv, WrongRowsAreEchoed, JobFits, GetSteps
<1>8. ASSUME ListData PROVE WrongRowsAreEchoed'
  BY <1>0, <1>8 DEF ListData, ftpVars, dataVars, jobVars, historyVars, fileHistory, dataStepVars, IInv,
     WrongRowsAreEchoed, JobFits, GetSteps
<1>9. ASSUME DataTimeout("listing", "A") PROVE WrongRowsAreEchoed'
  BY <1>0, <1>9 DEF DataTimeout, Fails, ListFails, DelHost, ftpVars, dataVars, jobVars,
     historyVars, fileHistory, dataStepVars, IInv, WrongRowsAreEchoed, JobFits, GetSteps
<1>10. ASSUME OnEndReceivingData("listingEnd", "listedEnd") PROVE WrongRowsAreEchoed'
  BY <1>0, <1>10 DEF OnEndReceivingData, OnReturnTrue, EndDownLoad, ftpVars, dataVars,
     jobVars, historyVars, fileHistory, dataStepVars, IInv, WrongRowsAreEchoed, JobFits, GetSteps
<1>11. ASSUME LastReply("listedEnd", "A", "listed") PROVE WrongRowsAreEchoed'
  BY <1>0, <1>11 DEF LastReply, Fails, Goes, ListFails, DelHost, ftpVars, dataVars,
     jobVars, historyVars, fileHistory, dataStepVars, IInv, WrongRowsAreEchoed, JobFits, GetSteps
<1>12. ASSUME TakeList PROVE WrongRowsAreEchoed'
  BY <1>0, <1>12 DEF TakeList, ListFails, DelHost, ftpVars, dataVars, jobVars,
     historyVars, fileHistory, dataStepVars, IInv, WrongRowsAreEchoed, JobFits, GetSteps
<1>13. ASSUME Quit("quitList", "idle") PROVE WrongRowsAreEchoed'
  BY <1>0, <1>13 DEF Quit, ftpVars, dataVars, jobVars, historyVars, fileHistory, dataStepVars, IInv,
     WrongRowsAreEchoed, JobFits, GetSteps
<1>14. ASSUME NoMoreFiles PROVE WrongRowsAreEchoed'
  BY <1>0, <1>14 DEF NoMoreFiles, ftpVars, dataVars, jobVars, historyVars, fileHistory, dataStepVars,
     IInv, WrongRowsAreEchoed, JobFits, GetSteps
<1>15. ASSUME StartDownLoad PROVE WrongRowsAreEchoed'
  BY <1>0, <1>15 DEF StartDownLoad, HasDownLoaded, First, ftpVars, dataVars, jobVars,
     historyVars, fileHistory, dataStepVars, IInv, WrongRowsAreEchoed, JobFits, GetSteps
<1>16. ASSUME DelItem PROVE WrongRowsAreEchoed'
  BY <1>0, <1>16 DEF DelItem, OldestRows, First, RowsWithout, ftpVars, dataVars, jobVars,
     historyVars, fileHistory, dataStepVars, IInv, WrongRowsAreEchoed, JobFits, GetSteps
<1>17. ASSUME OpenFile PROVE WrongRowsAreEchoed'
  BY <1>0, <1>17 DEF OpenFile, ftpVars, dataVars, jobVars, historyVars, fileHistory, dataStepVars,
     IInv, WrongRowsAreEchoed, JobFits, GetSteps
<1>18. ASSUME FileSize PROVE WrongRowsAreEchoed'
  BY <1>0, <1>18 DEF FileSize, DelHost, ftpVars, dataVars, jobVars, historyVars, fileHistory,
     dataStepVars, IInv, WrongRowsAreEchoed, JobFits, GetSteps
<1>19. ASSUME ReturnFalse PROVE WrongRowsAreEchoed'
  BY <1>0, <1>19 DEF ReturnFalse, RowsWithout, ftpVars, dataVars, jobVars, historyVars, fileHistory,
     dataStepVars, IInv, WrongRowsAreEchoed, JobFits, GetSteps
<1>20. ASSUME RepresentationType("typeI", "I", "portI") PROVE WrongRowsAreEchoed'
  BY <1>0, <1>20 DEF RepresentationType, Fails, Goes, GetFails, EndDownLoad, ftpVars,
     dataVars, jobVars, historyVars, fileHistory, dataStepVars, IInv, WrongRowsAreEchoed, JobFits,
     GetSteps
<1>21. ASSUME NEW there \in {"retr", "rest"}, Prepare("portI", "I", "PORT", Completion, there) PROVE WrongRowsAreEchoed'
  BY <1>0, <1>21 DEF Prepare, Fails, Goes, GetFails, EndDownLoad, ftpVars, dataVars,
     jobVars, historyVars, fileHistory, dataStepVars, IInv, WrongRowsAreEchoed, JobFits, GetSteps
<1>22. ASSUME Prepare("rest", "I", "REST", Intermediate, "retr") PROVE WrongRowsAreEchoed'
  BY <1>0, <1>22 DEF Prepare, Fails, Goes, GetFails, EndDownLoad, ftpVars, dataVars,
     jobVars, historyVars, fileHistory, dataStepVars, IInv, WrongRowsAreEchoed, JobFits, GetSteps
<1>23. ASSUME DataCommand("retr", "I", "RETR", "getting") PROVE WrongRowsAreEchoed'
  BY <1>0, <1>23 DEF DataCommand, Fails, Goes, GetFails, EndDownLoad, ftpVars, dataVars,
     jobVars, historyVars, fileHistory, dataStepVars, IInv, WrongRowsAreEchoed, JobFits, GetSteps
<1>24. ASSUME FileData PROVE WrongRowsAreEchoed'
  BY <1>0, <1>24 DEF FileData, SomeBytes, ftpVars, dataVars, jobVars, historyVars, fileHistory,
     dataStepVars, IInv, WrongRowsAreEchoed, JobFits, GetSteps
<1>25. ASSUME DataTimeout("getting", "I") PROVE WrongRowsAreEchoed'
  BY <1>0, <1>25 DEF DataTimeout, Fails, GetFails, EndDownLoad, SomeBytes, ftpVars,
     dataVars, jobVars, historyVars, fileHistory, dataStepVars, IInv, WrongRowsAreEchoed, JobFits,
     GetSteps
<1>26. ASSUME OnEndReceivingData("gettingEnd", "got") PROVE WrongRowsAreEchoed'
  BY <1>0, <1>26 DEF OnEndReceivingData, OnReturnTrue, EndDownLoad, ftpVars, dataVars,
     jobVars, historyVars, fileHistory, dataStepVars, IInv, WrongRowsAreEchoed, JobFits, GetSteps
<1>27. ASSUME LastReply("got", "I", "idle") PROVE WrongRowsAreEchoed'
  BY <1>0, <1>27 DEF LastReply, Fails, Goes, GetFails, EndDownLoad, ftpVars, dataVars,
     jobVars, historyVars, fileHistory, dataStepVars, IInv, WrongRowsAreEchoed, JobFits, GetSteps
<1>28. ASSUME NeverConnects PROVE WrongRowsAreEchoed'
  BY <1>0, <1>28 DEF NeverConnects, ftpVars, dataVars, jobVars, historyVars, fileHistory, dataStepVars,
     IInv, WrongRowsAreEchoed, JobFits, GetSteps
<1>29. ASSUME NEW h \in Hosts, UpdateHostInfo(h) PROVE WrongRowsAreEchoed'
  BY <1>0, <1>29 DEF UpdateHostInfo, ftpVars, dataVars, jobVars, historyVars, fileHistory,
     dataStepVars, IInv, WrongRowsAreEchoed, JobFits, GetSteps
<1>30. ASSUME Restart PROVE WrongRowsAreEchoed'
  BY <1>0, <1>30 DEF Restart, ftpVars, dataVars, jobVars, historyVars, fileHistory, dataStepVars, IInv,
     WrongRowsAreEchoed, JobFits, GetSteps
<1>31. ASSUME UNCHANGED vars PROVE WrongRowsAreEchoed'
  BY <1>0, <1>31 DEF vars, ftpVars, dataVars, jobVars, historyVars, fileHistory, dataStepVars, IInv,
     WrongRowsAreEchoed, JobFits, GetSteps
<1> QED
  BY <1>1, <1>2, <1>3, <1>4, <1>5, <1>6, <1>7, <1>8, <1>9, <1>10, <1>11, <1>12, <1>13,
     <1>14, <1>15, <1>16, <1>17, <1>18, <1>19, <1>20, <1>21, <1>22, <1>23, <1>24, <1>25,
     <1>26, <1>27, <1>28, <1>29, <1>30, <1>31 DEF Next, Worker, GetFileList, DownLoad

\* A row is made of a file received, and a file is removed only with its row.
LEMMA NextRecorded ==
    ASSUME IInv, [Next]_vars
    PROVE  RecordedFilesAreWhole'
<1>0. TypeOK
  BY DEF IInv
<1>1. ASSUME GetReadyHostInfo PROVE RecordedFilesAreWhole'
  BY <1>0, <1>1 DEF GetReadyHostInfo, First, ftpVars, dataVars, jobVars, historyVars, fileHistory,
     dataStepVars, IInv, TypeOK, RecordedFilesAreWhole, ReceivedFilesAreWhole, JobFits,
     GetSteps, Row, Files
<1>2. ASSUME Quit("quit", "connect") PROVE RecordedFilesAreWhole'
  BY <1>0, <1>2 DEF Quit, ftpVars, dataVars, jobVars, historyVars, fileHistory, dataStepVars, IInv,
     TypeOK, RecordedFilesAreWhole, ReceivedFilesAreWhole, JobFits, GetSteps, Row, Files
<1>3. ASSUME Connect PROVE RecordedFilesAreWhole'
  BY <1>0, <1>3 DEF Connect, LoginFails, DelHost, ftpVars, dataVars, jobVars, historyVars, fileHistory,
     dataStepVars, IInv, TypeOK, RecordedFilesAreWhole, ReceivedFilesAreWhole, JobFits,
     GetSteps, Row, Files
<1>4. ASSUME NEW at \in DOMAIN LogonCommand, Logon(at) PROVE RecordedFilesAreWhole'
  BY <1>0, <1>4 DEF Logon, LoginFails, DelHost, LogonPoint, ftpVars, dataVars, jobVars,
     historyVars, fileHistory, dataStepVars, IInv, TypeOK, RecordedFilesAreWhole,
     ReceivedFilesAreWhole, JobFits, GetSteps, Row, Files
<1>5. ASSUME RepresentationType("typeA", "A", "portA") PROVE RecordedFilesAreWhole'
  BY <1>0, <1>5 DEF RepresentationType, Fails, Goes, ListFails, DelHost, ftpVars,
     dataVars, jobVars, historyVars, fileHistory, dataStepVars, IInv, TypeOK, RecordedFilesAreWhole,
     ReceivedFilesAreWhole, JobFits, GetSteps, Row, Files
<1>6. ASSUME Prepare("portA", "A", "PORT", Completion, "nlst") PROVE RecordedFilesAreWhole'
  BY <1>0, <1>6 DEF Prepare, Fails, Goes, ListFails, DelHost, ftpVars, dataVars, jobVars,
     historyVars, fileHistory, dataStepVars, IInv, TypeOK, RecordedFilesAreWhole,
     ReceivedFilesAreWhole, JobFits, GetSteps, Row, Files
<1>7. ASSUME DataCommand("nlst", "A", "NLST", "listing") PROVE RecordedFilesAreWhole'
  BY <1>0, <1>7 DEF DataCommand, Fails, Goes, ListFails, DelHost, ftpVars, dataVars,
     jobVars, historyVars, fileHistory, dataStepVars, IInv, TypeOK, RecordedFilesAreWhole,
     ReceivedFilesAreWhole, JobFits, GetSteps, Row, Files
<1>8. ASSUME ListData PROVE RecordedFilesAreWhole'
  BY <1>0, <1>8 DEF ListData, ftpVars, dataVars, jobVars, historyVars, fileHistory, dataStepVars, IInv,
     TypeOK, RecordedFilesAreWhole, ReceivedFilesAreWhole, JobFits, GetSteps, Row, Files
<1>9. ASSUME DataTimeout("listing", "A") PROVE RecordedFilesAreWhole'
  BY <1>0, <1>9 DEF DataTimeout, Fails, ListFails, DelHost, ftpVars, dataVars, jobVars,
     historyVars, fileHistory, dataStepVars, IInv, TypeOK, RecordedFilesAreWhole,
     ReceivedFilesAreWhole, JobFits, GetSteps, Row, Files
<1>10. ASSUME OnEndReceivingData("listingEnd", "listedEnd") PROVE RecordedFilesAreWhole'
  BY <1>0, <1>10 DEF OnEndReceivingData, OnReturnTrue, EndDownLoad, ftpVars, dataVars,
     jobVars, historyVars, fileHistory, dataStepVars, IInv, TypeOK, RecordedFilesAreWhole,
     ReceivedFilesAreWhole, JobFits, GetSteps, Row, Files
<1>11. ASSUME LastReply("listedEnd", "A", "listed") PROVE RecordedFilesAreWhole'
  BY <1>0, <1>11 DEF LastReply, Fails, Goes, ListFails, DelHost, ftpVars, dataVars,
     jobVars, historyVars, fileHistory, dataStepVars, IInv, TypeOK, RecordedFilesAreWhole,
     ReceivedFilesAreWhole, JobFits, GetSteps, Row, Files
<1>12. ASSUME TakeList PROVE RecordedFilesAreWhole'
  BY <1>0, <1>12 DEF TakeList, ListFails, DelHost, ftpVars, dataVars, jobVars,
     historyVars, fileHistory, dataStepVars, IInv, TypeOK, RecordedFilesAreWhole,
     ReceivedFilesAreWhole, JobFits, GetSteps, Row, Files
<1>13. ASSUME Quit("quitList", "idle") PROVE RecordedFilesAreWhole'
  BY <1>0, <1>13 DEF Quit, ftpVars, dataVars, jobVars, historyVars, fileHistory, dataStepVars, IInv,
     TypeOK, RecordedFilesAreWhole, ReceivedFilesAreWhole, JobFits, GetSteps, Row, Files
<1>14. ASSUME NoMoreFiles PROVE RecordedFilesAreWhole'
  BY <1>0, <1>14 DEF NoMoreFiles, ftpVars, dataVars, jobVars, historyVars, fileHistory, dataStepVars,
     IInv, TypeOK, RecordedFilesAreWhole, ReceivedFilesAreWhole, JobFits, GetSteps, Row,
     Files
<1>15. ASSUME StartDownLoad PROVE RecordedFilesAreWhole'
  BY <1>0, <1>15 DEF StartDownLoad, HasDownLoaded, First, ftpVars, dataVars, jobVars,
     historyVars, fileHistory, dataStepVars, IInv, TypeOK, RecordedFilesAreWhole,
     ReceivedFilesAreWhole, JobFits, GetSteps, Row, Files
<1>16. ASSUME DelItem PROVE RecordedFilesAreWhole'
  <2>1. PICK f \in Files :
            /\ rows' = RowsWithout(f)
            /\ \A g \in Files : disk[g] = "whole" => disk'[g] = "whole" \/ g = f
    BY <1>0, <1>16, DelItemFacts
  <2>2. UNCHANGED <<cut, echoed, removed>>
    BY <1>16 DEF DelItem
  <2> QED
    BY <1>0, <2>1, <2>2 DEF RowsWithout, IInv, RecordedFilesAreWhole, TypeOK, Row
<1>17. ASSUME OpenFile PROVE RecordedFilesAreWhole'
  BY <1>0, <1>17 DEF OpenFile, ftpVars, dataVars, jobVars, historyVars, fileHistory, dataStepVars,
     IInv, TypeOK, RecordedFilesAreWhole, ReceivedFilesAreWhole, JobFits, GetSteps, Row,
     Files
<1>18. ASSUME FileSize PROVE RecordedFilesAreWhole'
  BY <1>0, <1>18 DEF FileSize, DelHost, ftpVars, dataVars, jobVars, historyVars, fileHistory,
     dataStepVars, IInv, TypeOK, RecordedFilesAreWhole, ReceivedFilesAreWhole, JobFits,
     GetSteps, Row, Files
<1>19. ASSUME ReturnFalse PROVE RecordedFilesAreWhole'
  BY <1>0, <1>19 DEF ReturnFalse, RowsWithout, ftpVars, dataVars, jobVars, historyVars, fileHistory,
     dataStepVars, IInv, TypeOK, RecordedFilesAreWhole, ReceivedFilesAreWhole, JobFits,
     GetSteps, Row, Files
<1>20. ASSUME RepresentationType("typeI", "I", "portI") PROVE RecordedFilesAreWhole'
  BY <1>0, <1>20 DEF RepresentationType, Fails, Goes, GetFails, EndDownLoad, ftpVars,
     dataVars, jobVars, historyVars, fileHistory, dataStepVars, IInv, TypeOK, RecordedFilesAreWhole,
     ReceivedFilesAreWhole, JobFits, GetSteps, Row, Files
<1>21. ASSUME NEW there \in {"retr", "rest"}, Prepare("portI", "I", "PORT", Completion, there) PROVE RecordedFilesAreWhole'
  BY <1>0, <1>21 DEF Prepare, Fails, Goes, GetFails, EndDownLoad, ftpVars, dataVars,
     jobVars, historyVars, fileHistory, dataStepVars, IInv, TypeOK, RecordedFilesAreWhole,
     ReceivedFilesAreWhole, JobFits, GetSteps, Row, Files
<1>22. ASSUME Prepare("rest", "I", "REST", Intermediate, "retr") PROVE RecordedFilesAreWhole'
  BY <1>0, <1>22 DEF Prepare, Fails, Goes, GetFails, EndDownLoad, ftpVars, dataVars,
     jobVars, historyVars, fileHistory, dataStepVars, IInv, TypeOK, RecordedFilesAreWhole,
     ReceivedFilesAreWhole, JobFits, GetSteps, Row, Files
<1>23. ASSUME DataCommand("retr", "I", "RETR", "getting") PROVE RecordedFilesAreWhole'
  BY <1>0, <1>23 DEF DataCommand, Fails, Goes, GetFails, EndDownLoad, ftpVars, dataVars,
     jobVars, historyVars, fileHistory, dataStepVars, IInv, TypeOK, RecordedFilesAreWhole,
     ReceivedFilesAreWhole, JobFits, GetSteps, Row, Files
<1>24. ASSUME FileData PROVE RecordedFilesAreWhole'
  BY <1>0, <1>24 DEF FileData, SomeBytes, ftpVars, dataVars, jobVars, historyVars, fileHistory,
     dataStepVars, IInv, TypeOK, RecordedFilesAreWhole, ReceivedFilesAreWhole, JobFits,
     GetSteps, Row, Files
<1>25. ASSUME DataTimeout("getting", "I") PROVE RecordedFilesAreWhole'
  <2>1. LeftAtSomeByte(remote) /\ remote \in Files /\ UNCHANGED <<rows, cut, echoed, removed>>
    BY <1>25 DEF DataTimeout, IInv, JobFits, GetSteps
  <2> QED
    BY <1>0, <2>1, LeftFacts DEF IInv, RecordedFilesAreWhole, TypeOK, Row
<1>26. ASSUME OnEndReceivingData("gettingEnd", "got") PROVE RecordedFilesAreWhole'
  BY <1>0, <1>26 DEF OnEndReceivingData, OnReturnTrue, EndDownLoad, ftpVars, dataVars,
     jobVars, historyVars, fileHistory, dataStepVars, IInv, TypeOK, RecordedFilesAreWhole,
     ReceivedFilesAreWhole, JobFits, GetSteps, Row, Files
<1>27. ASSUME LastReply("got", "I", "idle") PROVE RecordedFilesAreWhole'
  BY <1>0, <1>27 DEF LastReply, Fails, Goes, GetFails, EndDownLoad, ftpVars, dataVars,
     jobVars, historyVars, fileHistory, dataStepVars, IInv, TypeOK, RecordedFilesAreWhole,
     ReceivedFilesAreWhole, JobFits, GetSteps, Row, Files
<1>28. ASSUME NeverConnects PROVE RecordedFilesAreWhole'
  BY <1>0, <1>28 DEF NeverConnects, ftpVars, dataVars, jobVars, historyVars, fileHistory, dataStepVars,
     IInv, TypeOK, RecordedFilesAreWhole, ReceivedFilesAreWhole, JobFits, GetSteps, Row,
     Files
<1>29. ASSUME NEW h \in Hosts, UpdateHostInfo(h) PROVE RecordedFilesAreWhole'
  BY <1>0, <1>29 DEF UpdateHostInfo, ftpVars, dataVars, jobVars, historyVars, fileHistory,
     dataStepVars, IInv, TypeOK, RecordedFilesAreWhole, ReceivedFilesAreWhole, JobFits,
     GetSteps, Row, Files
<1>30. ASSUME Restart PROVE RecordedFilesAreWhole'
  <2>1. StopsHere /\ UNCHANGED <<rows, cut, echoed>>
    BY <1>30 DEF Restart
  <2> QED
    BY <1>0, <2>1, StopsFacts DEF IInv, RecordedFilesAreWhole, TypeOK, Row
<1>31. ASSUME UNCHANGED vars PROVE RecordedFilesAreWhole'
  BY <1>0, <1>31 DEF vars, ftpVars, dataVars, jobVars, historyVars, fileHistory, dataStepVars, IInv,
     TypeOK, RecordedFilesAreWhole, ReceivedFilesAreWhole, JobFits, GetSteps, Row, Files
<1> QED
  BY <1>1, <1>2, <1>3, <1>4, <1>5, <1>6, <1>7, <1>8, <1>9, <1>10, <1>11, <1>12, <1>13,
     <1>14, <1>15, <1>16, <1>17, <1>18, <1>19, <1>20, <1>21, <1>22, <1>23, <1>24, <1>25,
     <1>26, <1>27, <1>28, <1>29, <1>30, <1>31 DEF Next, Worker, GetFileList, DownLoad

\* A file gets its own recorder's row when it is whole, and keeps it.
LEMMA NextDeletable ==
    ASSUME IInv, [Next]_vars
    PROVE  WholeFilesCanBeDeleted'
<1>0. TypeOK
  BY DEF IInv
<1>1. ASSUME GetReadyHostInfo PROVE WholeFilesCanBeDeleted'
  BY <1>0, <1>1 DEF GetReadyHostInfo, First, ftpVars, dataVars, jobVars, historyVars, fileHistory,
     dataStepVars, IInv, TypeOK, WholeFilesCanBeDeleted, WrongRowsAreEchoed,
     NotYetRecorded, ObserverIsThere, JobFits, GetSteps, Row, Files
<1>2. ASSUME Quit("quit", "connect") PROVE WholeFilesCanBeDeleted'
  BY <1>0, <1>2 DEF Quit, ftpVars, dataVars, jobVars, historyVars, fileHistory, dataStepVars, IInv,
     TypeOK, WholeFilesCanBeDeleted, WrongRowsAreEchoed, NotYetRecorded, ObserverIsThere,
     JobFits, GetSteps, Row, Files
<1>3. ASSUME Connect PROVE WholeFilesCanBeDeleted'
  BY <1>0, <1>3 DEF Connect, LoginFails, DelHost, ftpVars, dataVars, jobVars, historyVars, fileHistory,
     dataStepVars, IInv, TypeOK, WholeFilesCanBeDeleted, WrongRowsAreEchoed,
     NotYetRecorded, ObserverIsThere, JobFits, GetSteps, Row, Files
<1>4. ASSUME NEW at \in DOMAIN LogonCommand, Logon(at) PROVE WholeFilesCanBeDeleted'
  <2>1. at \in {"greet", "user", "pass", "acct", "cwd"}
    BY DEF LogonCommand
  <2>2. step # "gettingEnd" /\ UNCHANGED <<disk, rows, echoed, orphaned>>
    BY <2>1, <1>4 DEF Logon, dataVars, fileHistory
  <2> QED
    BY <2>2 DEF IInv, WholeFilesCanBeDeleted
<1>5. ASSUME RepresentationType("typeA", "A", "portA") PROVE WholeFilesCanBeDeleted'
  BY <1>0, <1>5 DEF RepresentationType, Fails, Goes, ListFails, DelHost, ftpVars,
     dataVars, jobVars, historyVars, fileHistory, dataStepVars, IInv, TypeOK, WholeFilesCanBeDeleted,
     WrongRowsAreEchoed, NotYetRecorded, ObserverIsThere, JobFits, GetSteps, Row, Files
<1>6. ASSUME Prepare("portA", "A", "PORT", Completion, "nlst") PROVE WholeFilesCanBeDeleted'
  BY <1>0, <1>6 DEF Prepare, Fails, Goes, ListFails, DelHost, ftpVars, dataVars, jobVars,
     historyVars, fileHistory, dataStepVars, IInv, TypeOK, WholeFilesCanBeDeleted, WrongRowsAreEchoed,
     NotYetRecorded, ObserverIsThere, JobFits, GetSteps, Row, Files
<1>7. ASSUME DataCommand("nlst", "A", "NLST", "listing") PROVE WholeFilesCanBeDeleted'
  BY <1>0, <1>7 DEF DataCommand, Fails, Goes, ListFails, DelHost, ftpVars, dataVars,
     jobVars, historyVars, fileHistory, dataStepVars, IInv, TypeOK, WholeFilesCanBeDeleted,
     WrongRowsAreEchoed, NotYetRecorded, ObserverIsThere, JobFits, GetSteps, Row, Files
<1>8. ASSUME ListData PROVE WholeFilesCanBeDeleted'
  BY <1>0, <1>8 DEF ListData, ftpVars, dataVars, jobVars, historyVars, fileHistory, dataStepVars, IInv,
     TypeOK, WholeFilesCanBeDeleted, WrongRowsAreEchoed, NotYetRecorded, ObserverIsThere,
     JobFits, GetSteps, Row, Files
<1>9. ASSUME DataTimeout("listing", "A") PROVE WholeFilesCanBeDeleted'
  BY <1>0, <1>9 DEF DataTimeout, Fails, ListFails, DelHost, ftpVars, dataVars, jobVars,
     historyVars, fileHistory, dataStepVars, IInv, TypeOK, WholeFilesCanBeDeleted, WrongRowsAreEchoed,
     NotYetRecorded, ObserverIsThere, JobFits, GetSteps, Row, Files
<1>10. ASSUME OnEndReceivingData("listingEnd", "listedEnd") PROVE WholeFilesCanBeDeleted'
  BY <1>0, <1>10 DEF OnEndReceivingData, OnReturnTrue, EndDownLoad, ftpVars, dataVars,
     jobVars, historyVars, fileHistory, dataStepVars, IInv, TypeOK, WholeFilesCanBeDeleted,
     WrongRowsAreEchoed, NotYetRecorded, ObserverIsThere, JobFits, GetSteps, Row, Files
<1>11. ASSUME LastReply("listedEnd", "A", "listed") PROVE WholeFilesCanBeDeleted'
  BY <1>0, <1>11 DEF LastReply, Fails, Goes, ListFails, DelHost, ftpVars, dataVars,
     jobVars, historyVars, fileHistory, dataStepVars, IInv, TypeOK, WholeFilesCanBeDeleted,
     WrongRowsAreEchoed, NotYetRecorded, ObserverIsThere, JobFits, GetSteps, Row, Files
<1>12. ASSUME TakeList PROVE WholeFilesCanBeDeleted'
  BY <1>0, <1>12 DEF TakeList, ListFails, DelHost, ftpVars, dataVars, jobVars,
     historyVars, fileHistory, dataStepVars, IInv, TypeOK, WholeFilesCanBeDeleted, WrongRowsAreEchoed,
     NotYetRecorded, ObserverIsThere, JobFits, GetSteps, Row, Files
<1>13. ASSUME Quit("quitList", "idle") PROVE WholeFilesCanBeDeleted'
  BY <1>0, <1>13 DEF Quit, ftpVars, dataVars, jobVars, historyVars, fileHistory, dataStepVars, IInv,
     TypeOK, WholeFilesCanBeDeleted, WrongRowsAreEchoed, NotYetRecorded, ObserverIsThere,
     JobFits, GetSteps, Row, Files
<1>14. ASSUME NoMoreFiles PROVE WholeFilesCanBeDeleted'
  BY <1>0, <1>14 DEF NoMoreFiles, ftpVars, dataVars, jobVars, historyVars, fileHistory, dataStepVars,
     IInv, TypeOK, WholeFilesCanBeDeleted, WrongRowsAreEchoed, NotYetRecorded,
     ObserverIsThere, JobFits, GetSteps, Row, Files
<1>15. ASSUME StartDownLoad PROVE WholeFilesCanBeDeleted'
  BY <1>0, <1>15 DEF StartDownLoad, HasDownLoaded, First, ftpVars, dataVars, jobVars,
     historyVars, fileHistory, dataStepVars, IInv, TypeOK, WholeFilesCanBeDeleted, WrongRowsAreEchoed,
     NotYetRecorded, ObserverIsThere, JobFits, GetSteps, Row, Files
<1>16. ASSUME DelItem PROVE WholeFilesCanBeDeleted'
  <2>1. PICK f \in Files :
            /\ rows' = RowsWithout(f)
            /\ orphaned \subseteq orphaned'
            /\ \A g \in Files : disk'[g] = "whole" => disk[g] = "whole"
            /\ disk'[f] = "whole" => f \in orphaned'
    BY <1>0, <1>16, DelItemFacts
  <2>2. step = "space" /\ UNCHANGED <<step, remote, echoed>>
    BY <1>16 DEF DelItem, jobVars
  <2> QED
    BY <2>1, <2>2 DEF RowsWithout, IInv, WholeFilesCanBeDeleted
<1>17. ASSUME OpenFile PROVE WholeFilesCanBeDeleted'
  BY <1>0, <1>17 DEF OpenFile, ftpVars, dataVars, jobVars, historyVars, fileHistory, dataStepVars,
     IInv, TypeOK, WholeFilesCanBeDeleted, WrongRowsAreEchoed, NotYetRecorded,
     ObserverIsThere, JobFits, GetSteps, Row, Files
<1>18. ASSUME FileSize PROVE WholeFilesCanBeDeleted'
  BY <1>0, <1>18 DEF FileSize, DelHost, ftpVars, dataVars, jobVars, historyVars, fileHistory,
     dataStepVars, IInv, TypeOK, WholeFilesCanBeDeleted, WrongRowsAreEchoed,
     NotYetRecorded, ObserverIsThere, JobFits, GetSteps, Row, Files
<1>19. ASSUME ReturnFalse PROVE WholeFilesCanBeDeleted'
  BY <1>0, <1>19 DEF ReturnFalse, RowsWithout, ftpVars, dataVars, jobVars, historyVars, fileHistory,
     dataStepVars, IInv, TypeOK, WholeFilesCanBeDeleted, WrongRowsAreEchoed,
     NotYetRecorded, ObserverIsThere, JobFits, GetSteps, Row, Files
<1>20. ASSUME RepresentationType("typeI", "I", "portI") PROVE WholeFilesCanBeDeleted'
  BY <1>0, <1>20 DEF RepresentationType, Fails, Goes, GetFails, EndDownLoad, ftpVars,
     dataVars, jobVars, historyVars, fileHistory, dataStepVars, IInv, TypeOK, WholeFilesCanBeDeleted,
     WrongRowsAreEchoed, NotYetRecorded, ObserverIsThere, JobFits, GetSteps, Row, Files
<1>21. ASSUME NEW there \in {"retr", "rest"}, Prepare("portI", "I", "PORT", Completion, there) PROVE WholeFilesCanBeDeleted'
  BY <1>0, <1>21 DEF Prepare, Fails, Goes, GetFails, EndDownLoad, ftpVars, dataVars,
     jobVars, historyVars, fileHistory, dataStepVars, IInv, TypeOK, WholeFilesCanBeDeleted,
     WrongRowsAreEchoed, NotYetRecorded, ObserverIsThere, JobFits, GetSteps, Row, Files
<1>22. ASSUME Prepare("rest", "I", "REST", Intermediate, "retr") PROVE WholeFilesCanBeDeleted'
  BY <1>0, <1>22 DEF Prepare, Fails, Goes, GetFails, EndDownLoad, ftpVars, dataVars,
     jobVars, historyVars, fileHistory, dataStepVars, IInv, TypeOK, WholeFilesCanBeDeleted,
     WrongRowsAreEchoed, NotYetRecorded, ObserverIsThere, JobFits, GetSteps, Row, Files
<1>23. ASSUME DataCommand("retr", "I", "RETR", "getting") PROVE WholeFilesCanBeDeleted'
  BY <1>0, <1>23 DEF DataCommand, Fails, Goes, GetFails, EndDownLoad, ftpVars, dataVars,
     jobVars, historyVars, fileHistory, dataStepVars, IInv, TypeOK, WholeFilesCanBeDeleted,
     WrongRowsAreEchoed, NotYetRecorded, ObserverIsThere, JobFits, GetSteps, Row, Files
<1>24. ASSUME FileData PROVE WholeFilesCanBeDeleted'
  BY <1>0, <1>24 DEF FileData, SomeBytes, ftpVars, dataVars, jobVars, historyVars, fileHistory,
     dataStepVars, IInv, TypeOK, WholeFilesCanBeDeleted, WrongRowsAreEchoed,
     NotYetRecorded, ObserverIsThere, JobFits, GetSteps, Row, Files
<1>25. ASSUME DataTimeout("getting", "I") PROVE WholeFilesCanBeDeleted'
  <2>1. LeftAtSomeByte(remote) /\ remote \in Files /\ UNCHANGED <<rows, echoed>> /\ step = "getting"
    BY <1>25 DEF DataTimeout, IInv, JobFits, GetSteps
  <2> QED
    BY <1>0, <2>1, LeftFacts DEF IInv, WholeFilesCanBeDeleted
<1>26. ASSUME OnEndReceivingData("gettingEnd", "got") PROVE WholeFilesCanBeDeleted'
  BY <1>0, <1>26 DEF OnEndReceivingData, OnReturnTrue, EndDownLoad, ftpVars, dataVars,
     jobVars, historyVars, fileHistory, dataStepVars, IInv, TypeOK, WholeFilesCanBeDeleted,
     WrongRowsAreEchoed, NotYetRecorded, ObserverIsThere, JobFits, GetSteps, Row, Files
<1>27. ASSUME LastReply("got", "I", "idle") PROVE WholeFilesCanBeDeleted'
  BY <1>0, <1>27 DEF LastReply, Fails, Goes, GetFails, EndDownLoad, ftpVars, dataVars,
     jobVars, historyVars, fileHistory, dataStepVars, IInv, TypeOK, WholeFilesCanBeDeleted,
     WrongRowsAreEchoed, NotYetRecorded, ObserverIsThere, JobFits, GetSteps, Row, Files
<1>28. ASSUME NeverConnects PROVE WholeFilesCanBeDeleted'
  BY <1>0, <1>28 DEF NeverConnects, ftpVars, dataVars, jobVars, historyVars, fileHistory, dataStepVars,
     IInv, TypeOK, WholeFilesCanBeDeleted, WrongRowsAreEchoed, NotYetRecorded,
     ObserverIsThere, JobFits, GetSteps, Row, Files
<1>29. ASSUME NEW h \in Hosts, UpdateHostInfo(h) PROVE WholeFilesCanBeDeleted'
  BY <1>0, <1>29 DEF UpdateHostInfo, ftpVars, dataVars, jobVars, historyVars, fileHistory,
     dataStepVars, IInv, TypeOK, WholeFilesCanBeDeleted, WrongRowsAreEchoed,
     NotYetRecorded, ObserverIsThere, JobFits, GetSteps, Row, Files
<1>30. ASSUME Restart PROVE WholeFilesCanBeDeleted'
  <2>1. StopsHere /\ UNCHANGED <<rows, echoed>>
    BY <1>30 DEF Restart
  <2> QED
    BY <2>1, StopsFacts DEF IInv, WholeFilesCanBeDeleted
<1>31. ASSUME UNCHANGED vars PROVE WholeFilesCanBeDeleted'
  BY <1>0, <1>31 DEF vars, ftpVars, dataVars, jobVars, historyVars, fileHistory, dataStepVars, IInv,
     TypeOK, WholeFilesCanBeDeleted, WrongRowsAreEchoed, NotYetRecorded, ObserverIsThere,
     JobFits, GetSteps, Row, Files
<1> QED
  BY <1>1, <1>2, <1>3, <1>4, <1>5, <1>6, <1>7, <1>8, <1>9, <1>10, <1>11, <1>12, <1>13,
     <1>14, <1>15, <1>16, <1>17, <1>18, <1>19, <1>20, <1>21, <1>22, <1>23, <1>24, <1>25,
     <1>26, <1>27, <1>28, <1>29, <1>30, <1>31 DEF Next, Worker, GetFileList, DownLoad

-------------------------------------------------------------------------------

(***************************************************************************)
(* The theorems.                                                           *)
(***************************************************************************)

LEMMA InitIInv == Init => IInv
<1> SUFFICES ASSUME Init PROVE IInv
  OBVIOUS
<1>1. NewClient \in Connection
  BY EmptyIsSeq DEF NewClient, Connection
<1>2. TypeOK
  <2>1. /\ callback \in BOOLEAN /\ attached \in BOOLEAN /\ strayed \in BOOLEAN /\ onHost \in BOOLEAN
        /\ heard \in [asked : Commands \cup {"none"}, to : Commands \cup {"none"}]
    BY DEF Init
  <2> QED
    BY <1>1, <2>1, SyncAssumption DEF Init, TypeOK, Steps
<1>3. RepliesAreExpected
  BY DEF Init, RepliesAreExpected, RepliesAnswerTheirCommand, Quiet, NewClient
<1>4. JobFits /\ NotYetRecorded /\ ObserverIsThere /\ ReceivedFilesAreWhole /\ WrongRowsAreEchoed
  BY DEF Init, JobFits, GetSteps, NotYetRecorded, ObserverIsThere, ReceivedFilesAreWhole, WrongRowsAreEchoed
<1>5. RecordedFilesAreWhole /\ WholeFilesCanBeDeleted
  BY DEF Init, RecordedFilesAreWhole, WholeFilesCanBeDeleted
<1> QED
  BY <1>2, <1>3, <1>4, <1>5 DEF IInv

\* No step violates it.
LEMMA NextIInv == IInv /\ [Next]_vars => IInv'
<1> SUFFICES ASSUME IInv, [Next]_vars PROVE IInv'
  OBVIOUS
<1> QED
  BY NextTypes, NextReplies, NextJob, NextUnrecorded, NextObserver, NextReceived, NextWrong,
     NextRecorded, NextDeletable DEF IInv

\* The inductive invariant holds in every behaviour.
LEMMA Inductive == Spec => []IInv
<1>1. Init => IInv
  BY InitIInv
<1>2. IInv /\ [Next]_vars => IInv'
  BY NextIInv
<1> QED
  BY <1>1, <1>2, PTL DEF Spec

\* The variables of the service keep their types, whatever servers answer and whenever it
\* is restarted.
THEOREM TypeCorrect == Spec => []TypeOK
<1>1. IInv => TypeOK
  BY DEF IInv
<1> QED
  BY <1>1, Inductive, PTL

\* As long as no transfer has been left before its last reply and no connection has begun
\* with the lines of an older one, GetResponse returns the reply to the command it follows.
THEOREM RepliesInStep == Spec => []RepliesAreInStep
<1>1. IInv => RepliesAreInStep
  BY DEF IInv, RepliesAreExpected, RepliesAreInStep
<1> QED
  BY <1>1, Inductive, PTL

\* A row of FileInfo stands for a whole file, but for the two exceptions the code makes:
\* the server broke off, or OnEndReceivingData came at the end of a listing.
THEOREM RecordedAreWhole == Spec => []RecordedFilesAreWhole
<1>1. IInv => RecordedFilesAreWhole
  BY DEF IInv
<1> QED
  BY <1>1, Inductive, PTL

\* Every whole file on the disk is one PrepareSpace can find and remove, but for the files
\* a listing's end has recorded or a stop of the service has left without a row.
THEOREM WholeAreDeletable == Spec => []WholeFilesCanBeDeleted
<1>1. IInv => WholeFilesCanBeDeleted
  BY DEF IInv
<1> QED
  BY <1>1, Inductive, PTL

-------------------------------------------------------------------------------

(***************************************************************************)
(* The worker's turn.  Where the worker can wait for more work, for space, *)
(* or for a data connection that never comes, the turn is over; everywhere *)
(* else one exchange brings it nearer to its end.                          *)
(***************************************************************************)

Halts == {"idle", "space", "deaf"}

\* How many exchanges are left at most.
Rank(s) ==
    CASE s \in {"got", "quitList"} -> 1
      [] s \in {"gettingEnd", "listed"} -> 2
      [] s \in {"getting", "listedEnd"} -> 3
      [] s \in {"retr", "listingEnd"} -> 4
      [] s \in {"rest", "listing"} -> 5
      [] s \in {"portI", "nlst"} -> 6
      [] s \in {"typeI", "portA"} -> 7
      [] s \in {"quitSize", "typeA"} -> 8
      [] s \in {"size", "cwd"} -> 9
      [] s = "acct" -> 10
      [] s = "pass" -> 11
      [] s = "user" -> 12
      [] s = "greet" -> 13
      [] s = "connect" -> 14
      [] s = "quit" -> 15
      [] OTHER -> 0

\* No answer, time-out or failure sends the worker back within its turn.
LEMMA TurnGetsOn ==
    ASSUME step \notin Halts, Worker
    PROVE  Rank(step') < Rank(step)
<1>1. ASSUME GetFileList PROVE Rank(step') < Rank(step)
  <2>1. ASSUME NEW at \in DOMAIN LogonCommand, Logon(at) PROVE Rank(step') < Rank(step)
    <3>1. PICK class : IF LogonPoint(at, class) = "failed" THEN LoginFails
                       ELSE step' = LogonPoint(at, class)
      BY <2>1 DEF Logon
    <3>2. step = at
      BY <2>1 DEF Logon
    <3>3. at \in {"greet", "user", "pass", "acct", "cwd"}
      BY DEF LogonCommand
    <3> QED
      BY <3>1, <3>2, <3>3 DEF LogonPoint, LoginFails, Rank
  <2>2. ASSUME Connect PROVE Rank(step') < Rank(step)
    <3>1. step = "connect" /\ step' \in {"greet", "idle"}
      BY <2>2 DEF Connect, LoginFails
    <3> QED
      BY <3>1 DEF Rank
  <2>3. ASSUME RepresentationType("typeA", "A", "portA") PROVE Rank(step') < Rank(step)
    <3>1. step = "typeA" /\ step' \in {"portA", "quitList"}
      BY <2>3 DEF RepresentationType, Fails, Goes, ListFails
    <3> QED
      BY <3>1 DEF Rank
  <2>4. ASSUME Prepare("portA", "A", "PORT", Completion, "nlst") PROVE Rank(step') < Rank(step)
    <3>1. step = "portA" /\ step' \in {"nlst", "quitList"}
      BY <2>4 DEF Prepare, Fails, Goes, ListFails
    <3> QED
      BY <3>1 DEF Rank
  <2>5. ASSUME DataCommand("nlst", "A", "NLST", "listing") PROVE Rank(step') < Rank(step)
    <3>1. step = "nlst" /\ step' \in {"listing", "quitList"}
      BY <2>5 DEF DataCommand, Fails, Goes, ListFails
    <3> QED
      BY <3>1 DEF Rank
  <2>6. ASSUME LastReply("listedEnd", "A", "listed") PROVE Rank(step') < Rank(step)
    <3>1. step = "listedEnd" /\ step' \in {"listed", "quitList"}
      BY <2>6 DEF LastReply, Fails, Goes, ListFails
    <3> QED
      BY <3>1 DEF Rank
  <2>7. ASSUME DataTimeout("listing", "A") PROVE Rank(step') < Rank(step)
    <3>1. step = "listing" /\ step' = "quitList"
      BY <2>7 DEF DataTimeout, Fails, ListFails
    <3> QED
      BY <3>1 DEF Rank
  <2>8. ASSUME \/ Quit("quit", "connect") \/ Quit("quitList", "idle") \/ ListData \/ TakeList
               \/ OnEndReceivingData("listingEnd", "listedEnd")
        PROVE  Rank(step') < Rank(step)
    <3>1. <<step, step'>> \in {<<"quit", "connect">>, <<"quitList", "idle">>, <<"listing", "listingEnd">>,
                              <<"listed", "quitList">>, <<"listed", "idle">>, <<"listingEnd", "listedEnd">>}
      BY <2>8 DEF Quit, ListData, TakeList, OnEndReceivingData, ListFails
    <3> QED
      BY <3>1 DEF Rank
  <2> QED
    BY <1>1, <2>1, <2>2, <2>3, <2>4, <2>5, <2>6, <2>7, <2>8 DEF GetFileList, GetReadyHostInfo, Halts
<1>2. ASSUME DownLoad PROVE Rank(step') < Rank(step)
  <2>1. ASSUME FileSize PROVE Rank(step') < Rank(step)
    <3>1. step = "size" /\ step' \in {"quitSize", "typeI"}
      BY <2>1 DEF FileSize
    <3> QED
      BY <3>1 DEF Rank
  <2>2. ASSUME RepresentationType("typeI", "I", "portI") PROVE Rank(step') < Rank(step)
    <3>1. step = "typeI" /\ step' \in {"portI", "idle"}
      BY <2>2 DEF RepresentationType, Fails, Goes, GetFails
    <3> QED
      BY <3>1 DEF Rank
  <2>3. ASSUME NEW there \in {"retr", "rest"}, Prepare("portI", "I", "PORT", Completion, there)
        PROVE  Rank(step') < Rank(step)
    <3>1. step = "portI" /\ step' \in {there, "idle"}
      BY <2>3 DEF Prepare, Fails, Goes, GetFails
    <3> QED
      BY <3>1 DEF Rank
  <2>4. ASSUME Prepare("rest", "I", "REST", Intermediate, "retr") PROVE Rank(step') < Rank(step)
    <3>1. step = "rest" /\ step' \in {"retr", "idle"}
      BY <2>4 DEF Prepare, Fails, Goes, GetFails
    <3> QED
      BY <3>1 DEF Rank
  <2>5. ASSUME DataCommand("retr", "I", "RETR", "getting") PROVE Rank(step') < Rank(step)
    <3>1. step = "retr" /\ step' \in {"getting", "idle"}
      BY <2>5 DEF DataCommand, Fails, Goes, GetFails
    <3> QED
      BY <3>1 DEF Rank
  <2>6. ASSUME LastReply("got", "I", "idle") PROVE Rank(step') < Rank(step)
    <3>1. step = "got" /\ step' = "idle"
      BY <2>6 DEF LastReply, Fails, Goes, GetFails
    <3> QED
      BY <3>1 DEF Rank
  <2>7. ASSUME DataTimeout("getting", "I") PROVE Rank(step') < Rank(step)
    <3>1. step = "getting" /\ step' = "idle"
      BY <2>7 DEF DataTimeout, Fails, GetFails
    <3> QED
      BY <3>1 DEF Rank
  <2>8. ASSUME ReturnFalse \/ FileData \/ OnEndReceivingData("gettingEnd", "got")
        PROVE  Rank(step') < Rank(step)
    <3>1. <<step, step'>> \in {<<"quitSize", "typeI">>, <<"getting", "gettingEnd">>, <<"gettingEnd", "got">>}
      BY <2>8 DEF ReturnFalse, FileData, OnEndReceivingData
    <3> QED
      BY <3>1 DEF Rank
  <2>9. step # "idle" /\ step # "space"
    BY DEF Halts
  <2> QED
    BY <1>2, <2>1, <2>2, <2>3, <2>4, <2>5, <2>6, <2>7, <2>8, <2>9
       DEF DownLoad, NoMoreFiles, StartDownLoad, DelItem, OpenFile
<1>3. ASSUME NeverConnects PROVE Rank(step') < Rank(step)
  BY <1>3 DEF NeverConnects, Rank
<1> QED
  BY <1>1, <1>2, <1>3 DEF Worker

\* Nobody else moves the worker, but for a restart.
LEMMA TurnStands ==
    ASSUME [Next]_vars, ~Worker
    PROVE  step' = step \/ step' = "idle"
BY DEF Next, UpdateHostInfo, Restart, vars

\* Whatever a server answers or leaves unanswered, a turn of the worker only goes on: no
\* failure of GetFileList or DownLoadFile leads back into the exchanges before it.
TurnsOnlyGoOn == [][step \notin Halts /\ step' # step => Rank(step') < Rank(step)]_vars

\* Every exchange of GetFileList and DownLoadFile, answered or not, brings the worker nearer
\* to the end of its turn.
THEOREM TurnsGoOn == Spec => TurnsOnlyGoOn
<1>1. TypeOK /\ [Next]_vars => [step \notin Halts /\ step' # step => Rank(step') < Rank(step)]_vars
  <2> SUFFICES ASSUME TypeOK, [Next]_vars, step \notin Halts, step' # step
               PROVE  Rank(step') < Rank(step)
    OBVIOUS
  <2>1. Rank("idle") < Rank(step)
    BY DEF TypeOK, Steps, Halts, Rank
  <2> QED
    BY <2>1, TurnGetsOn, TurnStands
<1> QED
  BY <1>1, TypeCorrect, PTL DEF Spec, TurnsOnlyGoOn

\* Everywhere else in its turn the worker has a step to take: a command can be sent or fails,
\* a reply comes or does not.
WorkerCanStep == [](step \notin Halts => ENABLED <<Worker>>_vars)

\* Every turn of the worker ends, however the servers it talks to behave: what is left for
\* DownloaderComesBack is that PrepareSpace runs out of rows to delete.
TurnsEnd == []<>(step \in Halts)

\* One exchange of a turn.
LEMMA StageGetsOn ==
    ASSUME TypeOK, [Next]_vars, NEW n \in 1 .. 15, Rank(step) = n
    PROVE  /\ Rank(step') = n \/ Rank(step') < n
           /\ <<Worker>>_vars => Rank(step') < n
<1>1. step \notin Halts
  BY DEF Rank, Halts
<1>2. Rank("idle") < Rank(step)
  BY DEF Rank
<1> QED
  BY <1>1, <1>2, TurnGetsOn, TurnStands

\* Above the end of a turn the worker is not where it can wait.
LEMMA StageMeans ==
    ASSUME NEW n \in 1 .. 15
    PROVE  /\ Rank(step) = n => step \notin Halts
           /\ Rank(step) < n + 1 => Rank(step) = n \/ Rank(step) < n
<1>1. Rank(step) \in Int
  BY DEF Rank
<1>2. Rank(step) = n => step \notin Halts
  BY DEF Rank, Halts
<1> QED
  BY <1>1, <1>2

\* If the worker has a step everywhere within its turn, its fairness ends the turn, one
\* exchange after the other, through restarts and broadcasts.  The stages are named one by
\* one since propositional temporal logic cannot quantify over them.
THEOREM EveryTurnEnds == Spec /\ WorkerCanStep => TurnsEnd
<1>0. /\ TypeOK /\ Rank(step) < 1 => step \in Halts
      /\ TypeOK => Rank(step) < 16
  BY DEF Rank, Halts, TypeOK, Steps
<1>1. /\ TypeOK /\ [Next]_vars /\ Rank(step) = 1 => (Rank(step) = 1)' \/ (Rank(step) < 1)'
      /\ TypeOK /\ [Next]_vars /\ Rank(step) = 1 /\ <<Worker>>_vars => (Rank(step) < 1)'
      /\ Rank(step) = 1 => step \notin Halts
      /\ Rank(step) < 2 => Rank(step) = 1 \/ Rank(step) < 1
  BY StageGetsOn, StageMeans
<1>2. /\ TypeOK /\ [Next]_vars /\ Rank(step) = 2 => (Rank(step) = 2)' \/ (Rank(step) < 2)'
      /\ TypeOK /\ [Next]_vars /\ Rank(step) = 2 /\ <<Worker>>_vars => (Rank(step) < 2)'
      /\ Rank(step) = 2 => step \notin Halts
      /\ Rank(step) < 3 => Rank(step) = 2 \/ Rank(step) < 2
  BY StageGetsOn, StageMeans
<1>3. /\ TypeOK /\ [Next]_vars /\ Rank(step) = 3 => (Rank(step) = 3)' \/ (Rank(step) < 3)'
      /\ TypeOK /\ [Next]_vars /\ Rank(step) = 3 /\ <<Worker>>_vars => (Rank(step) < 3)'
      /\ Rank(step) = 3 => step \notin Halts
      /\ Rank(step) < 4 => Rank(step) = 3 \/ Rank(step) < 3
  BY StageGetsOn, StageMeans
<1>4. /\ TypeOK /\ [Next]_vars /\ Rank(step) = 4 => (Rank(step) = 4)' \/ (Rank(step) < 4)'
      /\ TypeOK /\ [Next]_vars /\ Rank(step) = 4 /\ <<Worker>>_vars => (Rank(step) < 4)'
      /\ Rank(step) = 4 => step \notin Halts
      /\ Rank(step) < 5 => Rank(step) = 4 \/ Rank(step) < 4
  BY StageGetsOn, StageMeans
<1>5. /\ TypeOK /\ [Next]_vars /\ Rank(step) = 5 => (Rank(step) = 5)' \/ (Rank(step) < 5)'
      /\ TypeOK /\ [Next]_vars /\ Rank(step) = 5 /\ <<Worker>>_vars => (Rank(step) < 5)'
      /\ Rank(step) = 5 => step \notin Halts
      /\ Rank(step) < 6 => Rank(step) = 5 \/ Rank(step) < 5
  BY StageGetsOn, StageMeans
<1>6. /\ TypeOK /\ [Next]_vars /\ Rank(step) = 6 => (Rank(step) = 6)' \/ (Rank(step) < 6)'
      /\ TypeOK /\ [Next]_vars /\ Rank(step) = 6 /\ <<Worker>>_vars => (Rank(step) < 6)'
      /\ Rank(step) = 6 => step \notin Halts
      /\ Rank(step) < 7 => Rank(step) = 6 \/ Rank(step) < 6
  BY StageGetsOn, StageMeans
<1>7. /\ TypeOK /\ [Next]_vars /\ Rank(step) = 7 => (Rank(step) = 7)' \/ (Rank(step) < 7)'
      /\ TypeOK /\ [Next]_vars /\ Rank(step) = 7 /\ <<Worker>>_vars => (Rank(step) < 7)'
      /\ Rank(step) = 7 => step \notin Halts
      /\ Rank(step) < 8 => Rank(step) = 7 \/ Rank(step) < 7
  BY StageGetsOn, StageMeans
<1>8. /\ TypeOK /\ [Next]_vars /\ Rank(step) = 8 => (Rank(step) = 8)' \/ (Rank(step) < 8)'
      /\ TypeOK /\ [Next]_vars /\ Rank(step) = 8 /\ <<Worker>>_vars => (Rank(step) < 8)'
      /\ Rank(step) = 8 => step \notin Halts
      /\ Rank(step) < 9 => Rank(step) = 8 \/ Rank(step) < 8
  BY StageGetsOn, StageMeans
<1>9. /\ TypeOK /\ [Next]_vars /\ Rank(step) = 9 => (Rank(step) = 9)' \/ (Rank(step) < 9)'
      /\ TypeOK /\ [Next]_vars /\ Rank(step) = 9 /\ <<Worker>>_vars => (Rank(step) < 9)'
      /\ Rank(step) = 9 => step \notin Halts
      /\ Rank(step) < 10 => Rank(step) = 9 \/ Rank(step) < 9
  BY StageGetsOn, StageMeans
<1>10. /\ TypeOK /\ [Next]_vars /\ Rank(step) = 10 => (Rank(step) = 10)' \/ (Rank(step) < 10)'
       /\ TypeOK /\ [Next]_vars /\ Rank(step) = 10 /\ <<Worker>>_vars => (Rank(step) < 10)'
       /\ Rank(step) = 10 => step \notin Halts
       /\ Rank(step) < 11 => Rank(step) = 10 \/ Rank(step) < 10
  BY StageGetsOn, StageMeans
<1>11. /\ TypeOK /\ [Next]_vars /\ Rank(step) = 11 => (Rank(step) = 11)' \/ (Rank(step) < 11)'
       /\ TypeOK /\ [Next]_vars /\ Rank(step) = 11 /\ <<Worker>>_vars => (Rank(step) < 11)'
       /\ Rank(step) = 11 => step \notin Halts
       /\ Rank(step) < 12 => Rank(step) = 11 \/ Rank(step) < 11
  BY StageGetsOn, StageMeans
<1>12. /\ TypeOK /\ [Next]_vars /\ Rank(step) = 12 => (Rank(step) = 12)' \/ (Rank(step) < 12)'
       /\ TypeOK /\ [Next]_vars /\ Rank(step) = 12 /\ <<Worker>>_vars => (Rank(step) < 12)'
       /\ Rank(step) = 12 => step \notin Halts
       /\ Rank(step) < 13 => Rank(step) = 12 \/ Rank(step) < 12
  BY StageGetsOn, StageMeans
<1>13. /\ TypeOK /\ [Next]_vars /\ Rank(step) = 13 => (Rank(step) = 13)' \/ (Rank(step) < 13)'
       /\ TypeOK /\ [Next]_vars /\ Rank(step) = 13 /\ <<Worker>>_vars => (Rank(step) < 13)'
       /\ Rank(step) = 13 => step \notin Halts
       /\ Rank(step) < 14 => Rank(step) = 13 \/ Rank(step) < 13
  BY StageGetsOn, StageMeans
<1>14. /\ TypeOK /\ [Next]_vars /\ Rank(step) = 14 => (Rank(step) = 14)' \/ (Rank(step) < 14)'
       /\ TypeOK /\ [Next]_vars /\ Rank(step) = 14 /\ <<Worker>>_vars => (Rank(step) < 14)'
       /\ Rank(step) = 14 => step \notin Halts
       /\ Rank(step) < 15 => Rank(step) = 14 \/ Rank(step) < 14
  BY StageGetsOn, StageMeans
<1>15. /\ TypeOK /\ [Next]_vars /\ Rank(step) = 15 => (Rank(step) = 15)' \/ (Rank(step) < 15)'
       /\ TypeOK /\ [Next]_vars /\ Rank(step) = 15 /\ <<Worker>>_vars => (Rank(step) < 15)'
       /\ Rank(step) = 15 => step \notin Halts
       /\ Rank(step) < 16 => Rank(step) = 15 \/ Rank(step) < 15
  BY StageGetsOn, StageMeans
<1> QED
  BY <1>0, <1>1, <1>2, <1>3, <1>4, <1>5, <1>6, <1>7, <1>8, <1>9, <1>10, <1>11, <1>12, <1>13, <1>14, <1>15, TypeCorrect, PTL
     DEF Spec, Fairness, WorkerCanStep, TurnsEnd

\* Every turn of PrepareSpace either finds space or takes a name out of FileInfo, so that it
\* comes to an end unless the table runs empty with the disk still full.
SpaceIsMade == [][step = "space" /\ Worker => step' = "size" \/ (rows' \subseteq rows /\ rows' # rows)]_vars

\* No turn of PrepareSpace's loop is for nothing, for any number of rows and files.
THEOREM RoomOrFewerRows == Spec => SpaceIsMade
<1>1. ASSUME step = "space", Worker
      PROVE  step' = "size" \/ (rows' \subseteq rows /\ rows' # rows)
  <2>1. DelItem \/ OpenFile
    BY <1>1 DEF Worker, GetFileList, DownLoad, GetReadyHostInfo, Quit, Connect, Logon, LogonCommand,
       RepresentationType, Prepare, DataCommand, ListData, DataTimeout, OnEndReceivingData, LastReply,
       TakeList, NoMoreFiles, StartDownLoad, FileSize, ReturnFalse, FileData, NeverConnects
  <2>2. CASE DelItem
    <3>1. PICK r \in OldestRows : rows' = RowsWithout(r.file)
      BY <2>2 DEF DelItem
    <3>2. r \in rows /\ r \notin rows' /\ rows' \subseteq rows
      BY <3>1 DEF OldestRows, RowsWithout
    <3> QED
      BY <3>2
  <2> QED
    BY <2>1, <2>2 DEF OpenFile
<1> QED
  BY <1>1, PTL DEF Spec, SpaceIsMade

===============================================================================
