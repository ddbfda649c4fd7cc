-------------------------------- MODULE Login ---------------------------------
(***************************************************************************)
(* Who is logged in: CClientManager's two maps (clients by socket, users), *)
(* the Online column of the UserInfo table (CSqlServerAccess) and the      *)
(* subscription a login makes on the data bus.                             *)
(*                                                                         *)
(* The client service's worker (CXAsio::OnWork) runs the handlers of all   *)
(* clients, one after the other; its listener makes clients; a timer       *)
(* deletes clients that are silent.  OnLogin is several steps, because     *)
(* nothing is locked around the SELECT and the UPDATE, and m_lockerUser    *)
(* only around the map of users: a client, the one whose OnLogin it is     *)
(* included, may be deleted in between.  OnBroken closes the socket before *)
(* it looks the client up by it, so that the listener may have been given  *)
(* the same handle again.  A CXlClient is used for one connection.         *)
(***************************************************************************)
EXTENDS Naturals

CONSTANTS
    Users,        \* rows of UserInfo
    Conns,        \* client connections, each with its CXlClient
    Handles,      \* socket handles: the system gives a closed one out again
    NoUser, NoConn, NoHandle,
    MaxCommands,    \* bound: how many commands to log in or out are handled
    MaxFaults,    \* bound: how often a statement on the database fails
    MaxRestarts   \* bound: how often the server restarts

ASSUME LoginAssumption ==
    /\ NoUser \notin Users
    /\ NoConn \notin Conns
    /\ NoHandle \notin Handles
    /\ MaxCommands \in Nat
    /\ MaxFaults \in Nat
    /\ MaxRestarts \in Nat

VARIABLES
    online,       \* UserInfo.Online: survives the server
    userMap,      \* m_userMap
    clientMap,    \* m_clientMap
    open,         \* the handles that are open
    asioUsers,    \* m_userMap of CXAsio
    client,       \* of a connection: "new", "live", "gone"
    sock,         \* its handle
    userName,     \* m_userName
    thread,       \* where the worker, the listener and the timer are
    subscribed,   \* entries of m_msgMap["all"][xlc_msg_host], per client
    listMade,     \* whether that list exists
    lost,         \* history: users whose UPDATE to offline failed (Logout, Init)
    stuck,        \* history: users whose entry was left to a client that will not clear it
    commands,     \* commands to log in or out so far
    faults, restarts

dbVars == <<online, lost, faults>>
busVars == <<subscribed, listMade>>
userVars == <<userMap, userName, stuck>>
socketVars == <<clientMap, open, asioUsers, client, sock>>
vars == <<dbVars, busVars, userVars, socketVars, thread, commands, restarts>>

Threads == {"worker", "listener", "timer"}

At(place, c, h) == [at |-> place, conn |-> c, handle |-> h, user |-> NoUser]
Idle == At("free", NoConn, NoHandle)

Goes(t, place) == thread' = [thread EXCEPT ![t].at = place]
Ends(t) == thread' = [thread EXCEPT ![t] = Idle]

InitVolatile ==
    /\ userMap' = [u \in Users |-> NoConn]
    /\ clientMap' = [h \in Handles |-> NoConn]
    /\ open' = {}
    /\ asioUsers' = {}
    /\ sock' = [c \in Conns |-> NoHandle]
    /\ userName' = [c \in Conns |-> NoUser]
    /\ thread' = [t \in Threads |-> Idle]
    /\ subscribed' = [c \in Conns |-> 0]
    /\ listMade' = FALSE
    /\ stuck' = {}

Init ==
    /\ online = [u \in Users |-> FALSE]
    /\ userMap = [u \in Users |-> NoConn]
    /\ clientMap = [h \in Handles |-> NoConn]
    /\ open = {}
    /\ asioUsers = {}
    /\ client = [c \in Conns |-> "new"]
    /\ sock = [c \in Conns |-> NoHandle]
    /\ userName = [c \in Conns |-> NoUser]
    /\ thread = [t \in Threads |-> Idle]
    /\ subscribed = [c \in Conns |-> 0]
    /\ listMade = FALSE
    /\ lost = {}
    /\ stuck = {}
    /\ commands = 0
    /\ faults = 0
    /\ restarts = 0

-------------------------------------------------------------------------------

\* CDataBus::SubscribeMsg("all", xlc_msg_host, ...): the very first call makes
\* the list with its caller in it, whatever bSub says.
Subscribe(c) ==
    /\ subscribed' = [subscribed EXCEPT ![c] = @ + 1]
    /\ listMade' = TRUE

\* Slip: counts down without looking for the client.
UnsubscribeUnseen(c) ==
    /\ subscribed' = [subscribed EXCEPT ![c] = @ - 1]
    /\ UNCHANGED listMade

Unsubscribe(c) ==
    IF ~ listMade
    THEN Subscribe(c)
    ELSE /\ subscribed' = [subscribed EXCEPT ![c] = IF @ > 0 THEN @ - 1 ELSE 0]
         /\ UNCHANGED listMade

\* CClientManager::Logout: only the client the user's entry points to counts.
\* The entry goes even if the UPDATE throws.  A login's SELECT and UPDATE do not
\* look at the map, so that UPDATE and erase are one step.
Logout(u, c) ==
    IF u # NoUser /\ userMap[u] = c
    THEN /\ userMap' = [userMap EXCEPT ![u] = NoConn]
         /\ \/ /\ online' = [online EXCEPT ![u] = FALSE]
               /\ UNCHANGED <<lost, faults>>
            \/ /\ faults < MaxFaults
               /\ faults' = faults + 1
               /\ lost' = lost \cup {u}
               /\ UNCHANGED online
    ELSE UNCHANGED <<dbVars, userMap>>

\* m_locker is held by whoever releases a client.
LockerFree == \A t \in Threads : thread[t].at # "leaving"

\* GetClientObj finds the client.
Registered(c) == client[c] = "live" /\ clientMap[sock[c]] = c

-------------------------------------------------------------------------------

(***************************************************************************)
(* A connection begins: OnAccept, on the listener.                         *)
(***************************************************************************)

Accept(c, h) ==
    /\ thread["listener"].at = "free"
    /\ client[c] = "new"
    /\ h \notin open
    /\ open' = open \cup {h}
    /\ asioUsers' = asioUsers \cup {h}
    /\ sock' = [sock EXCEPT ![c] = h]
    /\ thread' = [thread EXCEPT !["listener"] = At("accepted", c, h)]
    /\ UNCHANGED <<dbVars, busVars, userVars, clientMap, client, commands, restarts>>

\* The entry of the handle's last client, if it is still there, is overwritten:
\* nobody will release that client, nor clear the entries of its users.
CreateClientObj ==
    LET c == thread["listener"].conn
        h == thread["listener"].handle
    IN  /\ thread["listener"].at = "accepted"
        /\ LockerFree
        /\ client' = [client EXCEPT ![c] = "live"]
        /\ clientMap' = [clientMap EXCEPT ![h] = c]
        /\ stuck' = stuck \cup {u \in Users : userMap[u] # NoConn /\ userMap[u] = clientMap[h]}
        /\ Goes("listener", "created")
        /\ UNCHANGED <<dbVars, busVars, userMap, userName, open, asioUsers, sock, commands, restarts>>

\* The first read is under way.
ReadPosted ==
    /\ thread["listener"].at = "created"
    /\ Ends("listener")
    /\ UNCHANGED <<dbVars, busVars, userVars, socketVars, commands, restarts>>

-------------------------------------------------------------------------------

(***************************************************************************)
(* A connection ends: OnBroken (the listener's first read failed, a read   *)
(* or write the worker made or completed), or CheckClient's timer.         *)
(***************************************************************************)

\* ProcessIoEvent finds the service under the handle.  The worker may be told of a
\* handle whose client the timer has deleted already.
Found(t, h) ==
    /\ \/ t = "worker" /\ thread[t].at = "free"
       \/ t = "listener" /\ thread[t].at = "created" /\ thread[t].handle = h
    /\ h \in asioUsers
    /\ thread' = [thread EXCEPT ![t] = At("found", NoConn, h)]
    /\ UNCHANGED <<dbVars, busVars, userVars, socketVars, commands, restarts>>

DelUser(t) ==
    LET h == thread[t].handle
    IN  /\ thread[t].at = "found"
        /\ open' = open \ {h}
        /\ asioUsers' = asioUsers \ {h}
        /\ Goes(t, "closed")
        /\ UNCHANGED <<dbVars, busVars, userVars, clientMap, client, sock, commands, restarts>>

\* Broken, under m_locker.
Broken(t, c) ==
    /\ Unsubscribe(c)
    /\ thread' = [thread EXCEPT ![t] = At("leaving", c, sock[c])]
    /\ UNCHANGED <<dbVars, userVars, socketVars, commands, restarts>>

\* The client is the one that has the handle by now.
ReleaseClientObj(t) ==
    LET h == thread[t].handle
    IN  /\ thread[t].at = "closed"
        /\ LockerFree
        /\ IF clientMap[h] = NoConn
           THEN Ends(t) /\ UNCHANGED <<dbVars, busVars, userVars, socketVars, commands, restarts>>
           ELSE Broken(t, clientMap[h])

CheckClient(c) ==
    /\ thread["timer"].at = "free"
    /\ LockerFree
    /\ Registered(c)
    /\ Broken("timer", c)

\* The users whose entries c has made in an OnLogin that still runs, and which has not
\* given c the name it logs out with.
EnteredOnly(c) ==
    {u \in Users : /\ thread["worker"].at = "mapped"
                   /\ thread["worker"].conn = c
                   /\ thread["worker"].user = u
                   /\ userName[c] # u}

\* Slip: the destructor does not log out.
DeleteWithoutLogout(t) ==
    LET c == thread[t].conn
    IN  /\ thread[t].at = "leaving"
        /\ open' = open \ {thread[t].handle}
        /\ client' = [client EXCEPT ![c] = "gone"]
        /\ clientMap' = [clientMap EXCEPT ![thread[t].handle] = NoConn]
        /\ stuck' = stuck \cup EnteredOnly(c)
        /\ Ends(t)
        /\ UNCHANGED <<dbVars, busVars, userMap, userName, asioUsers, sock, commands, restarts>>

\* The handle is closed, the destructor logs out, the entry goes.  Deleted inside its own
\* OnLogin, the client leaves the entry that has just been made.
DeleteClient(t) ==
    LET c == thread[t].conn
    IN  /\ thread[t].at = "leaving"
        /\ Logout(userName[c], c)
        /\ open' = open \ {thread[t].handle}
        /\ client' = [client EXCEPT ![c] = "gone"]
        /\ clientMap' = [clientMap EXCEPT ![thread[t].handle] = NoConn]
        /\ stuck' = stuck \cup EnteredOnly(c)
        /\ Ends(t)
        /\ UNCHANGED <<busVars, userName, asioUsers, sock, commands, restarts>>

-------------------------------------------------------------------------------

(***************************************************************************)
(* The worker's handlers.                                                  *)
(***************************************************************************)

\* OnRead has looked the client up; a login or a logout is to be handled.
GetClientObj(c) ==
    /\ thread["worker"].at = "free"
    /\ LockerFree
    /\ Registered(c)
    /\ commands < MaxCommands
    /\ commands' = commands + 1
    /\ thread' = [thread EXCEPT !["worker"] = At("begun", c, NoHandle)]
    /\ UNCHANGED <<dbVars, busVars, userVars, socketVars, restarts>>

\* OnLogin after CClientManager::Login: the name is kept whatever the answer.  The
\* entry of the user the client was before is forgotten.
Answer(c, u, told) ==
    /\ userName' = [userName EXCEPT ![c] = u]
    /\ stuck' = stuck \cup {v \in Users : v # u /\ userMap[v] = c}
    /\ IF told THEN Subscribe(c) ELSE UNCHANGED busVars
    /\ Ends("worker")

\* The SELECT finds user and password right, and the user offline or forced.
SelectUser(u, forced) ==
    /\ thread["worker"].at = "begun"
    /\ forced \/ ~ online[u]
    /\ thread' = [thread EXCEPT !["worker"].at = "selected", !["worker"].user = u]
    /\ UNCHANGED <<dbVars, busVars, userVars, socketVars, commands, restarts>>

\* The SELECT refuses: no such user or password (1, 2), or online already (6).
RefuseLogin(u) ==
    /\ thread["worker"].at = "begun"
    /\ Answer(thread["worker"].conn, u, FALSE)
    /\ UNCHANGED <<dbVars, userMap, socketVars, commands, restarts>>

\* The UPDATE of the Online column.
SetOnline ==
    /\ thread["worker"].at = "selected"
    /\ online' = [online EXCEPT ![thread["worker"].user] = TRUE]
    /\ Goes("worker", "updated")
    /\ UNCHANGED <<lost, faults, busVars, userVars, socketVars, commands, restarts>>

\* A statement throws: Login fails with nRet still 0, which reads as success.
LoginFault ==
    /\ thread["worker"].at = "selected"
    /\ faults < MaxFaults
    /\ faults' = faults + 1
    /\ Answer(thread["worker"].conn, thread["worker"].user, TRUE)
    /\ UNCHANGED <<online, lost, userMap, socketVars, commands, restarts>>

\* Login takes m_lockerUser.  (A forced login calls the client it replaces.)  A client
\* that is deleted, or out of m_clientMap, will not clear the entry.
EnterUserMap ==
    LET c == thread["worker"].conn
        u == thread["worker"].user
    IN  /\ thread["worker"].at = "updated"
        /\ userMap' = [userMap EXCEPT ![u] = c]
        /\ stuck' = IF Registered(c) THEN stuck \ {u} ELSE stuck \cup {u}
        /\ lost' = lost \ {u}
        /\ Goes("worker", "mapped")
        /\ UNCHANGED <<online, faults, busVars, userName, socketVars, commands, restarts>>

\* OnLogin keeps the name, subscribes and answers success.
AcceptLogin ==
    /\ thread["worker"].at = "mapped"
    /\ Answer(thread["worker"].conn, thread["worker"].user, TRUE)
    /\ UNCHANGED <<dbVars, userMap, socketVars, commands, restarts>>

OnLogout ==
    LET c == thread["worker"].conn
    IN  /\ thread["worker"].at = "begun"
        /\ Logout(userName[c], c)
        /\ Ends("worker")
        /\ UNCHANGED <<busVars, userName, stuck, socketVars, commands, restarts>>

-------------------------------------------------------------------------------

\* Slip: the Online column is not reset at start.
RestartAsLeft ==
    /\ restarts < MaxRestarts
    /\ restarts' = restarts + 1
    /\ client' = [c \in Conns |-> IF client[c] = "new" THEN "new" ELSE "gone"]
    /\ lost' = {}
    /\ InitVolatile
    /\ UNCHANGED <<online, faults, commands>>

\* The server stops, in whatever step it is, and starts: CSqlServerAccess::Init
\* sets every user offline before a client can connect.  A statement that throws
\* leaves the users after it as they were; main ignores the answer.
Restart ==
    /\ restarts < MaxRestarts
    /\ restarts' = restarts + 1
    /\ \E missed \in SUBSET Users :
           /\ missed # {} => faults < MaxFaults
           /\ faults' = IF missed = {} THEN faults ELSE faults + 1
           /\ online' = [u \in Users |-> online[u] /\ u \in missed]
           /\ lost' = missed
    /\ client' = [c \in Conns |-> IF client[c] = "new" THEN "new" ELSE "gone"]
    /\ InitVolatile
    /\ UNCHANGED commands

Worker ==
    \/ \E c \in Conns : GetClientObj(c)
    \/ \E u \in Users : RefuseLogin(u) \/ \E forced \in BOOLEAN : SelectUser(u, forced)
    \/ SetOnline
    \/ LoginFault
    \/ EnterUserMap
    \/ AcceptLogin
    \/ OnLogout

Next ==
    \/ Worker
    \/ \E c \in Conns, h \in Handles : Accept(c, h)
    \/ CreateClientObj
    \/ ReadPosted
    \/ \E t \in {"worker", "listener"} :
           (\E h \in Handles : Found(t, h)) \/ DelUser(t) \/ ReleaseClientObj(t)
    \/ \E c \in Conns : CheckClient(c)
    \/ \E t \in Threads : DeleteClient(t)
    \/ Restart

Spec == Init /\ [][Next]_vars

-------------------------------------------------------------------------------

Places == {"free", "accepted", "created", "found", "closed", "leaving",
           "begun", "selected", "updated", "mapped"}

Thread == [at : Places, conn : Conns \cup {NoConn}, handle : Handles \cup {NoHandle},
           user : Users \cup {NoUser}]

TypeOK ==
    /\ online \in [Users -> BOOLEAN]
    /\ userMap \in [Users -> Conns \cup {NoConn}]
    /\ clientMap \in [Handles -> Conns \cup {NoConn}]
    /\ open \in SUBSET Handles
    /\ asioUsers \in SUBSET Handles
    /\ client \in [Conns -> {"new", "live", "gone"}]
    /\ sock \in [Conns -> Handles \cup {NoHandle}]
    /\ userName \in [Conns -> Users \cup {NoUser}]
    /\ thread \in [Threads -> Thread]
    /\ subscribed \in [Conns -> Nat]
    /\ listMade \in BOOLEAN
    /\ lost \in SUBSET Users
    /\ stuck \in SUBSET Users
    /\ commands \in 0 .. MaxCommands
    /\ faults \in 0 .. MaxFaults
    /\ restarts \in 0 .. MaxRestarts

\* The client can be found and logs out as this user when it goes, or is about to take
\* the user's name.
WillClear(c, u) ==
    /\ Registered(c)
    /\ \/ userName[c] = u
       \/ /\ thread["worker"].at = "mapped"
          /\ thread["worker"].conn = c
          /\ thread["worker"].user = u

\* The client a user's entry points to exists, is found by its socket and clears the
\* entry when it goes (OnLogin, ReleaseClientObj, destructor): whatever logins race, fail
\* or are forced, and whatever handles are closed and given out again.  It does not only
\* for the users of a client that logged in, or tried to, as another one meanwhile, that
\* lost its place in m_clientMap to a reused handle, or that was deleted in its own OnLogin.
EntriesAreCleared ==
    \A u \in Users, c \in Conns : userMap[u] = c => WillClear(c, u) \/ u \in stuck

\* A user is online in the database only while a client that will clear it holds, or is
\* about to enter, its place in the map, unless the UPDATE to offline failed or the entry
\* is stuck for one of those reasons: the server's crashes shut nobody out (Login, Logout,
\* Init).
NoGhostOnline ==
    \A u \in Users : online[u] =>
        \/ \E c \in Conns : userMap[u] = c /\ WillClear(c, u)
        \/ thread["worker"].at = "updated" /\ thread["worker"].user = u
        \/ u \in lost \cup stuck

===============================================================================
