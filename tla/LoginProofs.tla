----------------------------- MODULE LoginProofs ------------------------------
(***************************************************************************)
(* Proofs about Login for any number of users, connections and handles and *)
(* any bounds.  The two maps support each other: an entry of the map of    *)
(* users is cleared because its client is found by its handle and kept the *)
(* user's name, and a user is not left online because no entry goes        *)
(* without the UPDATE.                                                     *)
(***************************************************************************)
EXTENDS Login, TLAPS

\* Which thread can be where, and what it has in hand there.
ThreadsFit ==
    /\ thread["timer"].at \in {"free", "leaving"}
    /\ thread["listener"].at \in {"free", "accepted", "created", "found", "closed", "leaving"}
    /\ thread["worker"].at \notin {"accepted", "created"}
    /\ thread["worker"].at \in {"begun", "selected", "updated", "mapped"}
           => thread["worker"].conn \in Conns
    /\ thread["worker"].at \in {"selected", "updated", "mapped"} => thread["worker"].user \in Users
    /\ thread["listener"].at \in {"accepted", "created"}
           => /\ thread["listener"].conn \in Conns
              /\ thread["listener"].handle \in Handles
              /\ sock[thread["listener"].conn] = thread["listener"].handle
    /\ thread["listener"].at = "accepted" => client[thread["listener"].conn] = "new"
    /\ \A t \in Threads : thread[t].at \in {"found", "closed"} => thread[t].handle \in Handles

\* m_clientMap has clients that live, each under its own handle.
ClientMapFits ==
    /\ \A h \in Handles, c \in Conns : clientMap[h] = c => client[c] = "live" /\ sock[c] = h
    /\ \A c \in Conns : client[c] = "live" => sock[c] \in Handles

\* A client on its way out keeps its place until it is deleted, and is the only one.
LeavingFits ==
    \A t \in Threads : thread[t].at = "leaving" =>
        /\ thread[t].conn \in Conns
        /\ thread[t].handle \in Handles
        /\ clientMap[thread[t].handle] = thread[t].conn
        /\ \A s \in Threads : thread[s].at = "leaving" => s = t

\* Online is set for an entry that is there, or about to be made.
OnlineHasEntry ==
    \A u \in Users : online[u] =>
        \/ userMap[u] # NoConn
        \/ thread["worker"].at = "updated" /\ thread["worker"].user = u
        \/ u \in lost

\* The inductive invariant.
IInv ==
    /\ TypeOK
    /\ ThreadsFit
    /\ ClientMapFits
    /\ LeavingFits
    /\ EntriesAreCleared
    /\ OnlineHasEntry

\* A server that starts on a database with nobody online satisfies it.
LEMMA InitIInv == Init => IInv
<1> SUFFICES ASSUME Init PROVE IInv
  OBVIOUS
<1>1. TypeOK
  <2>1. Idle \in Thread
    BY DEF Idle, At, Thread, Places
  <2>2. thread \in [Threads -> Thread]
    BY <2>1 DEF Init
  <2>3. 0 \in 0 .. MaxFaults /\ 0 \in 0 .. MaxRestarts /\ 0 \in 0 .. MaxCommands
    BY LoginAssumption
  <2> QED
    BY <2>2, <2>3 DEF Init, TypeOK
<1>2. ThreadsFit /\ ClientMapFits /\ LeavingFits /\ EntriesAreCleared /\ OnlineHasEntry
  BY LoginAssumption DEF Init, Idle, At, Threads, ThreadsFit, ClientMapFits, LeavingFits,
     EntriesAreCleared, OnlineHasEntry
<1> QED
  BY <1>1, <1>2 DEF IInv

-------------------------------------------------------------------------------

(***************************************************************************)
(* What the operators the actions are built from do.                       *)
(***************************************************************************)

\* A thread goes on with what it has in hand.
LEMMA GoesFacts ==
    ASSUME TypeOK, NEW t \in Threads, NEW place \in Places, Goes(t, place)
    PROVE  /\ thread' \in [Threads -> Thread]
           /\ thread'[t].at = place
           /\ thread'[t].conn = thread[t].conn
           /\ thread'[t].handle = thread[t].handle
           /\ thread'[t].user = thread[t].user
           /\ \A s \in Threads : s # t => thread'[s] = thread[s]
BY DEF TypeOK, Goes, Thread

\* A thread is free again.
LEMMA EndsFacts ==
    ASSUME TypeOK, NEW t \in Threads, Ends(t)
    PROVE  /\ thread' \in [Threads -> Thread]
           /\ thread'[t].at = "free"
           /\ \A s \in Threads : s # t => thread'[s] = thread[s]
BY DEF TypeOK, Ends, Thread, Idle, At, Places

\* A call on the bus leaves the counts numbers.
LEMMA BusFacts ==
    ASSUME TypeOK, NEW c \in Conns, Subscribe(c) \/ Unsubscribe(c)
    PROVE  subscribed' \in [Conns -> Nat] /\ listMade' \in BOOLEAN
<1>1. subscribed \in [Conns -> Nat] /\ listMade \in BOOLEAN
  BY DEF TypeOK
<1>2. CASE Subscribe(c)
  BY <1>1, <1>2 DEF Subscribe
<1>3. CASE Unsubscribe(c) /\ listMade
  <2>1. subscribed' = [subscribed EXCEPT ![c] = IF subscribed[c] > 0 THEN subscribed[c] - 1 ELSE 0]
    BY <1>1, <1>3 DEF Unsubscribe
  <2>2. (IF subscribed[c] > 0 THEN subscribed[c] - 1 ELSE 0) \in Nat
    BY <1>1
  <2>3. listMade' = listMade
    BY <1>3 DEF Unsubscribe
  <2> QED
    BY <1>1, <2>1, <2>2, <2>3
<1>4. CASE Unsubscribe(c) /\ ~ listMade
  BY <1>2, <1>4, <1>1 DEF Unsubscribe, Subscribe
<1> QED
  BY <1>2, <1>3, <1>4

\* CClientManager::Logout by the client of an entry removes the entry, and it leaves the
\* other users alone.
LEMMA LogoutFacts ==
    ASSUME TypeOK, NEW u \in Users \cup {NoUser}, NEW c \in Conns, Logout(u, c)
    PROVE  /\ userMap' \in [Users -> Conns \cup {NoConn}]
           /\ online' \in [Users -> BOOLEAN]
           /\ lost' \in SUBSET Users
           /\ faults' \in 0 .. MaxFaults
           /\ \A v \in Users : v # u => userMap'[v] = userMap[v]
           /\ u \in Users => userMap'[u] # c
           /\ \A v \in Users : userMap'[v] # NoConn => userMap'[v] = userMap[v]
           /\ \A v \in Users : userMap[v] # NoConn /\ userMap'[v] = NoConn
                                  => online'[v] = FALSE \/ v \in lost'
           /\ \A v \in Users : online'[v] => online[v]
           /\ lost \subseteq lost'
<1> USE LoginAssumption DEF TypeOK
<1>1. CASE u # NoUser /\ userMap[u] = c
  <2>1. u \in Users /\ userMap' = [userMap EXCEPT ![u] = NoConn]
    BY <1>1 DEF Logout
  <2>2. CASE online' = [online EXCEPT ![u] = FALSE] /\ UNCHANGED <<lost, faults>>
    BY <1>1, <2>1, <2>2
  <2>3. CASE /\ faults < MaxFaults
             /\ faults' = faults + 1
             /\ lost' = lost \cup {u}
             /\ UNCHANGED online
    BY <1>1, <2>1, <2>3
  <2> QED
    BY <1>1, <2>2, <2>3 DEF Logout
<1>2. CASE ~ (u # NoUser /\ userMap[u] = c)
  BY <1>2 DEF Logout, dbVars
<1> QED
  BY <1>1, <1>2

\* The first step of a release: the thread has the client and its handle.
LEMMA BrokenFacts ==
    ASSUME IInv, NEW t \in Threads, NEW c \in Conns, sock[c] \in Handles, Broken(t, c)
    PROVE  /\ thread' \in [Threads -> Thread]
           /\ thread'[t].at = "leaving"
           /\ thread'[t].conn = c
           /\ thread'[t].handle = sock[c]
           /\ \A s \in Threads : s # t => thread'[s] = thread[s]
           /\ subscribed' \in [Conns -> Nat] /\ listMade' \in BOOLEAN
<1>1. TypeOK
  BY DEF IInv
<1>2. /\ thread' = [thread EXCEPT ![t] = At("leaving", c, sock[c])]
      /\ Unsubscribe(c)
  BY DEF Broken
<1> QED
  BY <1>1, <1>2, BusFacts DEF TypeOK, Thread, At, Places

\* Who has a place in m_clientMap is registered.
LEMMA MapMeansRegistered ==
    ASSUME IInv, NEW h \in Handles, clientMap[h] # NoConn
    PROVE  /\ clientMap[h] \in Conns
           /\ Registered(clientMap[h])
           /\ sock[clientMap[h]] = h
<1>1. clientMap[h] \in Conns
  BY DEF IInv, TypeOK
<1> QED
  BY <1>1 DEF IInv, ClientMapFits, Registered

\* A registered client can be released: it has a handle, under which it is found.
LEMMA RegisteredHasHandle ==
    ASSUME IInv, NEW c \in Conns, Registered(c)
    PROVE  sock[c] \in Handles /\ clientMap[sock[c]] = c
BY DEF IInv, ClientMapFits, Registered

\* What DeleteClient finds: the client it is to delete, in its place.
LEMMA LeavingFacts ==
    ASSUME IInv, NEW t \in Threads, thread[t].at = "leaving"
    PROVE  /\ thread[t].conn \in Conns
           /\ thread[t].handle \in Handles
           /\ clientMap[thread[t].handle] = thread[t].conn
           /\ userName[thread[t].conn] \in Users \cup {NoUser}
BY DEF IInv, LeavingFits, TypeOK

\* Every step keeps the variables within their types.
LEMMA NextTypeOK ==
    ASSUME IInv, [Next]_vars
    PROVE  TypeOK'
<1>0. TypeOK
  BY DEF IInv
<1> USE LoginAssumption
<1>1. ASSUME NEW c \in Conns, NEW h \in Handles, Accept(c, h)
      PROVE  TypeOK'
  BY <1>0, <1>1, GoesFacts, EndsFacts, BusFacts, LogoutFacts DEF Accept, At, dbVars, busVars, userVars, socketVars, TypeOK, Threads, Thread, Places
<1>2. ASSUME CreateClientObj
      PROVE  TypeOK'
  BY <1>0, <1>2, GoesFacts, EndsFacts, BusFacts, LogoutFacts DEF CreateClientObj, dbVars, busVars, userVars, socketVars, TypeOK, Threads, Thread, Places
<1>3. ASSUME ReadPosted
      PROVE  TypeOK'
  BY <1>0, <1>3, GoesFacts, EndsFacts, BusFacts, LogoutFacts DEF ReadPosted, dbVars, busVars, userVars, socketVars, TypeOK, Threads, Thread, Places
<1>4. ASSUME NEW t \in {"worker", "listener"}, NEW h \in Handles, Found(t, h)
      PROVE  TypeOK'
  BY <1>0, <1>4, GoesFacts, EndsFacts, BusFacts, LogoutFacts DEF Found, At, dbVars, busVars, userVars, socketVars, TypeOK, Threads, Thread, Places
<1>5. ASSUME NEW t \in {"worker", "listener"}, DelUser(t)
      PROVE  TypeOK'
  BY <1>0, <1>5, GoesFacts, EndsFacts, BusFacts, LogoutFacts DEF DelUser, dbVars, busVars, userVars, socketVars, TypeOK, Threads, Thread, Places
<1>6. ASSUME NEW t \in {"worker", "listener"}, ReleaseClientObj(t)
      PROVE  TypeOK'
  <2>1. CASE clientMap[thread[t].handle] = NoConn
    BY <1>0, <1>6, <2>1, EndsFacts DEF ReleaseClientObj, dbVars, busVars, userVars, socketVars, TypeOK, Threads
  <2>2. CASE clientMap[thread[t].handle] # NoConn
    <3>1. thread[t].handle \in Handles /\ t \in Threads
      BY <1>6 DEF ReleaseClientObj, IInv, ThreadsFit, Threads
    <3> DEFINE c == clientMap[thread[t].handle]
    <3>2. c \in Conns /\ sock[c] \in Handles /\ Broken(t, c)
      BY <1>6, <2>2, <3>1, MapMeansRegistered DEF ReleaseClientObj
    <3> HIDE DEF c
    <3> QED
      BY <1>0, <1>6, <3>1, <3>2, BrokenFacts DEF ReleaseClientObj, Broken, dbVars, busVars, userVars, socketVars, TypeOK
  <2> QED
    BY <2>1, <2>2
<1>7. ASSUME NEW c \in Conns, CheckClient(c)
      PROVE  TypeOK'
  <2>1. Registered(c) /\ Broken("timer", c) /\ "timer" \in Threads
    BY <1>7 DEF CheckClient, Threads
  <2>2. sock[c] \in Handles
    BY <2>1, RegisteredHasHandle
  <2>3. /\ thread' \in [Threads -> Thread]
        /\ subscribed' \in [Conns -> Nat] /\ listMade' \in BOOLEAN
    BY <2>1, <2>2, BrokenFacts
  <2>4. UNCHANGED <<dbVars, userVars, socketVars, commands, restarts>>
    BY <2>1 DEF Broken
  <2> QED
    BY <1>0, <2>3, <2>4 DEF dbVars, userVars, socketVars, TypeOK
<1>8. ASSUME NEW t \in Threads, DeleteClient(t)
      PROVE  TypeOK'
  <2>1. /\ thread[t].conn \in Conns /\ thread[t].handle \in Handles
        /\ userName[thread[t].conn] \in Users \cup {NoUser}
    BY <1>8, LeavingFacts DEF DeleteClient
  <2>2. Logout(userName[thread[t].conn], thread[t].conn) /\ Ends(t)
    BY <1>8 DEF DeleteClient
  <2>3. /\ userMap' \in [Users -> Conns \cup {NoConn}]
        /\ online' \in [Users -> BOOLEAN]
        /\ lost' \in SUBSET Users
        /\ faults' \in 0 .. MaxFaults
        /\ thread' \in [Threads -> Thread]
    BY <1>0, <2>1, <2>2, LogoutFacts, EndsFacts
  <2> QED
    BY <1>0, <1>8, <2>1, <2>3 DEF DeleteClient, EnteredOnly, busVars, TypeOK
<1>9. ASSUME NEW c \in Conns, GetClientObj(c)
      PROVE  TypeOK'
  BY <1>0, <1>9, GoesFacts, EndsFacts, BusFacts, LogoutFacts DEF GetClientObj, At, dbVars, busVars, userVars, socketVars, TypeOK, Threads, Thread, Places
<1>10. ASSUME NEW u \in Users, NEW forced \in BOOLEAN, SelectUser(u, forced)
      PROVE  TypeOK'
  <2> DEFINE half == [thread EXCEPT !["worker"].at = "selected"]
  <2>1. half \in [Threads -> Thread]
    BY <1>0 DEF TypeOK, Threads, Thread, Places
  <2> HIDE DEF half
  <2>2. [half EXCEPT !["worker"].user = u] \in [Threads -> Thread]
    BY <2>1 DEF Threads, Thread, Places
  <2>3. thread' = [half EXCEPT !["worker"].user = u]
    BY <1>10 DEF SelectUser, half
  <2> QED
    BY <1>0, <1>10, <2>2, <2>3 DEF SelectUser, dbVars, busVars, userVars, socketVars, TypeOK
<1>11. ASSUME NEW u \in Users, RefuseLogin(u)
      PROVE  TypeOK'
  BY <1>0, <1>11, GoesFacts, EndsFacts, BusFacts, LogoutFacts DEF RefuseLogin, Answer, dbVars, busVars, userVars, socketVars, TypeOK, Threads, Thread, Places
<1>12. ASSUME SetOnline
      PROVE  TypeOK'
  BY <1>0, <1>12, GoesFacts, EndsFacts, BusFacts, LogoutFacts DEF SetOnline, dbVars, busVars, userVars, socketVars, TypeOK, Threads, Thread, Places
<1>13. ASSUME LoginFault
      PROVE  TypeOK'
  <2>1. /\ thread["worker"].conn \in Conns /\ thread["worker"].user \in Users
        /\ "worker" \in Threads
    BY <1>13 DEF LoginFault, IInv, ThreadsFit, Threads
  <2>2. Answer(thread["worker"].conn, thread["worker"].user, TRUE)
    BY <1>13 DEF LoginFault
  <2>3. /\ subscribed' \in [Conns -> Nat] /\ listMade' \in BOOLEAN
        /\ thread' \in [Threads -> Thread]
    BY <1>0, <2>1, <2>2, BusFacts, EndsFacts DEF Answer
  <2>4. userName' \in [Conns -> Users \cup {NoUser}] /\ stuck' \in SUBSET Users
    BY <1>0, <2>1, <2>2 DEF Answer, TypeOK
  <2> QED
    BY <1>0, <1>13, <2>3, <2>4 DEF LoginFault, dbVars, socketVars, TypeOK
<1>14. ASSUME EnterUserMap
      PROVE  TypeOK'
  <2>1. /\ thread["worker"].conn \in Conns /\ thread["worker"].user \in Users
        /\ "worker" \in Threads /\ "mapped" \in Places
    BY <1>14 DEF EnterUserMap, IInv, ThreadsFit, Threads, Places
  <2>2. thread' \in [Threads -> Thread]
    BY <1>0, <1>14, <2>1, GoesFacts DEF EnterUserMap
  <2> QED
    BY <1>0, <1>14, <2>1, <2>2 DEF EnterUserMap, busVars, socketVars, TypeOK
<1>15. ASSUME AcceptLogin
      PROVE  TypeOK'
  <2>1. /\ thread["worker"].conn \in Conns /\ thread["worker"].user \in Users
        /\ "worker" \in Threads
    BY <1>15 DEF AcceptLogin, IInv, ThreadsFit, Threads
  <2>2. Answer(thread["worker"].conn, thread["worker"].user, TRUE)
    BY <1>15 DEF AcceptLogin
  <2>3. /\ subscribed' \in [Conns -> Nat] /\ listMade' \in BOOLEAN
        /\ thread' \in [Threads -> Thread]
    BY <1>0, <2>1, <2>2, BusFacts, EndsFacts DEF Answer
  <2>4. userName' \in [Conns -> Users \cup {NoUser}] /\ stuck' \in SUBSET Users
    BY <1>0, <2>1, <2>2 DEF Answer, TypeOK
  <2> QED
    BY <1>0, <1>15, <2>3, <2>4 DEF AcceptLogin, dbVars, socketVars, TypeOK
<1>16. ASSUME OnLogout
      PROVE  TypeOK'
  <2>1. /\ thread["worker"].conn \in Conns /\ "worker" \in Threads
        /\ userName[thread["worker"].conn] \in Users \cup {NoUser}
    BY <1>0, <1>16 DEF OnLogout, IInv, ThreadsFit, Threads, TypeOK
  <2>2. Logout(userName[thread["worker"].conn], thread["worker"].conn) /\ Ends("worker")
    BY <1>16 DEF OnLogout
  <2>3. /\ userMap' \in [Users -> Conns \cup {NoConn}]
        /\ online' \in [Users -> BOOLEAN]
        /\ lost' \in SUBSET Users
        /\ faults' \in 0 .. MaxFaults
        /\ thread' \in [Threads -> Thread]
    BY <1>0, <2>1, <2>2, LogoutFacts, EndsFacts
  <2> QED
    BY <1>0, <1>16, <2>3 DEF OnLogout, busVars, socketVars, TypeOK
<1>17. ASSUME Restart
      PROVE  TypeOK'
  <2>1. Idle \in Thread
    BY DEF Idle, At, Thread, Places
  <2>2. thread' \in [Threads -> Thread]
    BY <1>17, <2>1 DEF Restart, InitVolatile
  <2>3. online' \in [Users -> BOOLEAN] /\ lost' \in SUBSET Users
    BY <1>17 DEF Restart
  <2>4. /\ faults' \in 0 .. MaxFaults /\ restarts' \in 0 .. MaxRestarts
        /\ commands' \in 0 .. MaxCommands
    BY <1>0, <1>17 DEF Restart, TypeOK
  <2>5. client' \in [Conns -> {"new", "live", "gone"}]
    BY <1>17 DEF Restart
  <2>6. /\ userMap' \in [Users -> Conns \cup {NoConn}]
        /\ clientMap' \in [Handles -> Conns \cup {NoConn}]
        /\ open' \in SUBSET Handles /\ asioUsers' \in SUBSET Handles /\ stuck' \in SUBSET Users
        /\ sock' \in [Conns -> Handles \cup {NoHandle}]
        /\ userName' \in [Conns -> Users \cup {NoUser}]
        /\ subscribed' \in [Conns -> Nat] /\ listMade' \in BOOLEAN
    BY <1>17 DEF Restart, InitVolatile
  <2> QED
    BY <2>2, <2>3, <2>4, <2>5, <2>6 DEF TypeOK
<1>18. ASSUME UNCHANGED vars
      PROVE  TypeOK'
  BY <1>0, <1>18, GoesFacts, EndsFacts, BusFacts, LogoutFacts DEF vars, dbVars, busVars, userVars, socketVars, TypeOK, Threads, Thread, Places
<1> QED
  BY <1>1, <1>2, <1>3, <1>4, <1>5, <1>6, <1>7, <1>8, <1>9, <1>10, <1>11, <1>12, <1>13, <1>14, <1>15, <1>16, <1>17, <1>18 DEF Next, Worker

\* The threads' places go with what they have in hand.
LEMMA NextThreadsFit ==
    ASSUME IInv, [Next]_vars
    PROVE  ThreadsFit'
<1>0. TypeOK
  BY DEF IInv
<1> USE LoginAssumption
<1>1. ASSUME NEW c \in Conns, NEW h \in Handles, Accept(c, h)
      PROVE  ThreadsFit'
  BY <1>0, <1>1, GoesFacts, EndsFacts, MapMeansRegistered DEF Accept, At, dbVars, busVars, userVars, socketVars, TypeOK, IInv, ThreadsFit, ClientMapFits, Threads, Places
<1>2. ASSUME CreateClientObj
      PROVE  ThreadsFit'
  BY <1>0, <1>2, GoesFacts, EndsFacts, MapMeansRegistered DEF CreateClientObj, dbVars, busVars, userVars, socketVars, TypeOK, IInv, ThreadsFit, ClientMapFits, Threads, Places
<1>3. ASSUME ReadPosted
      PROVE  ThreadsFit'
  BY <1>0, <1>3, GoesFacts, EndsFacts, MapMeansRegistered DEF ReadPosted, dbVars, busVars, userVars, socketVars, TypeOK, IInv, ThreadsFit, ClientMapFits, Threads, Places
<1>4. ASSUME NEW t \in {"worker", "listener"}, NEW h \in Handles, Found(t, h)
      PROVE  ThreadsFit'
  BY <1>0, <1>4, GoesFacts, EndsFacts, MapMeansRegistered DEF Found, At, dbVars, busVars, userVars, socketVars, TypeOK, IInv, ThreadsFit, ClientMapFits, Threads, Places
<1>5. ASSUME NEW t \in {"worker", "listener"}, DelUser(t)
      PROVE  ThreadsFit'
  BY <1>0, <1>5, GoesFacts, EndsFacts, MapMeansRegistered DEF DelUser, dbVars, busVars, userVars, socketVars, TypeOK, IInv, ThreadsFit, ClientMapFits, Threads, Places
<1>6. ASSUME NEW t \in {"worker", "listener"}, ReleaseClientObj(t)
      PROVE  ThreadsFit'
  <2>1. CASE clientMap[thread[t].handle] = NoConn
    BY <1>0, <1>6, <2>1, EndsFacts DEF ReleaseClientObj, dbVars, busVars, userVars, socketVars, IInv, ThreadsFit, Threads
  <2>2. CASE clientMap[thread[t].handle] # NoConn
    <3>1. thread[t].handle \in Handles /\ t \in Threads
      BY <1>6 DEF ReleaseClientObj, IInv, ThreadsFit, Threads
    <3> DEFINE c == clientMap[thread[t].handle]
    <3>2. c \in Conns /\ sock[c] \in Handles /\ Broken(t, c)
      BY <1>6, <2>2, <3>1, MapMeansRegistered DEF ReleaseClientObj
    <3> HIDE DEF c
    <3> QED
      BY <1>0, <1>6, <3>1, <3>2, BrokenFacts DEF ReleaseClientObj, Broken, dbVars, busVars, userVars, socketVars, IInv, ThreadsFit, Threads
  <2> QED
    BY <2>1, <2>2
<1>7. ASSUME NEW c \in Conns, CheckClient(c)
      PROVE  ThreadsFit'
  <2>1. sock[c] \in Handles /\ Broken("timer", c) /\ "timer" \in Threads
    BY <1>7, RegisteredHasHandle DEF CheckClient, Threads
  <2> QED
    BY <1>0, <1>7, <2>1, BrokenFacts DEF CheckClient, Broken, dbVars, busVars, userVars, socketVars, IInv, ThreadsFit, Threads
<1>8. ASSUME NEW t \in Threads, DeleteClient(t)
      PROVE  ThreadsFit'
  <2>1. Ends(t) /\ UNCHANGED sock /\ thread[t].conn \in Conns /\ thread[t].at = "leaving"
    BY <1>8, LeavingFacts DEF DeleteClient
  <2>2. \A c \in Conns : client[c] = "new" /\ c # thread[t].conn => client'[c] = "new"
    BY <1>0, <1>8, <2>1 DEF DeleteClient, TypeOK
  <2>3. client[thread[t].conn] = "live"
    BY <2>1, LeavingFacts DEF IInv, ClientMapFits
  <2> QED
    BY <1>0, <2>1, <2>2, <2>3, EndsFacts DEF IInv, ThreadsFit, Threads
<1>9. ASSUME NEW c \in Conns, GetClientObj(c)
      PROVE  ThreadsFit'
  BY <1>0, <1>9, GoesFacts, EndsFacts, MapMeansRegistered DEF GetClientObj, At, dbVars, busVars, userVars, socketVars, TypeOK, IInv, ThreadsFit, ClientMapFits, Threads, Places
<1>10. ASSUME NEW u \in Users, NEW forced \in BOOLEAN, SelectUser(u, forced)
      PROVE  ThreadsFit'
  BY <1>0, <1>10, GoesFacts, EndsFacts, MapMeansRegistered DEF SelectUser, dbVars, busVars, userVars, socketVars, TypeOK, IInv, ThreadsFit, ClientMapFits, Threads, Places
<1>11. ASSUME NEW u \in Users, RefuseLogin(u)
      PROVE  ThreadsFit'
  BY <1>0, <1>11, GoesFacts, EndsFacts, MapMeansRegistered DEF RefuseLogin, Answer, dbVars, busVars, userVars, socketVars, TypeOK, IInv, ThreadsFit, ClientMapFits, Threads, Places
<1>12. ASSUME SetOnline
      PROVE  ThreadsFit'
  BY <1>0, <1>12, GoesFacts, EndsFacts, MapMeansRegistered DEF SetOnline, dbVars, busVars, userVars, socketVars, TypeOK, IInv, ThreadsFit, ClientMapFits, Threads, Places
<1>13. ASSUME LoginFault
      PROVE  ThreadsFit'
  BY <1>0, <1>13, GoesFacts, EndsFacts, MapMeansRegistered DEF LoginFault, Answer, dbVars, busVars, userVars, socketVars, TypeOK, IInv, ThreadsFit, ClientMapFits, Threads, Places
<1>14. ASSUME EnterUserMap
      PROVE  ThreadsFit'
  BY <1>0, <1>14, GoesFacts, EndsFacts, MapMeansRegistered DEF EnterUserMap, dbVars, busVars, userVars, socketVars, TypeOK, IInv, ThreadsFit, ClientMapFits, Threads, Places
<1>15. ASSUME AcceptLogin
      PROVE  ThreadsFit'
  BY <1>0, <1>15, GoesFacts, EndsFacts, MapMeansRegistered DEF AcceptLogin, Answer, dbVars, busVars, userVars, socketVars, TypeOK, IInv, ThreadsFit, ClientMapFits, Threads, Places
<1>16. ASSUME OnLogout
      PROVE  ThreadsFit'
  BY <1>0, <1>16, GoesFacts, EndsFacts, MapMeansRegistered DEF OnLogout, dbVars, busVars, userVars, socketVars, TypeOK, IInv, ThreadsFit, ClientMapFits, Threads, Places
<1>17. ASSUME Restart
      PROVE  ThreadsFit'
  BY <1>0, <1>17, GoesFacts, EndsFacts, MapMeansRegistered DEF Restart, InitVolatile, Idle, At, dbVars, busVars, userVars, socketVars, TypeOK, IInv, ThreadsFit, ClientMapFits, Threads, Places
<1>18. ASSUME UNCHANGED vars
      PROVE  ThreadsFit'
  BY <1>0, <1>18, GoesFacts, EndsFacts, MapMeansRegistered DEF vars, dbVars, busVars, userVars, socketVars, TypeOK, IInv, ThreadsFit, ClientMapFits, Threads, Places
<1> QED
  BY <1>1, <1>2, <1>3, <1>4, <1>5, <1>6, <1>7, <1>8, <1>9, <1>10, <1>11, <1>12, <1>13, <1>14, <1>15, <1>16, <1>17, <1>18 DEF Next, Worker

\* The map of clients has live clients under their handles.
LEMMA NextClientMapFits ==
    ASSUME IInv, [Next]_vars
    PROVE  ClientMapFits'
<1>0. TypeOK
  BY DEF IInv
<1> USE LoginAssumption
<1>1. ASSUME NEW c \in Conns, NEW h \in Handles, Accept(c, h)
      PROVE  ClientMapFits'
  BY <1>0, <1>1, GoesFacts, EndsFacts DEF Accept, At, dbVars, busVars, userVars, socketVars, TypeOK, IInv, ThreadsFit, ClientMapFits, LeavingFits, Threads, Places
<1>2. ASSUME CreateClientObj
      PROVE  ClientMapFits'
  BY <1>0, <1>2, GoesFacts, EndsFacts DEF CreateClientObj, dbVars, busVars, userVars, socketVars, TypeOK, IInv, ThreadsFit, ClientMapFits, LeavingFits, Threads, Places
<1>3. ASSUME ReadPosted
      PROVE  ClientMapFits'
  BY <1>0, <1>3, GoesFacts, EndsFacts DEF ReadPosted, dbVars, busVars, userVars, socketVars, TypeOK, IInv, ThreadsFit, ClientMapFits, LeavingFits, Threads, Places
<1>4. ASSUME NEW t \in {"worker", "listener"}, NEW h \in Handles, Found(t, h)
      PROVE  ClientMapFits'
  BY <1>0, <1>4, GoesFacts, EndsFacts DEF Found, At, dbVars, busVars, userVars, socketVars, TypeOK, IInv, ThreadsFit, ClientMapFits, LeavingFits, Threads, Places
<1>5. ASSUME NEW t \in {"worker", "listener"}, DelUser(t)
      PROVE  ClientMapFits'
  BY <1>0, <1>5, GoesFacts, EndsFacts DEF DelUser, dbVars, busVars, userVars, socketVars, TypeOK, IInv, ThreadsFit, ClientMapFits, LeavingFits, Threads, Places
<1>6. ASSUME NEW t \in {"worker", "listener"}, ReleaseClientObj(t)
      PROVE  ClientMapFits'
  BY <1>0, <1>6, GoesFacts, EndsFacts DEF ReleaseClientObj, Broken, dbVars, busVars, userVars, socketVars, TypeOK, IInv, ThreadsFit, ClientMapFits, LeavingFits, Threads, Places
<1>7. ASSUME NEW c \in Conns, CheckClient(c)
      PROVE  ClientMapFits'
  BY <1>0, <1>7, GoesFacts, EndsFacts DEF CheckClient, Broken, dbVars, busVars, userVars, socketVars, TypeOK, IInv, ThreadsFit, ClientMapFits, LeavingFits, Threads, Places
<1>8. ASSUME NEW t \in Threads, DeleteClient(t)
      PROVE  ClientMapFits'
  BY <1>0, <1>8, GoesFacts, EndsFacts DEF DeleteClient, dbVars, busVars, userVars, socketVars, TypeOK, IInv, ThreadsFit, ClientMapFits, LeavingFits, Threads, Places
<1>9. ASSUME NEW c \in Conns, GetClientObj(c)
      PROVE  ClientMapFits'
  BY <1>0, <1>9, GoesFacts, EndsFacts DEF GetClientObj, At, dbVars, busVars, userVars, socketVars, TypeOK, IInv, ThreadsFit, ClientMapFits, LeavingFits, Threads, Places
<1>10. ASSUME NEW u \in Users, NEW forced \in BOOLEAN, SelectUser(u, forced)
      PROVE  ClientMapFits'
  BY <1>0, <1>10, GoesFacts, EndsFacts DEF SelectUser, dbVars, busVars, userVars, socketVars, TypeOK, IInv, ThreadsFit, ClientMapFits, LeavingFits, Threads, Places
<1>11. ASSUME NEW u \in Users, RefuseLogin(u)
      PROVE  ClientMapFits'
  BY <1>0, <1>11, GoesFacts, EndsFacts DEF RefuseLogin, Answer, dbVars, busVars, userVars, socketVars, TypeOK, IInv, ThreadsFit, ClientMapFits, LeavingFits, Threads, Places
<1>12. ASSUME SetOnline
      PROVE  ClientMapFits'
  BY <1>0, <1>12, GoesFacts, EndsFacts DEF SetOnline, dbVars, busVars, userVars, socketVars, TypeOK, IInv, ThreadsFit, ClientMapFits, LeavingFits, Threads, Places
<1>13. ASSUME LoginFault
      PROVE  ClientMapFits'
  BY <1>0, <1>13, GoesFacts, EndsFacts DEF LoginFault, Answer, dbVars, busVars, userVars, socketVars, TypeOK, IInv, ThreadsFit, ClientMapFits, LeavingFits, Threads, Places
<1>14. ASSUME EnterUserMap
      PROVE  ClientMapFits'
  BY <1>0, <1>14, GoesFacts, EndsFacts DEF EnterUserMap, dbVars, busVars, userVars, socketVars, TypeOK, IInv, ThreadsFit, ClientMapFits, LeavingFits, Threads, Places
<1>15. ASSUME AcceptLogin
      PROVE  ClientMapFits'
  BY <1>0, <1>15, GoesFacts, EndsFacts DEF AcceptLogin, Answer, dbVars, busVars, userVars, socketVars, TypeOK, IInv, ThreadsFit, ClientMapFits, LeavingFits, Threads, Places
<1>16. ASSUME OnLogout
      PROVE  ClientMapFits'
  BY <1>0, <1>16, GoesFacts, EndsFacts DEF OnLogout, dbVars, busVars, userVars, socketVars, TypeOK, IInv, ThreadsFit, ClientMapFits, LeavingFits, Threads, Places
<1>17. ASSUME Restart
      PROVE  ClientMapFits'
  BY <1>0, <1>17, GoesFacts, EndsFacts DEF Restart, InitVolatile, Idle, At, dbVars, busVars, userVars, socketVars, TypeOK, IInv, ThreadsFit, ClientMapFits, LeavingFits, Threads, Places
<1>18. ASSUME UNCHANGED vars
      PROVE  ClientMapFits'
  BY <1>0, <1>18, GoesFacts, EndsFacts DEF vars, dbVars, busVars, userVars, socketVars, TypeOK, IInv, ThreadsFit, ClientMapFits, LeavingFits, Threads, Places
<1> QED
  BY <1>1, <1>2, <1>3, <1>4, <1>5, <1>6, <1>7, <1>8, <1>9, <1>10, <1>11, <1>12, <1>13, <1>14, <1>15, <1>16, <1>17, <1>18 DEF Next, Worker

\* A client on its way out keeps its place.
LEMMA NextLeavingFits ==
    ASSUME IInv, [Next]_vars
    PROVE  LeavingFits'
<1>0. TypeOK
  BY DEF IInv
<1> USE LoginAssumption
<1>1. ASSUME NEW c \in Conns, NEW h \in Handles, Accept(c, h)
      PROVE  LeavingFits'
  BY <1>0, <1>1, GoesFacts, EndsFacts, BrokenFacts, MapMeansRegistered DEF Accept, At, dbVars, busVars, userVars, socketVars, TypeOK, IInv, ThreadsFit, ClientMapFits, LeavingFits, LockerFree, Registered, Threads, Places
<1>2. ASSUME CreateClientObj
      PROVE  LeavingFits'
  BY <1>0, <1>2, GoesFacts, EndsFacts, BrokenFacts, MapMeansRegistered DEF CreateClientObj, dbVars, busVars, userVars, socketVars, TypeOK, IInv, ThreadsFit, ClientMapFits, LeavingFits, LockerFree, Registered, Threads, Places
<1>3. ASSUME ReadPosted
      PROVE  LeavingFits'
  BY <1>0, <1>3, GoesFacts, EndsFacts, BrokenFacts, MapMeansRegistered DEF ReadPosted, dbVars, busVars, userVars, socketVars, TypeOK, IInv, ThreadsFit, ClientMapFits, LeavingFits, LockerFree, Registered, Threads, Places
<1>4. ASSUME NEW t \in {"worker", "listener"}, NEW h \in Handles, Found(t, h)
      PROVE  LeavingFits'
  BY <1>0, <1>4, GoesFacts, EndsFacts, BrokenFacts, MapMeansRegistered DEF Found, At, dbVars, busVars, userVars, socketVars, TypeOK, IInv, ThreadsFit, ClientMapFits, LeavingFits, LockerFree, Registered, Threads, Places
<1>5. ASSUME NEW t \in {"worker", "listener"}, DelUser(t)
      PROVE  LeavingFits'
  BY <1>0, <1>5, GoesFacts, EndsFacts, BrokenFacts, MapMeansRegistered DEF DelUser, dbVars, busVars, userVars, socketVars, TypeOK, IInv, ThreadsFit, ClientMapFits, LeavingFits, LockerFree, Registered, Threads, Places
<1>6. ASSUME NEW t \in {"worker", "listener"}, ReleaseClientObj(t)
      PROVE  LeavingFits'
  BY <1>0, <1>6, GoesFacts, EndsFacts, BrokenFacts, MapMeansRegistered DEF ReleaseClientObj, Broken, dbVars, busVars, userVars, socketVars, TypeOK, IInv, ThreadsFit, ClientMapFits, LeavingFits, LockerFree, Registered, Threads, Places
<1>7. ASSUME NEW c \in Conns, CheckClient(c)
      PROVE  LeavingFits'
  <2>1. Registered(c) /\ Broken("timer", c) /\ "timer" \in Threads /\ LockerFree
    BY <1>7 DEF CheckClient, Threads
  <2>2. sock[c] \in Handles /\ clientMap[sock[c]] = c
    BY <2>1, RegisteredHasHandle
  <2>3. /\ thread'["timer"].at = "leaving"
        /\ thread'["timer"].conn = c
        /\ thread'["timer"].handle = sock[c]
        /\ \A s \in Threads : s # "timer" => thread'[s] = thread[s]
    BY <2>1, <2>2, BrokenFacts
  <2>4. clientMap' = clientMap
    BY <2>1 DEF Broken, socketVars
  <2> QED
    BY <2>1, <2>2, <2>3, <2>4 DEF LockerFree, LeavingFits
<1>8. ASSUME NEW t \in Threads, DeleteClient(t)
      PROVE  LeavingFits'
  BY <1>0, <1>8, GoesFacts, EndsFacts, BrokenFacts, MapMeansRegistered DEF DeleteClient, dbVars, busVars, userVars, socketVars, TypeOK, IInv, ThreadsFit, ClientMapFits, LeavingFits, LockerFree, Registered, Threads, Places
<1>9. ASSUME NEW c \in Conns, GetClientObj(c)
      PROVE  LeavingFits'
  BY <1>0, <1>9, GoesFacts, EndsFacts, BrokenFacts, MapMeansRegistered DEF GetClientObj, At, dbVars, busVars, userVars, socketVars, TypeOK, IInv, ThreadsFit, ClientMapFits, LeavingFits, LockerFree, Registered, Threads, Places
<1>10. ASSUME NEW u \in Users, NEW forced \in BOOLEAN, SelectUser(u, forced)
      PROVE  LeavingFits'
  BY <1>0, <1>10, GoesFacts, EndsFacts, BrokenFacts, MapMeansRegistered DEF SelectUser, dbVars, busVars, userVars, socketVars, TypeOK, IInv, ThreadsFit, ClientMapFits, LeavingFits, LockerFree, Registered, Threads, Places
<1>11. ASSUME NEW u \in Users, RefuseLogin(u)
      PROVE  LeavingFits'
  BY <1>0, <1>11, GoesFacts, EndsFacts, BrokenFacts, MapMeansRegistered DEF RefuseLogin, Answer, dbVars, busVars, userVars, socketVars, TypeOK, IInv, ThreadsFit, ClientMapFits, LeavingFits, LockerFree, Registered, Threads, Places
<1>12. ASSUME SetOnline
      PROVE  LeavingFits'
  BY <1>0, <1>12, GoesFacts, EndsFacts, BrokenFacts, MapMeansRegistered DEF SetOnline, dbVars, busVars, userVars, socketVars, TypeOK, IInv, ThreadsFit, ClientMapFits, LeavingFits, LockerFree, Registered, Threads, Places
<1>13. ASSUME LoginFault
      PROVE  LeavingFits'
  BY <1>0, <1>13, GoesFacts, EndsFacts, BrokenFacts, MapMeansRegistered DEF LoginFault, Answer, dbVars, busVars, userVars, socketVars, TypeOK, IInv, ThreadsFit, ClientMapFits, LeavingFits, LockerFree, Registered, Threads, Places
<1>14. ASSUME EnterUserMap
      PROVE  LeavingFits'
  BY <1>0, <1>14, GoesFacts, EndsFacts, BrokenFacts, MapMeansRegistered DEF EnterUserMap, dbVars, busVars, userVars, socketVars, TypeOK, IInv, ThreadsFit, ClientMapFits, LeavingFits, LockerFree, Registered, Threads, Places
<1>15. ASSUME AcceptLogin
      PROVE  LeavingFits'
  BY <1>0, <1>15, GoesFacts, EndsFacts, BrokenFacts, MapMeansRegistered DEF AcceptLogin, Answer, dbVars, busVars, userVars, socketVars, TypeOK, IInv, ThreadsFit, ClientMapFits, LeavingFits, LockerFree, Registered, Threads, Places
<1>16. ASSUME OnLogout
      PROVE  LeavingFits'
  BY <1>0, <1>16, GoesFacts, EndsFacts, BrokenFacts, MapMeansRegistered DEF OnLogout, dbVars, busVars, userVars, socketVars, TypeOK, IInv, ThreadsFit, ClientMapFits, LeavingFits, LockerFree, Registered, Threads, Places
<1>17. ASSUME Restart
      PROVE  LeavingFits'
  BY <1>0, <1>17, GoesFacts, EndsFacts, BrokenFacts, MapMeansRegistered DEF Restart, InitVolatile, Idle, At, dbVars, busVars, userVars, socketVars, TypeOK, IInv, ThreadsFit, ClientMapFits, LeavingFits, LockerFree, Registered, Threads, Places
<1>18. ASSUME UNCHANGED vars
      PROVE  LeavingFits'
  BY <1>0, <1>18, GoesFacts, EndsFacts, BrokenFacts, MapMeansRegistered DEF vars, dbVars, busVars, userVars, socketVars, TypeOK, IInv, ThreadsFit, ClientMapFits, LeavingFits, LockerFree, Registered, Threads, Places
<1> QED
  BY <1>1, <1>2, <1>3, <1>4, <1>5, <1>6, <1>7, <1>8, <1>9, <1>10, <1>11, <1>12, <1>13, <1>14, <1>15, <1>16, <1>17, <1>18 DEF Next, Worker

\* Every entry goes on naming a client that will clear it, or is stuck.
LEMMA NextEntries ==
    ASSUME IInv, [Next]_vars
    PROVE  EntriesAreCleared'
<1>0. TypeOK
  BY DEF IInv
<1> USE LoginAssumption
<1>1. ASSUME NEW c \in Conns, NEW h \in Handles, Accept(c, h)
      PROVE  EntriesAreCleared'
  BY <1>0, <1>1, GoesFacts, EndsFacts, LogoutFacts DEF Accept, At, dbVars, busVars, userVars, socketVars, TypeOK, IInv, ThreadsFit, ClientMapFits, LeavingFits, EntriesAreCleared, WillClear, Registered, Threads, Places
<1>2. ASSUME CreateClientObj
      PROVE  EntriesAreCleared'
  BY <1>0, <1>2, GoesFacts, EndsFacts, LogoutFacts DEF CreateClientObj, dbVars, busVars, userVars, socketVars, TypeOK, IInv, ThreadsFit, ClientMapFits, LeavingFits, EntriesAreCleared, WillClear, Registered, Threads, Places
<1>3. ASSUME ReadPosted
      PROVE  EntriesAreCleared'
  BY <1>0, <1>3, GoesFacts, EndsFacts, LogoutFacts DEF ReadPosted, dbVars, busVars, userVars, socketVars, TypeOK, IInv, ThreadsFit, ClientMapFits, LeavingFits, EntriesAreCleared, WillClear, Registered, Threads, Places
<1>4. ASSUME NEW t \in {"worker", "listener"}, NEW h \in Handles, Found(t, h)
      PROVE  EntriesAreCleared'
  BY <1>0, <1>4, GoesFacts, EndsFacts, LogoutFacts DEF Found, At, dbVars, busVars, userVars, socketVars, TypeOK, IInv, ThreadsFit, ClientMapFits, LeavingFits, EntriesAreCleared, WillClear, Registered, Threads, Places
<1>5. ASSUME NEW t \in {"worker", "listener"}, DelUser(t)
      PROVE  EntriesAreCleared'
  BY <1>0, <1>5, GoesFacts, EndsFacts, LogoutFacts DEF DelUser, dbVars, busVars, userVars, socketVars, TypeOK, IInv, ThreadsFit, ClientMapFits, LeavingFits, EntriesAreCleared, WillClear, Registered, Threads, Places
<1>6. ASSUME NEW t \in {"worker", "listener"}, ReleaseClientObj(t)
      PROVE  EntriesAreCleared'
  BY <1>0, <1>6, GoesFacts, EndsFacts, LogoutFacts DEF ReleaseClientObj, Broken, dbVars, busVars, userVars, socketVars, TypeOK, IInv, ThreadsFit, ClientMapFits, LeavingFits, EntriesAreCleared, WillClear, Registered, Threads, Places
<1>7. ASSUME NEW c \in Conns, CheckClient(c)
      PROVE  EntriesAreCleared'
  BY <1>0, <1>7, GoesFacts, EndsFacts, LogoutFacts DEF CheckClient, Broken, dbVars, busVars, userVars, socketVars, TypeOK, IInv, ThreadsFit, ClientMapFits, LeavingFits, EntriesAreCleared, WillClear, Registered, Threads, Places
<1>8. ASSUME NEW t \in Threads, DeleteClient(t)
      PROVE  EntriesAreCleared'
  <2> SUFFICES ASSUME NEW v \in Users, NEW d \in Conns, userMap'[v] = d
               PROVE  (WillClear(d, v) \/ v \in stuck)'
    BY DEF EntriesAreCleared
  <2> DEFINE c == thread[t].conn
  <2>1. /\ c \in Conns /\ thread[t].handle \in Handles /\ clientMap[thread[t].handle] = c
        /\ userName[c] \in Users \cup {NoUser} /\ sock[c] = thread[t].handle
    BY <1>8, LeavingFacts DEF DeleteClient, IInv, ClientMapFits
  <2>2. Logout(userName[c], c) /\ Ends(t) /\ stuck' = stuck \cup EnteredOnly(c)
    BY <1>8 DEF DeleteClient
  <2>3. userMap[v] = d /\ (v = userName[c] => d # c)
    BY <1>0, <2>1, <2>2, LogoutFacts
  <2>4. WillClear(d, v) \/ v \in stuck
    BY <2>3 DEF IInv, EntriesAreCleared
  <2>5. CASE v \in stuck
    BY <2>2, <2>5
  <2>6. CASE WillClear(d, v) /\ d = c
    BY <2>2, <2>3, <2>6 DEF WillClear, EnteredOnly
  <2>7. CASE WillClear(d, v) /\ d # c
    <3>1. /\ client'[d] = "live" /\ sock'[d] = sock[d] /\ userName' = userName
          /\ sock[d] \in Handles
      BY <1>0, <1>8, <2>1, <2>7, RegisteredHasHandle DEF DeleteClient, WillClear, Registered, TypeOK
    <3>2. clientMap'[sock[d]] = d
      BY <1>0, <1>8, <2>1, <2>7, <3>1 DEF DeleteClient, WillClear, Registered, TypeOK
    <3>3. thread["worker"].at = "mapped" => thread'["worker"] = thread["worker"]
      BY <1>0, <1>8, <2>2, EndsFacts DEF DeleteClient, Threads
    <3> QED
      BY <2>7, <3>1, <3>2, <3>3 DEF WillClear, Registered
  <2> QED
    BY <2>4, <2>5, <2>6, <2>7
<1>9. ASSUME NEW c \in Conns, GetClientObj(c)
      PROVE  EntriesAreCleared'
  BY <1>0, <1>9, GoesFacts, EndsFacts, LogoutFacts DEF GetClientObj, At, dbVars, busVars, userVars, socketVars, TypeOK, IInv, ThreadsFit, ClientMapFits, LeavingFits, EntriesAreCleared, WillClear, Registered, Threads, Places
<1>10. ASSUME NEW u \in Users, NEW forced \in BOOLEAN, SelectUser(u, forced)
      PROVE  EntriesAreCleared'
  BY <1>0, <1>10, GoesFacts, EndsFacts, LogoutFacts DEF SelectUser, dbVars, busVars, userVars, socketVars, TypeOK, IInv, ThreadsFit, ClientMapFits, LeavingFits, EntriesAreCleared, WillClear, Registered, Threads, Places
<1>11. ASSUME NEW u \in Users, RefuseLogin(u)
      PROVE  EntriesAreCleared'
  BY <1>0, <1>11, GoesFacts, EndsFacts, LogoutFacts DEF RefuseLogin, Answer, dbVars, busVars, userVars, socketVars, TypeOK, IInv, ThreadsFit, ClientMapFits, LeavingFits, EntriesAreCleared, WillClear, Registered, Threads, Places
<1>12. ASSUME SetOnline
      PROVE  EntriesAreCleared'
  BY <1>0, <1>12, GoesFacts, EndsFacts, LogoutFacts DEF SetOnline, dbVars, busVars, userVars, socketVars, TypeOK, IInv, ThreadsFit, ClientMapFits, LeavingFits, EntriesAreCleared, WillClear, Registered, Threads, Places
<1>13. ASSUME LoginFault
      PROVE  EntriesAreCleared'
  BY <1>0, <1>13, GoesFacts, EndsFacts, LogoutFacts DEF LoginFault, Answer, dbVars, busVars, userVars, socketVars, TypeOK, IInv, ThreadsFit, ClientMapFits, LeavingFits, EntriesAreCleared, WillClear, Registered, Threads, Places
<1>14. ASSUME EnterUserMap
      PROVE  EntriesAreCleared'
  BY <1>0, <1>14, GoesFacts, EndsFacts, LogoutFacts DEF EnterUserMap, dbVars, busVars, userVars, socketVars, TypeOK, IInv, ThreadsFit, ClientMapFits, LeavingFits, EntriesAreCleared, WillClear, Registered, Threads, Places
<1>15. ASSUME AcceptLogin
      PROVE  EntriesAreCleared'
  BY <1>0, <1>15, GoesFacts, EndsFacts, LogoutFacts DEF AcceptLogin, Answer, dbVars, busVars, userVars, socketVars, TypeOK, IInv, ThreadsFit, ClientMapFits, LeavingFits, EntriesAreCleared, WillClear, Registered, Threads, Places
<1>16. ASSUME OnLogout
      PROVE  EntriesAreCleared'
  <2> SUFFICES ASSUME NEW v \in Users, NEW d \in Conns, userMap'[v] = d
               PROVE  (WillClear(d, v) \/ v \in stuck)'
    BY DEF EntriesAreCleared
  <2> DEFINE c == thread["worker"].conn
  <2>1. /\ c \in Conns /\ thread["worker"].at = "begun"
        /\ userName[c] \in Users \cup {NoUser}
    BY <1>0, <1>16 DEF OnLogout, IInv, ThreadsFit, TypeOK
  <2>2. Logout(userName[c], c) /\ UNCHANGED <<userName, stuck, socketVars>>
    BY <1>16 DEF OnLogout
  <2>3. userMap[v] = d
    BY <1>0, <2>1, <2>2, LogoutFacts
  <2> QED
    BY <2>1, <2>2, <2>3 DEF IInv, EntriesAreCleared, WillClear, Registered, socketVars
<1>17. ASSUME Restart
      PROVE  EntriesAreCleared'
  BY <1>0, <1>17, GoesFacts, EndsFacts, LogoutFacts DEF Restart, InitVolatile, Idle, At, dbVars, busVars, userVars, socketVars, TypeOK, IInv, ThreadsFit, ClientMapFits, LeavingFits, EntriesAreCleared, WillClear, Registered, Threads, Places
<1>18. ASSUME UNCHANGED vars
      PROVE  EntriesAreCleared'
  BY <1>0, <1>18, GoesFacts, EndsFacts, LogoutFacts DEF vars, dbVars, busVars, userVars, socketVars, TypeOK, IInv, ThreadsFit, ClientMapFits, LeavingFits, EntriesAreCleared, WillClear, Registered, Threads, Places
<1> QED
  BY <1>1, <1>2, <1>3, <1>4, <1>5, <1>6, <1>7, <1>8, <1>9, <1>10, <1>11, <1>12, <1>13, <1>14, <1>15, <1>16, <1>17, <1>18 DEF Next, Worker

\* Online is set on the way to the map, and an entry goes only with its UPDATE or the failure of it.
LEMMA NextOnline ==
    ASSUME IInv, [Next]_vars
    PROVE  OnlineHasEntry'
<1>0. TypeOK
  BY DEF IInv
<1> USE LoginAssumption
<1>1. ASSUME NEW c \in Conns, NEW h \in Handles, Accept(c, h)
      PROVE  OnlineHasEntry'
  BY <1>0, <1>1, GoesFacts, EndsFacts, LogoutFacts DEF Accept, At, dbVars, busVars, userVars, socketVars, TypeOK, IInv, ThreadsFit, OnlineHasEntry, Threads, Places
<1>2. ASSUME CreateClientObj
      PROVE  OnlineHasEntry'
  BY <1>0, <1>2, GoesFacts, EndsFacts, LogoutFacts DEF CreateClientObj, dbVars, busVars, userVars, socketVars, TypeOK, IInv, ThreadsFit, OnlineHasEntry, Threads, Places
<1>3. ASSUME ReadPosted
      PROVE  OnlineHasEntry'
  BY <1>0, <1>3, GoesFacts, EndsFacts, LogoutFacts DEF ReadPosted, dbVars, busVars, userVars, socketVars, TypeOK, IInv, ThreadsFit, OnlineHasEntry, Threads, Places
<1>4. ASSUME NEW t \in {"worker", "listener"}, NEW h \in Handles, Found(t, h)
      PROVE  OnlineHasEntry'
  BY <1>0, <1>4, GoesFacts, EndsFacts, LogoutFacts DEF Found, At, dbVars, busVars, userVars, socketVars, TypeOK, IInv, ThreadsFit, OnlineHasEntry, Threads, Places
<1>5. ASSUME NEW t \in {"worker", "listener"}, DelUser(t)
      PROVE  OnlineHasEntry'
  BY <1>0, <1>5, GoesFacts, EndsFacts, LogoutFacts DEF DelUser, dbVars, busVars, userVars, socketVars, TypeOK, IInv, ThreadsFit, OnlineHasEntry, Threads, Places
<1>6. ASSUME NEW t \in {"worker", "listener"}, ReleaseClientObj(t)
      PROVE  OnlineHasEntry'
  BY <1>0, <1>6, GoesFacts, EndsFacts, LogoutFacts DEF ReleaseClientObj, Broken, dbVars, busVars, userVars, socketVars, TypeOK, IInv, ThreadsFit, OnlineHasEntry, Threads, Places
<1>7. ASSUME NEW c \in Conns, CheckClient(c)
      PROVE  OnlineHasEntry'
  BY <1>0, <1>7, GoesFacts, EndsFacts, LogoutFacts DEF CheckClient, Broken, dbVars, busVars, userVars, socketVars, TypeOK, IInv, ThreadsFit, OnlineHasEntry, Threads, Places
<1>8. ASSUME NEW t \in Threads, DeleteClient(t)
      PROVE  OnlineHasEntry'
  <2> DEFINE c == thread[t].conn
  <2>1. c \in Conns /\ userName[c] \in Users \cup {NoUser} /\ thread[t].at = "leaving"
    BY <1>8, LeavingFacts DEF DeleteClient
  <2>2. Logout(userName[c], c) /\ Ends(t)
    BY <1>8 DEF DeleteClient
  <2>3. thread["worker"].at = "updated" => thread'["worker"] = thread["worker"]
    BY <1>0, <2>1, <2>2, EndsFacts DEF Threads
  <2> QED
    BY <1>0, <2>1, <2>2, <2>3, LogoutFacts DEF IInv, OnlineHasEntry
<1>9. ASSUME NEW c \in Conns, GetClientObj(c)
      PROVE  OnlineHasEntry'
  BY <1>0, <1>9, GoesFacts, EndsFacts, LogoutFacts DEF GetClientObj, At, dbVars, busVars, userVars, socketVars, TypeOK, IInv, ThreadsFit, OnlineHasEntry, Threads, Places
<1>10. ASSUME NEW u \in Users, NEW forced \in BOOLEAN, SelectUser(u, forced)
      PROVE  OnlineHasEntry'
  BY <1>0, <1>10, GoesFacts, EndsFacts, LogoutFacts DEF SelectUser, dbVars, busVars, userVars, socketVars, TypeOK, IInv, ThreadsFit, OnlineHasEntry, Threads, Places
<1>11. ASSUME NEW u \in Users, RefuseLogin(u)
      PROVE  OnlineHasEntry'
  BY <1>0, <1>11, GoesFacts, EndsFacts, LogoutFacts DEF RefuseLogin, Answer, dbVars, busVars, userVars, socketVars, TypeOK, IInv, ThreadsFit, OnlineHasEntry, Threads, Places
<1>12. ASSUME SetOnline
      PROVE  OnlineHasEntry'
  BY <1>0, <1>12, GoesFacts, EndsFacts, LogoutFacts DEF SetOnline, dbVars, busVars, userVars, socketVars, TypeOK, IInv, ThreadsFit, OnlineHasEntry, Threads, Places
<1>13. ASSUME LoginFault
      PROVE  OnlineHasEntry'
  BY <1>0, <1>13, GoesFacts, EndsFacts, LogoutFacts DEF LoginFault, Answer, dbVars, busVars, userVars, socketVars, TypeOK, IInv, ThreadsFit, OnlineHasEntry, Threads, Places
<1>14. ASSUME EnterUserMap
      PROVE  OnlineHasEntry'
  BY <1>0, <1>14, GoesFacts, EndsFacts, LogoutFacts DEF EnterUserMap, dbVars, busVars, userVars, socketVars, TypeOK, IInv, ThreadsFit, OnlineHasEntry, Threads, Places
<1>15. ASSUME AcceptLogin
      PROVE  OnlineHasEntry'
  BY <1>0, <1>15, GoesFacts, EndsFacts, LogoutFacts DEF AcceptLogin, Answer, dbVars, busVars, userVars, socketVars, TypeOK, IInv, ThreadsFit, OnlineHasEntry, Threads, Places
<1>16. ASSUME OnLogout
      PROVE  OnlineHasEntry'
  BY <1>0, <1>16, GoesFacts, EndsFacts, LogoutFacts DEF OnLogout, dbVars, busVars, userVars, socketVars, TypeOK, IInv, ThreadsFit, OnlineHasEntry, Threads, Places
<1>17. ASSUME Restart
      PROVE  OnlineHasEntry'
  BY <1>17 DEF Restart, OnlineHasEntry
<1>18. ASSUME UNCHANGED vars
      PROVE  OnlineHasEntry'
  BY <1>0, <1>18, GoesFacts, EndsFacts, LogoutFacts DEF vars, dbVars, busVars, userVars, socketVars, TypeOK, IInv, ThreadsFit, OnlineHasEntry, Threads, Places
<1> QED
  BY <1>1, <1>2, <1>3, <1>4, <1>5, <1>6, <1>7, <1>8, <1>9, <1>10, <1>11, <1>12, <1>13, <1>14, <1>15, <1>16, <1>17, <1>18 DEF Next, Worker

-------------------------------------------------------------------------------

\* The invariant holds in every reachable state.
LEMMA Invariance == Spec => []IInv
<1>1. IInv /\ [Next]_vars => IInv'
  BY NextTypeOK, NextThreadsFit, NextClientMapFits, NextLeavingFits, NextEntries, NextOnline DEF IInv
<1> QED
  BY <1>1, InitIInv, PTL DEF Spec

\* Every variable of the login machinery keeps its type.
THEOREM TypeCorrect == Spec => []TypeOK
<1>1. IInv => TypeOK
  BY DEF IInv
<1> QED
  BY <1>1, Invariance, PTL

\* The client an entry of m_userMap points to is found by its handle and clears the entry
\* when it logs out or goes (OnLogin, Logout, destructor of CXlClient), but for entries
\* that are stuck for one of the three named reasons.
THEOREM EntriesAreAlwaysCleared == Spec => []EntriesAreCleared
<1>1. IInv => EntriesAreCleared
  BY DEF IInv
<1> QED
  BY <1>1, Invariance, PTL

\* No user stays online in the database without a session that will end, except after a
\* failed UPDATE to offline or by a stuck entry, for any number of users, clients,
\* handles and restarts.
THEOREM NobodyIsShutOut == Spec => []NoGhostOnline
<1>1. IInv => NoGhostOnline
  <2> SUFFICES ASSUME IInv, NEW u \in Users, online[u]
               PROVE  \/ \E c \in Conns : userMap[u] = c /\ WillClear(c, u)
                      \/ thread["worker"].at = "updated" /\ thread["worker"].user = u
                      \/ u \in lost \cup stuck
    BY DEF NoGhostOnline
  <2>1. CASE userMap[u] # NoConn
    BY <2>1 DEF IInv, TypeOK, EntriesAreCleared
  <2>2. CASE userMap[u] = NoConn
    BY <2>2 DEF IInv, OnlineHasEntry
  <2> QED
    BY <2>1, <2>2
<1> QED
  BY <1>1, Invariance, PTL

===============================================================================
