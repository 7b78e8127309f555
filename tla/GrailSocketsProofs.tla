------------------------- MODULE GrailSocketsProofs -------------------------
(***************************************************************************)
(* The descriptor tables of GrailSockets are consistent for every set of   *)
(* threads, descriptors and ns-3 sockets, and every set of calls.          *)
(***************************************************************************)
EXTENDS GrailSockets, TLAPS

\* What the tables depend on; everything else may change freely.
tableVars == <<fdVars, life, connectCb>>

TableTypes ==
  /\ availableFDs \subseteq FDs
  /\ m_sockets \in [FDs -> Socks \cup {NoSock}]
  /\ m_fakeAccepted \in [FDs -> Socks \cup {NoSock}]
  /\ m_tcp \subseteq FDs /\ m_connected \subseteq FDs
  /\ m_listen \subseteq FDs /\ m_nonblocking \subseteq FDs
  /\ m_random \subseteq FDs /\ m_netlinks \subseteq FDs
  /\ life \in [Socks -> Lives]
  /\ connectCb \in [Socks -> [kind : Kinds, tid : Threads, fd : FDs \cup {0}]]

\* A connection that waits to be accepted is established.
PendingEstablished ==
  \A fd \in FDs : m_fakeAccepted[fd] # NoSock => life[m_fakeAccepted[fd]] = "established"

\* A socket that is connecting still holds the descriptor its callback will mark.
ConnectingOwned ==
  \A s \in Socks : life[s] = "syn" =>
    connectCb[s].fd \in FDs /\ m_sockets[connectCb[s].fd] = s

\* The inductive invariant.
TableInv ==
  /\ TableTypes
  /\ FdPartition
  /\ FdSetsCurrent
  /\ OneOwner
  /\ PendingEstablished
  /\ ConnectingOwned

-----------------------------------------------------------------------------
\* A step that touches no table keeps the invariant.
LEMMA TablesUntouched == TableInv /\ UNCHANGED tableVars => TableInv'
  BY DEF TableInv, tableVars, fdVars, TableTypes, FdPartition, FdSetsCurrent, OneOwner,
         PendingEstablished, ConnectingOwned, FdIsEmulatedSocket, Sockets

\* No descriptor is in use when the application is created.
LEMMA InitTables == Init => TableInv
<1> SUFFICES ASSUME Init PROVE TableInv
  OBVIOUS
<1>1. TableTypes
  BY ThreadsAssumption DEF Init, TableTypes, Lives, NoCb, Kinds
<1>2. FdPartition /\ FdSetsCurrent /\ OneOwner
  BY DEF Init, FdPartition, FdSetsCurrent, OneOwner, FdIsEmulatedSocket, Sockets
<1>3. PendingEstablished /\ ConnectingOwned
  BY DEF Init, PendingEstablished, ConnectingOwned
<1> QED BY <1>1, <1>2, <1>3 DEF TableInv

\* The handlers and events that wait, read, write or resume touch no table.
LEMMA ThreadSteps ==
  ASSUME NEW t \in Threads,
         \/ HandleSocketRefused(t) \/ HandleAcceptNone(t)
         \/ HandleRead(t) \/ HandleRecvFrom(t) \/ HandleWrite(t)
         \/ HandleSelectNow(t) \/ HandleSelectWait(t) \/ HandleSelectExcept(t)
         \/ SelectTimeout(t)
  PROVE  UNCHANGED tableVars
<1>1. CASE HandleSocketRefused(t) \/ HandleAcceptNone(t)
  BY <1>1 DEF HandleSocketRefused, HandleAcceptNone, tableVars, cbVars
<1>2. CASE HandleRead(t) \/ HandleRecvFrom(t) \/ HandleWrite(t)
  BY <1>2 DEF HandleRead, HandleRecvFrom, HandleWrite, tableVars
<1>3. CASE HandleSelectNow(t) \/ HandleSelectWait(t) \/ HandleSelectExcept(t)
  BY <1>3 DEF HandleSelectNow, HandleSelectWait, HandleSelectExcept, tableVars, cbVars
<1>4. CASE SelectTimeout(t)
  BY <1>4 DEF SelectTimeout, SelectHandled, tableVars
<1> QED BY <1>1, <1>2, <1>3, <1>4

LEMMA BufferSteps ==
  ASSUME NEW s \in Socks, Receive(s) \/ Drain(s)
  PROVE  UNCHANGED tableVars
<1>1. CASE Receive(s)
  BY <1>1 DEF Receive, SelectHandled, tableVars, cbVars
<1>2. CASE Drain(s)
  BY <1>2 DEF Drain, SelectHandled, tableVars, cbVars
<1> QED BY <1>1, <1>2

-----------------------------------------------------------------------------
\* A free descriptor is in none of the tables of sockets.
LEMMA FreeDescriptor ==
  ASSUME TableInv, NEW fd \in availableFDs
  PROVE  /\ fd \in FDs /\ m_sockets[fd] = NoSock
         /\ fd \notin m_netlinks /\ fd \notin m_random
         /\ fd \notin m_tcp /\ fd \notin m_connected
         /\ fd \notin m_listen /\ fd \notin m_nonblocking
<1>1. fd \in FDs
  BY DEF TableInv, TableTypes
<1>2. m_sockets[fd] = NoSock /\ fd \notin m_netlinks /\ fd \notin m_random
  BY <1>1 DEF TableInv, FdPartition, FdIsEmulatedSocket
<1>3. /\ fd \notin m_tcp /\ fd \notin m_connected
      /\ fd \notin m_listen /\ fd \notin m_nonblocking
  BY <1>1, <1>2 DEF TableInv, FdSetsCurrent, Sockets
<1> QED BY <1>1, <1>2, <1>3

\* A free descriptor is given to socket s, which no table held before or which
\* was pending and no longer is: socket() and both forms of accept.
LEMMA SocketGetsDescriptor ==
  ASSUME TableInv, NEW fd \in availableFDs, NEW s \in Socks,
         NEW l \in {"tcp", "udp", "established"},
         \A f \in FDs : m_sockets[f] # s,
         \A f \in FDs : m_fakeAccepted'[f] # s,
         \A f \in FDs : m_fakeAccepted'[f] \in {m_fakeAccepted[f], NoSock},
         m_fakeAccepted' \in [FDs -> Socks \cup {NoSock}],
         life' = [life EXCEPT ![s] = l],
         availableFDs' = availableFDs \ {fd},
         m_sockets' = [m_sockets EXCEPT ![fd] = s],
         m_tcp' = IF l = "udp" THEN m_tcp ELSE m_tcp \cup {fd},
         m_connected' = IF l = "established" THEN m_connected \cup {fd} ELSE m_connected,
         UNCHANGED <<m_listen, m_nonblocking, m_random, m_netlinks, connectCb>>
  PROVE  TableInv'
<1>1. /\ fd \in FDs /\ m_sockets[fd] = NoSock
      /\ fd \notin m_netlinks /\ fd \notin m_random
      /\ fd \notin m_tcp /\ fd \notin m_connected
      /\ fd \notin m_listen /\ fd \notin m_nonblocking
  BY FreeDescriptor
<1>2. s # NoSock
  BY NoSockAssumption
<1>3. /\ TableTypes
      /\ m_sockets'[fd] = s /\ life'[s] = l
      /\ \A f \in FDs \ {fd} : m_sockets'[f] = m_sockets[f]
      /\ \A x \in Socks \ {s} : life'[x] = life[x]
  BY <1>1 DEF TableInv, TableTypes
<1>4. TableTypes'
  BY <1>1, <1>3 DEF TableTypes, Lives
<1>5. FdPartition'
  BY <1>1, <1>2, <1>3 DEF TableInv, FdPartition, FdIsEmulatedSocket
<1>6. FdSetsCurrent'
  <2>1. (m_nonblocking \subseteq Sockets(FDs))' /\ (m_listen \subseteq m_tcp)'
    BY <1>1, <1>2, <1>3 DEF TableInv, FdSetsCurrent, Sockets, TableTypes
  <2>2. (\A f \in m_tcp : m_sockets[f] # NoSock /\ life[m_sockets[f]] # "udp")'
    BY <1>1, <1>2, <1>3 DEF TableInv, FdSetsCurrent, TableTypes
  <2>3. (\A f \in m_connected :
           m_sockets[f] # NoSock /\ life[m_sockets[f]] \in {"udp", "established"})'
    BY <1>1, <1>2, <1>3 DEF TableInv, FdSetsCurrent, TableTypes
  <2> QED BY <2>1, <2>2, <2>3 DEF FdSetsCurrent
<1>7. OneOwner'
  <2>1. (\A f, g \in Sockets(FDs) : m_sockets[f] = m_sockets[g] => f = g)'
    BY <1>1, <1>2, <1>3 DEF TableInv, OneOwner, Sockets
  <2>2. (\A f, g \in FDs :
           m_fakeAccepted[f] # NoSock =>
             /\ m_fakeAccepted[f] # m_sockets[g]
             /\ m_fakeAccepted[f] = m_fakeAccepted[g] => f = g)'
    BY <1>1, <1>2, <1>3 DEF TableInv, OneOwner
  <2>3. (\A f \in Sockets(FDs) : life[m_sockets[f]] \notin {"fresh", "closed"})'
    BY <1>1, <1>2, <1>3 DEF TableInv, OneOwner, Sockets, TableTypes
  <2> QED BY <2>1, <2>2, <2>3 DEF OneOwner
<1>8. PendingEstablished'
  BY <1>3 DEF TableInv, PendingEstablished, TableTypes
<1>9. ConnectingOwned'
  <2>1. ASSUME NEW x \in Socks, life'[x] = "syn"
        PROVE  connectCb'[x].fd \in FDs /\ m_sockets'[connectCb'[x].fd] = x
    <3>1. x # s /\ life[x] = "syn" /\ x # NoSock /\ connectCb' = connectCb
      BY <1>3, <2>1, NoSockAssumption
    <3>2. connectCb[x].fd \in FDs /\ m_sockets[connectCb[x].fd] = x
      BY <3>1 DEF TableInv, ConnectingOwned
    <3> QED BY <1>1, <1>3, <3>1, <3>2
  <2> QED BY <2>1 DEF ConnectingOwned
<1> QED BY <1>4, <1>5, <1>6, <1>7, <1>8, <1>9 DEF TableInv

\* socket() keeps the tables consistent.
LEMMA StepSocketInet ==
  ASSUME TableInv, NEW t \in Threads, HandleSocketInet(t)
  PROVE  TableInv'
<1>1. PICK s \in Socks, type \in {"tcp", "udp"} :
        /\ life[s] = "fresh" /\ life' = [life EXCEPT ![s] = type]
        /\ UNCHANGED connectCb
        /\ \/ UNCHANGED fdVars
           \/ \E fd \in FDs :
                /\ GetNextFD(fd)
                /\ availableFDs' = availableFDs \ {fd}
                /\ m_sockets' = [m_sockets EXCEPT ![fd] = s]
                /\ m_tcp' = IF type = "tcp" THEN m_tcp \cup {fd} ELSE m_tcp
                /\ UNCHANGED <<m_fakeAccepted, m_connected, m_listen, m_nonblocking,
                               m_random, m_netlinks>>
  BY DEF HandleSocketInet, cbVars
<1>2. /\ TableTypes
      /\ \A f \in FDs : m_sockets[f] # s /\ m_fakeAccepted[f] # s
  BY <1>1, NoSockAssumption
     DEF TableInv, TableTypes, OneOwner, Sockets, PendingEstablished
<1>3. CASE UNCHANGED fdVars
  <2>1. /\ life'[s] = type /\ type \in Lives
        /\ \A x \in Socks \ {s} : life'[x] = life[x]
    BY <1>1, <1>2 DEF TableTypes, Lives
  <2>2. TableTypes'
    BY <1>1, <1>2, <1>3, <2>1 DEF TableTypes, fdVars
  <2>3. FdPartition'
    BY <1>3 DEF TableInv, FdPartition, FdIsEmulatedSocket, fdVars
  <2>4. FdSetsCurrent'
    BY <1>1, <1>2, <1>3, <2>1 DEF TableInv, FdSetsCurrent, Sockets, fdVars, TableTypes
  <2>5. OneOwner'
    BY <1>1, <1>2, <1>3, <2>1 DEF TableInv, OneOwner, Sockets, fdVars, TableTypes
  <2>6. PendingEstablished' /\ ConnectingOwned'
    BY <1>1, <1>2, <1>3, <2>1
       DEF TableInv, PendingEstablished, ConnectingOwned, fdVars, TableTypes
  <2> QED BY <2>2, <2>3, <2>4, <2>5, <2>6 DEF TableInv
<1>4. ASSUME NEW fd \in FDs, GetNextFD(fd),
             availableFDs' = availableFDs \ {fd},
             m_sockets' = [m_sockets EXCEPT ![fd] = s],
             m_tcp' = IF type = "tcp" THEN m_tcp \cup {fd} ELSE m_tcp,
             UNCHANGED <<m_fakeAccepted, m_connected, m_listen, m_nonblocking,
                         m_random, m_netlinks>>
      PROVE  TableInv'
  <2>1. fd \in availableFDs
    BY <1>4 DEF GetNextFD
  <2>2. /\ m_fakeAccepted' \in [FDs -> Socks \cup {NoSock}]
        /\ \A f \in FDs : m_fakeAccepted'[f] # s
        /\ \A f \in FDs : m_fakeAccepted'[f] \in {m_fakeAccepted[f], NoSock}
    BY <1>2, <1>4 DEF TableTypes
  <2>3. /\ m_tcp' = IF type = "udp" THEN m_tcp ELSE m_tcp \cup {fd}
        /\ m_connected' =
             IF type = "established" THEN m_connected \cup {fd} ELSE m_connected
        /\ type \in {"tcp", "udp", "established"}
    BY <1>1, <1>4
  <2> QED BY <1>1, <1>2, <1>4, <2>1, <2>2, <2>3, SocketGetsDescriptor
<1> QED BY <1>1, <1>3, <1>4

-----------------------------------------------------------------------------
\* accept() of a pending connection keeps the tables consistent.
LEMMA StepAcceptPending ==
  ASSUME TableInv, NEW t \in Threads, HandleAcceptPending(t)
  PROVE  TableInv'
<1>1. PICK fd \in m_listen :
        /\ m_fakeAccepted[fd] # NoSock
        /\ m_fakeAccepted' = [m_fakeAccepted EXCEPT ![fd] = NoSock]
        /\ UNCHANGED <<life, connectCb>>
        /\ \/ UNCHANGED <<availableFDs, m_sockets, m_tcp, m_connected, m_listen,
                         m_nonblocking, m_random, m_netlinks>>
           \/ \E new \in FDs : Accepted(new, m_fakeAccepted[fd])
  BY DEF HandleAcceptPending, cbVars
<1> DEFINE s == m_fakeAccepted[fd]
<1>2. /\ TableTypes /\ fd \in FDs /\ s \in Socks /\ life[s] = "established"
      /\ \A f \in FDs : m_sockets[f] # s
      /\ \A f \in FDs \ {fd} : m_fakeAccepted[f] # s
  BY <1>1 DEF TableInv, TableTypes, OneOwner, PendingEstablished
<1>3. /\ m_fakeAccepted' \in [FDs -> Socks \cup {NoSock}]
      /\ \A f \in FDs : m_fakeAccepted'[f] # s
      /\ \A f \in FDs : m_fakeAccepted'[f] \in {m_fakeAccepted[f], NoSock}
  BY <1>1, <1>2 DEF TableTypes
<1>4. CASE UNCHANGED <<availableFDs, m_sockets, m_tcp, m_connected, m_listen,
                       m_nonblocking, m_random, m_netlinks>>
  <2>1. TableTypes'
    BY <1>1, <1>2, <1>3, <1>4 DEF TableTypes
  <2>2. FdPartition' /\ FdSetsCurrent' /\ ConnectingOwned'
    BY <1>1, <1>4 DEF TableInv, FdPartition, FdIsEmulatedSocket, FdSetsCurrent,
                      Sockets, ConnectingOwned
  <2>3. OneOwner'
    BY <1>1, <1>3, <1>4 DEF TableInv, OneOwner, Sockets
  <2>4. PendingEstablished'
    BY <1>1, <1>3 DEF TableInv, PendingEstablished
  <2> QED BY <2>1, <2>2, <2>3, <2>4 DEF TableInv
<1>5. ASSUME NEW new \in FDs, Accepted(new, s) PROVE TableInv'
  <2>1. new \in availableFDs
    BY <1>5 DEF Accepted, GetNextFD
  <2>2. life' = [life EXCEPT ![s] = "established"]
    BY <1>1, <1>2 DEF TableTypes
  <2>3. /\ availableFDs' = availableFDs \ {new}
        /\ m_sockets' = [m_sockets EXCEPT ![new] = s]
        /\ m_tcp' = m_tcp \cup {new} /\ m_connected' = m_connected \cup {new}
        /\ UNCHANGED <<m_listen, m_nonblocking, m_random, m_netlinks, connectCb>>
    BY <1>1, <1>5 DEF Accepted
  <2> HIDE DEF s
  <2> DEFINE l == "established"
  <2>4. /\ m_tcp' = IF l = "udp" THEN m_tcp ELSE m_tcp \cup {new}
        /\ m_connected' = IF l = "established" THEN m_connected \cup {new} ELSE m_connected
        /\ l \in {"tcp", "udp", "established"} /\ life' = [life EXCEPT ![s] = l]
    BY <2>2, <2>3
  <2> HIDE DEF l
  <2> QED BY <1>2, <1>3, <2>1, <2>3, <2>4, SocketGetsDescriptor
<1> QED BY <1>1, <1>4, <1>5

\* A connection that becomes pending keeps the tables consistent.
LEMMA ConnectionPending ==
  ASSUME TableInv, NEW s \in Socks, life[s] = "fresh",
         life' = [life EXCEPT ![s] = "established"], NEW fd,
         m_fakeAccepted' = m_fakeAccepted \/
           m_fakeAccepted' = [m_fakeAccepted EXCEPT ![fd] = s],
         UNCHANGED <<availableFDs, m_sockets, m_tcp, m_connected, m_listen,
                     m_nonblocking, m_random, m_netlinks, connectCb>>
  PROVE  TableInv'
<1>1. /\ TableTypes /\ \A f \in FDs : m_sockets[f] # s /\ m_fakeAccepted[f] # s
      /\ s # NoSock
  BY NoSockAssumption DEF TableInv, TableTypes, OneOwner, Sockets, PendingEstablished
<1>2. life'[s] = "established" /\ \A x \in Socks \ {s} : life'[x] = life[x]
  BY <1>1 DEF TableTypes
<1>3. \A f \in FDs : m_fakeAccepted'[f] = m_fakeAccepted[f]
                       \/ (f = fd /\ m_fakeAccepted'[f] = s)
  BY <1>1 DEF TableTypes
<1>4. TableTypes'
  BY <1>1 DEF TableTypes, Lives
<1>5. FdPartition'
  BY DEF TableInv, FdPartition, FdIsEmulatedSocket
<1>6. FdSetsCurrent' /\ ConnectingOwned'
  BY <1>1, <1>2 DEF TableInv, FdSetsCurrent, ConnectingOwned, Sockets, TableTypes
<1>7. OneOwner'
  <2>1. (\A f, g \in Sockets(FDs) : m_sockets[f] = m_sockets[g] => f = g)'
    BY DEF TableInv, OneOwner, Sockets
  <2>2. (\A f, g \in FDs :
           m_fakeAccepted[f] # NoSock =>
             /\ m_fakeAccepted[f] # m_sockets[g]
             /\ m_fakeAccepted[f] = m_fakeAccepted[g] => f = g)'
    BY <1>1, <1>3 DEF TableInv, OneOwner
  <2>3. (\A f \in Sockets(FDs) : life[m_sockets[f]] \notin {"fresh", "closed"})'
    BY <1>1, <1>2 DEF TableInv, OneOwner, Sockets, TableTypes
  <2> QED BY <2>1, <2>2, <2>3 DEF OneOwner
<1>8. PendingEstablished'
  BY <1>1, <1>2, <1>3 DEF TableInv, PendingEstablished, TableTypes
<1> QED BY <1>4, <1>5, <1>6, <1>7, <1>8 DEF TableInv

\* A complete connection keeps the tables consistent, whichever callback runs.
LEMMA StepIncoming ==
  ASSUME TableInv, NEW k \in Socks, NEW s \in Socks, Incoming(k, s)
  PROVE  TableInv'
<1> DEFINE cb == acceptCb[k]
           rest == <<availableFDs, m_sockets, m_tcp, m_connected, m_listen,
                     m_nonblocking, m_random, m_netlinks, connectCb>>
<1>1. life[s] = "fresh" /\ life' = [life EXCEPT ![s] = "established"]
  BY DEF Incoming
<1>2. \/ UNCHANGED rest /\ (m_fakeAccepted' = m_fakeAccepted \/
                            m_fakeAccepted' = [m_fakeAccepted EXCEPT ![cb.fd] = s])
      \/ /\ \E new \in FDs : Accepted(new, s)
         /\ UNCHANGED <<m_fakeAccepted, connectCb>>
  BY DEF Incoming, cbVars, fdVars, SelectHandled
<1>3. CASE UNCHANGED rest /\ (m_fakeAccepted' = m_fakeAccepted \/
                              m_fakeAccepted' = [m_fakeAccepted EXCEPT ![cb.fd] = s])
  BY <1>1, <1>3, ConnectionPending
<1>4. ASSUME NEW new \in FDs, Accepted(new, s), UNCHANGED <<m_fakeAccepted, connectCb>>
      PROVE  TableInv'
  <2>1. new \in availableFDs
    BY <1>4 DEF Accepted, GetNextFD
  <2>2. /\ m_fakeAccepted' \in [FDs -> Socks \cup {NoSock}]
        /\ \A f \in FDs : m_sockets[f] # s
        /\ \A f \in FDs : m_fakeAccepted'[f] # s
        /\ \A f \in FDs : m_fakeAccepted'[f] \in {m_fakeAccepted[f], NoSock}
    BY <1>1, <1>4, NoSockAssumption
       DEF TableInv, TableTypes, OneOwner, Sockets, PendingEstablished
  <2>3. /\ availableFDs' = availableFDs \ {new}
        /\ m_sockets' = [m_sockets EXCEPT ![new] = s]
        /\ m_tcp' = m_tcp \cup {new} /\ m_connected' = m_connected \cup {new}
        /\ UNCHANGED <<m_listen, m_nonblocking, m_random, m_netlinks, connectCb>>
    BY <1>4 DEF Accepted
  <2> DEFINE l == "established"
  <2>4. /\ m_tcp' = IF l = "udp" THEN m_tcp ELSE m_tcp \cup {new}
        /\ m_connected' = IF l = "established" THEN m_connected \cup {new} ELSE m_connected
        /\ l \in {"tcp", "udp", "established"} /\ life' = [life EXCEPT ![s] = l]
    BY <1>1, <2>3
  <2> HIDE DEF l
  <2> QED BY <2>1, <2>2, <2>3, <2>4, SocketGetsDescriptor
<1> QED BY <1>2, <1>3, <1>4

-----------------------------------------------------------------------------
\* A free descriptor is given to a netlink socket or a random device.
LEMMA DeviceGetsDescriptor ==
  ASSUME TableInv, NEW fd \in availableFDs,
         availableFDs' = availableFDs \ {fd},
         \/ m_netlinks' = m_netlinks \cup {fd} /\ m_random' = m_random
         \/ m_random' = m_random \cup {fd} /\ m_netlinks' = m_netlinks,
         UNCHANGED <<m_sockets, m_fakeAccepted, m_tcp, m_connected, m_listen,
                     m_nonblocking, life, connectCb>>
  PROVE  TableInv'
<1>1. /\ fd \in FDs /\ m_sockets[fd] = NoSock
      /\ fd \notin m_netlinks /\ fd \notin m_random
  BY FreeDescriptor
<1>2. TableTypes'
  BY <1>1 DEF TableInv, TableTypes
<1>3. FdPartition'
  BY <1>1 DEF TableInv, FdPartition, FdIsEmulatedSocket
<1>4. FdSetsCurrent' /\ OneOwner' /\ PendingEstablished' /\ ConnectingOwned'
  BY DEF TableInv, FdSetsCurrent, OneOwner, PendingEstablished, ConnectingOwned, Sockets
<1> QED BY <1>2, <1>3, <1>4 DEF TableInv

\* socket(AF_NETLINK) and the open of a random device keep the tables consistent.
LEMMA StepDevice ==
  ASSUME TableInv, NEW t \in Threads, HandleSocketNetlink(t) \/ HandleOpen(t)
  PROVE  TableInv'
<1>1. \/ UNCHANGED tableVars
      \/ \E fd \in availableFDs :
           /\ availableFDs' = availableFDs \ {fd}
           /\ \/ m_netlinks' = m_netlinks \cup {fd} /\ m_random' = m_random
              \/ m_random' = m_random \cup {fd} /\ m_netlinks' = m_netlinks
           /\ UNCHANGED <<m_sockets, m_fakeAccepted, m_tcp, m_connected, m_listen,
                          m_nonblocking, life, connectCb>>
  <2>1. CASE HandleSocketNetlink(t)
    BY <2>1 DEF HandleSocketNetlink, GetNextFD, tableVars, fdVars, cbVars
  <2>2. CASE HandleOpen(t)
    BY <2>2 DEF HandleOpen, GetNextFD, tableVars, fdVars, cbVars
  <2> QED BY <2>1, <2>2
<1> QED BY <1>1, TablesUntouched, DeviceGetsDescriptor

\* close() keeps the tables consistent: the descriptor leaves every socket state
\* set, and its socket, which no other descriptor has, is closed.
LEMMA StepClose ==
  ASSUME TableInv, NEW t \in Threads, HandleClose(t)
  PROVE  TableInv'
<1>1. PICK fd \in FDs :
        \/ UNCHANGED tableVars
        \/ /\ m_sockets[fd] # NoSock
           /\ life' = [life EXCEPT ![m_sockets[fd]] = "closed"]
           /\ m_sockets' = [m_sockets EXCEPT ![fd] = NoSock]
           /\ m_tcp' = m_tcp \ {fd} /\ m_connected' = m_connected \ {fd}
           /\ m_listen' = m_listen \ {fd} /\ m_nonblocking' = m_nonblocking \ {fd}
           /\ availableFDs' = availableFDs \cup {fd}
           /\ UNCHANGED <<m_fakeAccepted, m_random, m_netlinks, connectCb>>
        \/ /\ fd \in m_netlinks \cup m_random
           /\ m_netlinks' = m_netlinks \ {fd} /\ m_random' = m_random \ {fd}
           /\ availableFDs' = availableFDs \cup {fd}
           /\ UNCHANGED <<m_sockets, m_fakeAccepted, m_tcp, m_connected, m_listen,
                          m_nonblocking, life, connectCb>>
  BY DEF HandleClose, tableVars, fdVars, cbVars
<1>2. CASE UNCHANGED tableVars
  BY <1>2, TablesUntouched
<1>3. CASE /\ m_sockets[fd] # NoSock
           /\ life' = [life EXCEPT ![m_sockets[fd]] = "closed"]
           /\ m_sockets' = [m_sockets EXCEPT ![fd] = NoSock]
           /\ m_tcp' = m_tcp \ {fd} /\ m_connected' = m_connected \ {fd}
           /\ m_listen' = m_listen \ {fd} /\ m_nonblocking' = m_nonblocking \ {fd}
           /\ availableFDs' = availableFDs \cup {fd}
           /\ UNCHANGED <<m_fakeAccepted, m_random, m_netlinks, connectCb>>
  <2> DEFINE s == m_sockets[fd]
  <2>1. /\ TableTypes /\ s \in Socks /\ life'[s] = "closed"
        /\ \A x \in Socks \ {s} : life'[x] = life[x]
        /\ m_sockets'[fd] = NoSock
        /\ \A f \in FDs \ {fd} : m_sockets'[f] = m_sockets[f] /\ m_sockets[f] # s
        /\ \A f \in FDs : m_fakeAccepted[f] # s
    BY <1>3 DEF TableInv, TableTypes, OneOwner, Sockets
  <2> HIDE DEF s
  <2>2. TableTypes'
    BY <1>3, <2>1 DEF TableTypes, Lives
  <2>3. FdPartition'
    BY <1>3, <2>1 DEF TableInv, FdPartition, FdIsEmulatedSocket
  <2>4. FdSetsCurrent'
    BY <1>3, <2>1 DEF TableInv, FdSetsCurrent, Sockets, TableTypes
  <2>5. OneOwner'
    BY <1>3, <2>1 DEF TableInv, OneOwner, Sockets, TableTypes
  <2>6. PendingEstablished' /\ ConnectingOwned'
    BY <1>3, <2>1 DEF TableInv, PendingEstablished, ConnectingOwned, TableTypes
  <2> QED BY <2>2, <2>3, <2>4, <2>5, <2>6 DEF TableInv
<1>4. CASE /\ fd \in m_netlinks \cup m_random
           /\ m_netlinks' = m_netlinks \ {fd} /\ m_random' = m_random \ {fd}
           /\ availableFDs' = availableFDs \cup {fd}
           /\ UNCHANGED <<m_sockets, m_fakeAccepted, m_tcp, m_connected, m_listen,
                          m_nonblocking, life, connectCb>>
  <2>1. TableTypes' /\ FdPartition'
    BY <1>4 DEF TableInv, TableTypes, FdPartition, FdIsEmulatedSocket
  <2>2. FdSetsCurrent' /\ OneOwner' /\ PendingEstablished' /\ ConnectingOwned'
    BY <1>4 DEF TableInv, FdSetsCurrent, OneOwner, PendingEstablished,
                ConnectingOwned, Sockets
  <2> QED BY <2>1, <2>2 DEF TableInv
<1> QED BY <1>1, <1>2, <1>3, <1>4

-----------------------------------------------------------------------------
\* fcntl() marks only descriptors of ns-3 sockets.
LEMMA StepFcntl ==
  ASSUME TableInv, NEW t \in Threads, HandleFcntl(t)
  PROVE  TableInv'
<1>1. PICK fd \in FDs :
        /\ \/ m_nonblocking' = m_nonblocking
           \/ m_sockets[fd] # NoSock /\ m_nonblocking' = m_nonblocking \cup {fd}
        /\ UNCHANGED <<availableFDs, m_sockets, m_fakeAccepted, m_tcp, m_connected,
                       m_listen, m_random, m_netlinks, life, connectCb>>
  BY DEF HandleFcntl, cbVars
<1>2. TableTypes' /\ FdPartition'
  BY <1>1 DEF TableInv, TableTypes, FdPartition, FdIsEmulatedSocket
<1>3. FdSetsCurrent'
  BY <1>1 DEF TableInv, FdSetsCurrent, Sockets
<1>4. OneOwner' /\ PendingEstablished' /\ ConnectingOwned'
  BY <1>1 DEF TableInv, OneOwner, PendingEstablished, ConnectingOwned, Sockets
<1> QED BY <1>2, <1>3, <1>4 DEF TableInv

\* listen() marks only TCP descriptors, and makes a listener of a socket that
\* was neither connected nor connecting.
LEMMA StepListen ==
  ASSUME TableInv, NEW t \in Threads, HandleListen(t)
  PROVE  TableInv'
<1>1. PICK fd \in FDs :
        /\ \/ UNCHANGED <<m_listen, life>>
           \/ /\ fd \in m_tcp /\ m_listen' = m_listen \cup {fd}
              /\ \/ UNCHANGED life
                 \/ /\ life[m_sockets[fd]] = "tcp"
                    /\ life' = [life EXCEPT ![m_sockets[fd]] = "listen"]
        /\ UNCHANGED <<availableFDs, m_sockets, m_fakeAccepted, m_tcp, m_connected,
                       m_nonblocking, m_random, m_netlinks, connectCb>>
  BY DEF HandleListen
<1>2. /\ TableTypes
      /\ fd \in m_tcp => m_sockets[fd] \in Socks
  BY DEF TableInv, TableTypes, FdSetsCurrent
<1>3. /\ life' \in [Socks -> Lives]
      /\ \A x \in Socks : life'[x] = life[x] \/ (life[x] = "tcp" /\ life'[x] = "listen")
  BY <1>1, <1>2 DEF TableTypes, Lives
<1>4. TableTypes' /\ FdPartition'
  BY <1>1, <1>2, <1>3 DEF TableInv, TableTypes, FdPartition, FdIsEmulatedSocket
<1>5. FdSetsCurrent'
  BY <1>1, <1>2, <1>3 DEF TableInv, FdSetsCurrent, Sockets, TableTypes
<1>6. OneOwner'
  BY <1>1, <1>2, <1>3 DEF TableInv, OneOwner, Sockets, TableTypes
<1>7. PendingEstablished' /\ ConnectingOwned'
  BY <1>1, <1>2, <1>3 DEF TableInv, PendingEstablished, ConnectingOwned, TableTypes
<1> QED BY <1>4, <1>5, <1>6, <1>7 DEF TableInv

\* connect() marks a UDP descriptor at once; for TCP the callback remembers the
\* descriptor that holds the socket, or is never called.
LEMMA StepConnect ==
  ASSUME TableInv, NEW t \in Threads, HandleConnect(t)
  PROVE  TableInv'
<1>1. PICK fd \in FDs :
        /\ \/ UNCHANGED <<m_connected, life, connectCb>>
           \/ /\ m_sockets[fd] # NoSock /\ life[m_sockets[fd]] = "udp"
              /\ m_connected' = m_connected \cup {fd}
              /\ connectCb' =
                   [connectCb EXCEPT ![m_sockets[fd]] = Callback("connect", t, fd)]
              /\ UNCHANGED life
           \/ /\ m_sockets[fd] # NoSock /\ life[m_sockets[fd]] \in {"tcp", "syn"}
              /\ life' = [life EXCEPT ![m_sockets[fd]] = "syn"]
              /\ connectCb' =
                   [connectCb EXCEPT ![m_sockets[fd]] = Callback("connect", t, fd)]
              /\ UNCHANGED m_connected
           \/ /\ m_sockets[fd] # NoSock /\ life[m_sockets[fd]] # "syn"
              /\ connectCb' =
                   [connectCb EXCEPT ![m_sockets[fd]] = Callback("connect", t, fd)]
              /\ UNCHANGED <<m_connected, life>>
        /\ UNCHANGED <<availableFDs, m_sockets, m_fakeAccepted, m_tcp, m_listen,
                       m_nonblocking, m_random, m_netlinks>>
  BY DEF HandleConnect, TableInv, FdSetsCurrent
<1> DEFINE s == m_sockets[fd]
<1>2. TableTypes /\ (s # NoSock => s \in Socks)
  BY DEF TableInv, TableTypes
<1>3. Callback("connect", t, fd) \in [kind : Kinds, tid : Threads, fd : FDs \cup {0}]
      /\ Callback("connect", t, fd).fd = fd
  BY DEF Callback, Kinds, AllWaits
<1>4. /\ life' \in [Socks -> Lives]
      /\ connectCb' \in [Socks -> [kind : Kinds, tid : Threads, fd : FDs \cup {0}]]
      /\ \A x \in Socks :
           \/ life'[x] = life[x] /\ connectCb'[x] = connectCb[x]
           \/ x = s /\ life'[x] = life[x] /\ life[x] # "syn"
           \/ /\ x = s /\ life[x] \in {"tcp", "syn"} /\ life'[x] = "syn"
              /\ connectCb'[x].fd = fd
  BY <1>1, <1>2, <1>3 DEF TableTypes, Lives
<1>5. TableTypes' /\ FdPartition'
  BY <1>1, <1>2, <1>4 DEF TableInv, TableTypes, FdPartition, FdIsEmulatedSocket
<1>6. FdSetsCurrent'
  BY <1>1, <1>2, <1>4 DEF TableInv, FdSetsCurrent, Sockets, TableTypes
<1>7. OneOwner'
  BY <1>1, <1>2, <1>4 DEF TableInv, OneOwner, Sockets, TableTypes
<1>8. PendingEstablished' /\ ConnectingOwned'
  BY <1>1, <1>2, <1>4 DEF TableInv, PendingEstablished, ConnectingOwned, TableTypes
<1> QED BY <1>5, <1>6, <1>7, <1>8 DEF TableInv

\* The outcome of a TCP connect marks the descriptor the callback remembers,
\* which still holds the socket.
LEMMA StepConnectDone ==
  ASSUME TableInv, NEW s \in Socks, ConnectDone(s)
  PROVE  TableInv'
<1>1. /\ life[s] = "syn"
      /\ \/ /\ life' = [life EXCEPT ![s] = "established"]
            /\ m_connected' = m_connected \cup {connectCb[s].fd}
         \/ /\ life' = [life EXCEPT ![s] = "tcp"]
            /\ UNCHANGED m_connected
      /\ UNCHANGED <<availableFDs, m_sockets, m_fakeAccepted, m_tcp, m_listen,
                     m_nonblocking, m_random, m_netlinks, connectCb>>
  BY DEF ConnectDone, cbVars
<1>2. TableTypes /\ connectCb[s].fd \in FDs /\ m_sockets[connectCb[s].fd] = s
  BY <1>1 DEF TableInv, ConnectingOwned
<1>3. /\ life' \in [Socks -> Lives]
      /\ \A x \in Socks \ {s} : life'[x] = life[x]
      /\ \/ life'[s] = "established" /\ m_connected' = m_connected \cup {connectCb[s].fd}
         \/ life'[s] = "tcp" /\ m_connected' = m_connected
  BY <1>1, <1>2 DEF TableTypes, Lives
<1>4. TableTypes' /\ FdPartition'
  BY <1>1, <1>2, <1>3 DEF TableInv, TableTypes, FdPartition, FdIsEmulatedSocket
<1>5. FdSetsCurrent'
  BY <1>1, <1>2, <1>3, NoSockAssumption DEF TableInv, FdSetsCurrent, Sockets, TableTypes
<1>6. OneOwner'
  BY <1>1, <1>2, <1>3 DEF TableInv, OneOwner, Sockets, TableTypes
<1>7. PendingEstablished' /\ ConnectingOwned'
  BY <1>1, <1>2, <1>3 DEF TableInv, PendingEstablished, ConnectingOwned, TableTypes
<1> QED BY <1>4, <1>5, <1>6, <1>7 DEF TableInv

-----------------------------------------------------------------------------
\* Every step keeps the tables consistent.
LEMMA NextTables == TableInv /\ [Next]_vars => TableInv'
<1> SUFFICES ASSUME TableInv, [Next]_vars PROVE TableInv'
  OBVIOUS
<1>1. CASE UNCHANGED vars
  BY <1>1, TablesUntouched DEF vars, tableVars, cbVars
<1>2. ASSUME NEW t \in Threads, HandleSyscallBefore(t) \/ SelectTimeout(t)
      PROVE  TableInv'
  <2>1. CASE \/ HandleSocketRefused(t) \/ HandleAcceptNone(t)
             \/ HandleRead(t) \/ HandleRecvFrom(t) \/ HandleWrite(t)
             \/ HandleSelectNow(t) \/ HandleSelectWait(t) \/ HandleSelectExcept(t)
             \/ SelectTimeout(t)
    BY <2>1, ThreadSteps, TablesUntouched
  <2>2. CASE HandleSocketInet(t)
    BY <2>2, StepSocketInet
  <2>3. CASE HandleSocketNetlink(t) \/ HandleOpen(t)
    BY <2>3, StepDevice
  <2>4. CASE HandleClose(t)
    BY <2>4, StepClose
  <2>5. CASE HandleFcntl(t)
    BY <2>5, StepFcntl
  <2>6. CASE HandleListen(t)
    BY <2>6, StepListen
  <2>7. CASE HandleConnect(t)
    BY <2>7, StepConnect
  <2>8. CASE HandleAcceptPending(t)
    BY <2>8, StepAcceptPending
  <2> QED BY <1>2, <2>1, <2>2, <2>3, <2>4, <2>5, <2>6, <2>7, <2>8
          DEF HandleSyscallBefore
<1>3. ASSUME NEW s \in Socks, Receive(s) \/ Drain(s) PROVE TableInv'
  BY <1>3, BufferSteps, TablesUntouched
<1>4. ASSUME NEW s \in Socks, ConnectDone(s) PROVE TableInv'
  BY <1>4, StepConnectDone
<1>5. ASSUME NEW l \in Socks, NEW s \in Socks, Incoming(l, s) PROVE TableInv'
  BY <1>5, StepIncoming
<1> QED BY <1>1, <1>2, <1>3, <1>4, <1>5 DEF Next

(***************************************************************************)
(* The tables of descriptors and sockets stay consistent, with every       *)
(* pending connection established and every connecting socket still held   *)
(* by the descriptor its callback will mark.                               *)
(***************************************************************************)
THEOREM TablesInvariant == Spec => []TableInv
  BY InitTables, NextTables, PTL DEF Spec

(***************************************************************************)
(* Whatever threads, callbacks and events do, a descriptor is free, an     *)
(* ns-3 socket, a netlink socket or a random device, and only one of them  *)
(* (GetNextFD, HandleClose).                                               *)
(***************************************************************************)
THEOREM DescriptorsPartitioned == Spec => []FdPartition
<1>1. TableInv => FdPartition
  BY DEF TableInv
<1> QED BY <1>1, TablesInvariant, PTL

(***************************************************************************)
(* The socket state sets always describe the socket that holds the         *)
(* descriptor now, also when a callback that captured the descriptor marks *)
(* it after other threads closed and reopened descriptors.                 *)
(***************************************************************************)
THEOREM SetsDescribeSocket == Spec => []FdSetsCurrent
<1>1. TableInv => FdSetsCurrent
  BY DEF TableInv
<1> QED BY <1>1, TablesInvariant, PTL

(***************************************************************************)
(* An ns-3 socket has one descriptor or waits as one pending connection,   *)
(* never both, and a closed socket is in no table (HandleAccept and its    *)
(* callbacks, HandleClose).                                                *)
(***************************************************************************)
THEOREM SocketsHaveOneOwner == Spec => []OneOwner
<1>1. TableInv => OneOwner
  BY DEF TableInv
<1> QED BY <1>1, TablesInvariant, PTL
=============================================================================
