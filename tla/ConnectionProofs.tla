--------------------------- MODULE ConnectionProofs ---------------------------
(***************************************************************************)
(* Proofs about the registry and the connections of the proxy: no ended    *)
(* connection leaves a ghost in an exclusive slot, no living one is        *)
(* forgotten.                                                              *)
(***************************************************************************)
EXTENDS ProxyProofs, WellFoundedInduction

-----------------------------------------------------------------------------
(* findBy...() return a match if there is one.                             *)

Below == {p \in Nat \X Nat : p[1] < p[2]}

LEMMA BelowWellFounded == IsWellFoundedOn(Below, Nat)
BY NatLessThanWellFounded DEF OpToRel, Below

LEMMA LastMatchIn ==
  ASSUME NEW n \in Nat, NEW S, S \subseteq 1 .. n, S # {}
  PROVE  lastMatch(S) \in S
<1> DEFINE T == {n - u : u \in S}
<1>1. \A u \in S : u \in Nat /\ n - u \in Nat
  OBVIOUS
<1>2. T \subseteq Nat /\ T # {}
  BY <1>1
<1>3. PICK x \in T : \A y \in T : ~(<<y, x>> \in Below)
  <2> HIDE DEF T
  <2> QED
    BY <1>2, BelowWellFounded, WFMin
<1>4. PICK u \in S : x = n - u
  OBVIOUS
<1>5. ASSUME NEW v \in S PROVE u >= v
  <2>1. <<n - v, n - u>> \notin Below
    BY <1>3, <1>4
  <2>2. <<n - v, n - u>> \in Nat \X Nat
    BY <1>1
  <2>3. ~(n - v < n - u)
    BY <2>1, <2>2 DEF Below
  <2> QED
    BY <1>1, <2>3
<1> QED
  BY <1>5 DEF lastMatch, Max

LEMMA FoundBySocket ==
  ASSUME TypeOK, NEW s \in Socket, NEW u \in DOMAIN list, list[u].socket = s
  PROVE  /\ findBySocketId(list, s) \in DOMAIN list
         /\ list[findBySocketId(list, s)].socket = s
<1> DEFINE S == {v \in DOMAIN list : list[v].socket = s}
<1>1. S \subseteq 1 .. Len(issued) /\ S # {} /\ Len(issued) \in Nat
  BY DEF TypeOK, Uid
<1>2. lastMatch(S) \in S
  <2> HIDE DEF S
  <2> QED
    BY <1>1, LastMatchIn
<1> QED
  BY <1>2 DEF findBySocketId

\* 'socket-close' removes an entry of the socket that ended, or nothing.
LEMMA ClosedLeavesOthers ==
  ASSUME TypeOK, NEW s \in Socket, SocketClose(s),
         NEW u \in DOMAIN list, list[u].socket # s
  PROVE  u \in DOMAIN list' /\ list'[u] = list[u]
<1> DEFINE gone == findBySocketId(list, s)
<1>1. list' = remove(list, gone) /\ list \in [DOMAIN list -> Entry]
  BY DEF SocketClose, removeBySocketId, TypeOK
<1>2. gone # u
  <2>1. CASE \E v \in DOMAIN list : list[v].socket = s
    BY <2>1, FoundBySocket
  <2>2. CASE ~\E v \in DOMAIN list : list[v].socket = s
    <3>1. {v \in DOMAIN list : list[v].socket = s} = {}
      BY <2>2
    <3>2. gone = NoUid
      BY <3>1 DEF findBySocketId, lastMatch
    <3> QED
      BY <3>2 DEF NoUid, TypeOK, Uid
  <2> QED
    BY <2>1, <2>2
<1> HIDE DEF gone
<1> QED
  BY <1>1, <1>2, RemoveLemma

-----------------------------------------------------------------------------
(* What a step does to the registry and the connections. *)

\* Entry uid is moved to the socket s a message of its client came from.
Moved(s, seq, uid) ==
  /\ Receives(s)
  /\ uid \in DOMAIN list
  /\ issued[uid] = peer[s]
  /\ list' = update(list, uid, s, seq)
  /\ UNCHANGED <<conn, issued>>

LEMMA RegistrySteps ==
  ASSUME [Next]_vars
  PROVE  \/ UNCHANGED <<list, conn, issued>>
         \/ \E s \in Socket, seq \in SeqNum : RegisterDevice(s, seq)
         \/ \E s \in Socket, seq \in SeqNum, uid \in Uid : Moved(s, seq, uid)
         \/ \E s \in Socket : SocketClose(s)
         \/ Restart
<1>1. ASSUME NEW s \in Socket, RegisterRefused(s) PROVE UNCHANGED <<list, conn, issued>>
  BY <1>1 DEF RegisterRefused
<1>2. ASSUME NEW s \in Socket, NEW seq \in SeqNum, NEW uid \in Uid, NEW type \in StickyType,
             \/ ForwardUnknown(type, s, uid, seq)
             \/ ForwardDenied(type, s, uid, seq)
             \/ ForwardDropped(type, s, uid, seq)
      PROVE  UNCHANGED <<list, conn, issued>>
  BY <1>2 DEF ForwardUnknown, ForwardDenied, ForwardDropped
<1>3. ASSUME NEW s \in Socket, NEW seq \in SeqNum, NEW uid \in Uid, NEW type \in StickyType,
             NEW sticky \in BOOLEAN, Forward(type, s, uid, seq, sticky)
      PROVE  Moved(s, seq, uid)
  BY <1>3 DEF Forward, Moved, Sends, isAllowedAction
<1>4. ASSUME NEW s \in Socket, NEW seq \in SeqNum, NEW uid \in Uid, RespondToPing(s, uid, seq)
      PROVE  Moved(s, seq, uid)
  BY <1>4 DEF RespondToPing, Moved, Sends
<1>5. ASSUME NEW s \in Socket, NEW seq \in SeqNum, NEW uid \in Uid, PingUnknown(s, uid, seq)
      PROVE  UNCHANGED <<list, conn, issued>>
  BY <1>5 DEF PingUnknown
<1>6. CASE SendSticky \/ Close \/ UNCHANGED vars
  BY <1>6 DEF SendSticky, Close, vars
<1> QED
  BY <1>1, <1>2, <1>3, <1>4, <1>5, <1>6 DEF Next

LEMMA MovedEntries ==
  ASSUME TypeOK, NEW s \in Socket, NEW seq \in SeqNum, NEW uid, Moved(s, seq, uid)
  PROVE  /\ DOMAIN list' = DOMAIN list
         /\ list'[uid].socket = s
         /\ list'[uid].deviceType = list[uid].deviceType
         /\ \A u \in DOMAIN list \ {uid} : list'[u] = list[u]
<1> DEFINE new == update(list, uid, s, seq)
<1>1. list \in [DOMAIN list -> Entry] /\ uid \in DOMAIN list
  BY DEF TypeOK, Moved
<1>2. /\ DOMAIN new = DOMAIN list
      /\ new[uid] = [deviceType |-> list[uid].deviceType, channel |-> list[uid].channel,
                     socket |-> s, seqNum |-> seq]
      /\ \A u \in DOMAIN list \ {uid} : new[u] = list[u]
  BY <1>1, UpdateLemma
<1> HIDE DEF new
<1>3. list' = new
  BY DEF Moved, new
<1> QED
  BY <1>2, <1>3

LEMMA RegisterEntries ==
  ASSUME TypeOK, NEW s \in Socket, NEW seq \in SeqNum, RegisterDevice(s, seq)
  PROVE  LET uid == Len(issued) + 1
             old == superseded(list, deviceType[peer[s]], channel[peer[s]])
         IN  /\ DOMAIN list' = (DOMAIN list \ {old}) \cup {uid}
             /\ list'[uid].deviceType = deviceType[peer[s]]
             /\ list'[uid].socket = s
             /\ list'[uid].seqNum = seq
             /\ \A u \in DOMAIN list' \ {uid} : u \in DOMAIN list /\ list'[u] = list[u]
             /\ conn' = close(conn, {list[u].socket : u \in {old} \cap DOMAIN list})
<1> DEFINE t == deviceType[peer[s]]
           c == channel[peer[s]]
           uid == Len(issued) + 1
           old == superseded(list, t, c)
           new == add(list, t, c, s, seq, uid)
<1>1. t \in DeviceType /\ c \in Channel
  BY ClientAssumption
<1>2. uid \in Nat /\ uid \notin DOMAIN list /\ list \in [DOMAIN list -> Entry]
  BY DEF TypeOK, Uid
<1>3. list' = new /\ conn' = close(conn, {list[u].socket : u \in {old} \cap DOMAIN list})
  BY DEF RegisterDevice
<1> HIDE DEF t, c, uid, old
<1>4. /\ DOMAIN new = (DOMAIN list \ {superseded(list, t, c)}) \cup {uid}
      /\ new[uid] = [deviceType |-> t, channel |-> c, socket |-> s, seqNum |-> seq]
      /\ \A u \in DOMAIN new \ {uid} : u \in DOMAIN list /\ new[u] = list[u]
  BY <1>1, <1>2, AddLemma
<1> HIDE DEF new
<1>5. /\ DOMAIN list' = (DOMAIN list \ {old}) \cup {uid}
      /\ list'[uid].deviceType = t
      /\ list'[uid].socket = s
      /\ list'[uid].seqNum = seq
      /\ \A u \in DOMAIN list' \ {uid} : u \in DOMAIN list /\ list'[u] = list[u]
      /\ conn' = close(conn, {list[u].socket : u \in {old} \cap DOMAIN list})
  BY <1>3, <1>4 DEF old
<1> QED
  BY <1>5 DEF uid, old, t, c

\* Closing destroys the TCP sockets among those given and no other.
LEMMA CloseLemma ==
  ASSUME NEW c \in [Socket -> {"open", "destroyed", "closed"}], NEW T, NEW s \in Socket
  PROVE  /\ close(c, T)[s] = "closed" <=> c[s] = "closed"
         /\ close(c, T)[s] = "open" => c[s] = "open" /\ (s \in T => protocol[s] # "tcp")
         /\ \/ close(c, T)[s] = c[s]
            \/ close(c, T)[s] = "destroyed" /\ s \in T /\ protocol[s] = "tcp"
<1>1. close(c, T)[s] = IF s \in T /\ protocol[s] = "tcp" /\ c[s] = "open"
                         THEN "destroyed" ELSE c[s]
  BY DEF close
<1> QED
  BY <1>1

-----------------------------------------------------------------------------
(* Ghosts. *)

\* Only TCP connections end, and only one that has registered is destroyed.
EndedConnections ==
  \A s \in Socket : conn[s] # "open" =>
    /\ protocol[s] = "tcp"
    /\ conn[s] = "destroyed" => \E v \in Uid : issued[v] = peer[s]

LEMMA StepEnded ==
  TypeOK /\ EntriesOwned /\ EndedConnections /\ [Next]_vars => EndedConnections'
<1> SUFFICES ASSUME TypeOK, EntriesOwned, EndedConnections, [Next]_vars
             PROVE  EndedConnections'
  OBVIOUS
<1>0. conn \in [Socket -> {"open", "destroyed", "closed"}] /\ issued \in Seq(Device)
  BY DEF TypeOK
<1>1. CASE UNCHANGED <<conn, issued>>
  BY <1>1 DEF EndedConnections, Uid
<1>2. ASSUME NEW s \in Socket, NEW seq \in SeqNum, RegisterDevice(s, seq)
      PROVE  EndedConnections'
  <2> DEFINE old == superseded(list, deviceType[peer[s]], channel[peer[s]])
             ended == {list[u].socket : u \in {old} \cap DOMAIN list}
  <2>1. conn' = close(conn, ended) /\ issued' = Append(issued, peer[s])
    BY <1>2 DEF RegisterDevice
  <2>2. Uid \subseteq Uid' /\ \A v \in Uid : issued'[v] = issued[v]
    BY <1>0, <2>1 DEF Uid
  <2>3. \A t \in ended : \E v \in Uid : issued[v] = peer[t]
    BY DEF EntriesOwned, TypeOK
  <2> HIDE DEF ended
  <2>4. ASSUME NEW t \in Socket, conn'[t] # "open"
        PROVE  /\ protocol[t] = "tcp"
               /\ conn'[t] = "destroyed" => \E v \in Uid' : issued'[v] = peer[t]
    <3>1. \/ close(conn, ended)[t] = conn[t]
          \/ close(conn, ended)[t] = "destroyed" /\ t \in ended /\ protocol[t] = "tcp"
      BY <1>0, CloseLemma
    <3> QED
      BY <2>1, <2>2, <2>3, <2>4, <3>1 DEF EndedConnections
  <2> QED
    BY <2>4 DEF EndedConnections
<1>3. ASSUME NEW s \in Socket, NEW seq, NEW uid, Moved(s, seq, uid) PROVE EndedConnections'
  BY <1>1, <1>3 DEF Moved
<1>4. ASSUME NEW s \in Socket, SocketClose(s) PROVE EndedConnections'
  BY <1>0, <1>4 DEF SocketClose, EndedConnections, Uid
<1>5. CASE Restart
  BY <1>0, <1>5 DEF Restart, EndedConnections, Uid
<1> QED
  BY <1>1, <1>2, <1>3, <1>4, <1>5, RegistrySteps

LEMMA RegisterNoGhosts ==
  ASSUME TypeOK, OnlyOnePerChannel, EntriesOwned, EndedConnections, NoGhosts,
         NEW s \in Socket, NEW seq \in SeqNum, RegisterDevice(s, seq)
  PROVE  NoGhosts'
<1> DEFINE uid == Len(issued) + 1
           old == superseded(list, deviceType[peer[s]], channel[peer[s]])
           ended == {list[u].socket : u \in {old} \cap DOMAIN list}
<1>1. /\ list'[uid].socket = s
      /\ \A u \in DOMAIN list' \ {uid} : u \in DOMAIN list \ {old} /\ list'[u] = list[u]
      /\ conn' = close(conn, ended)
  <2>1. uid \notin DOMAIN list
    BY DEF TypeOK, Uid
  <2> QED
    BY <2>1, RegisterEntries
<1>2. /\ conn \in [Socket -> {"open", "destroyed", "closed"}]
      /\ issued \in Seq(Device) /\ DOMAIN list \subseteq 1 .. Len(issued)
      /\ \A u \in DOMAIN list : list[u].socket \in Socket
  BY DEF TypeOK, Entry, Uid
<1>3. issued' = Append(issued, peer[s]) /\ conn[s] # "closed"
  BY DEF RegisterDevice, Receives
<1>4. /\ \A v \in 1 .. Len(issued) : issued'[v] = issued[v]
      /\ issued'[uid] = peer[s] /\ uid - 1 = Len(issued) /\ Len(issued) \in Nat
  BY <1>2, <1>3
<1>5. \A t \in ended : t \in Socket /\ old \in DOMAIN list /\ list[old].socket = t
  BY <1>2
<1> HIDE DEF uid, old, ended
<1>6. \A t \in Socket : \/ conn'[t] = conn[t]
                        \/ conn'[t] = "destroyed" /\ t \in ended
  BY <1>1, <1>2, CloseLemma
<1>7. ASSUME conn'[s] # "open"
      PROVE  conn'[s] = "destroyed" /\ \E v \in 1 .. Len(issued) : issued[v] = peer[s]
  <2>1. CASE s \in ended
    <3>1. old \in 1 .. Len(issued) /\ issued[old] = peer[s]
      BY <1>2, <1>5, <2>1 DEF EntriesOwned
    <3>2. conn'[s] = "destroyed"
      BY <1>2, <1>3, <1>6, <1>7
    <3> QED
      BY <3>1, <3>2
  <2>2. CASE s \notin ended
    BY <1>2, <1>3, <1>6, <1>7, <2>2 DEF EndedConnections, Uid
  <2> QED
    BY <2>1, <2>2
<1>8. ASSUME NEW u \in DOMAIN list', u # uid, exclusive(list'[u].deviceType),
             conn'[list'[u].socket] # "open"
      PROVE  /\ conn'[list'[u].socket] = "destroyed"
             /\ \E v \in 1 .. u - 1 : issued'[v] = issued'[u]
  <2>1. u \in DOMAIN list /\ u # old /\ list'[u] = list[u] /\ u \in 1 .. Len(issued)
    BY <1>1, <1>2, <1>8
  <2>2. list[u].socket \notin ended
    <3> SUFFICES ASSUME list[u].socket \in ended PROVE FALSE
      OBVIOUS
    <3>1. old \in DOMAIN list /\ list[old].socket = list[u].socket
      BY <1>5
    <3>2. /\ list[u].deviceType = list[old].deviceType
          /\ list[u].channel = list[old].channel
      BY <2>1, <3>1 DEF EntriesOwned
    <3> QED
      BY <1>8, <2>1, <3>1, <3>2 DEF OnlyOnePerChannel
  <2>3. conn'[list[u].socket] = conn[list[u].socket]
    BY <1>2, <1>6, <2>1, <2>2
  <2>4. PICK v \in 1 .. u - 1 : conn[list[u].socket] = "destroyed" /\ issued[v] = issued[u]
    BY <1>8, <2>1, <2>3 DEF NoGhosts
  <2>5. v \in 1 .. Len(issued)
    BY <1>4, <2>1, <2>4
  <2> QED
    BY <1>4, <2>1, <2>3, <2>4, <2>5
<1>9. ASSUME conn'[list'[uid].socket] # "open"
      PROVE  /\ conn'[list'[uid].socket] = "destroyed"
             /\ \E v \in 1 .. uid - 1 : issued'[v] = issued'[uid]
  BY <1>1, <1>4, <1>7, <1>9
<1> QED
  BY <1>8, <1>9 DEF NoGhosts

\* Entries of a destroyed connection do not move: its client has no other.
LEMMA MovedNoGhosts ==
  ASSUME TypeOK, EntriesOwned, EndedConnections, NoGhosts,
         NEW s \in Socket, NEW seq \in SeqNum, NEW uid \in Uid, Moved(s, seq, uid)
  PROVE  NoGhosts'
<1>1. /\ DOMAIN list' = DOMAIN list
      /\ list'[uid].socket = s
      /\ list'[uid].deviceType = list[uid].deviceType
      /\ \A u \in DOMAIN list \ {uid} : list'[u] = list[u]
  BY MovedEntries
<1>2. conn' = conn /\ issued' = issued /\ uid \in DOMAIN list /\ issued[uid] = peer[s]
  BY DEF Moved
<1>3. ASSUME conn[s] # "open" PROVE list[uid].socket = s
  <2>1. protocol[s] = "tcp"
    BY <1>3 DEF EndedConnections
  <2>2. list[uid].socket \in Socket /\ peer[list[uid].socket] = peer[s]
    BY <1>2 DEF EntriesOwned, TypeOK, Entry
  <2> QED
    BY <2>1, <2>2, ClientAssumption
<1>4. ASSUME NEW u \in DOMAIN list', exclusive(list'[u].deviceType),
             conn[list'[u].socket] # "open"
      PROVE  exclusive(list[u].deviceType) /\ list[u].socket = list'[u].socket
  BY <1>1, <1>3, <1>4
<1> QED
  BY <1>1, <1>2, <1>4 DEF NoGhosts

\* 'socket-close' removes the one entry the socket has in an exclusive slot.
LEMMA SocketCloseNoGhosts ==
  ASSUME TypeOK, OnlyOnePerChannel, EntriesOwned, NoGhosts, NEW s \in Socket, SocketClose(s)
  PROVE  NoGhosts'
<1> DEFINE gone == findBySocketId(list, s)
<1>1. list' = remove(list, gone) /\ list \in [DOMAIN list -> Entry]
  BY DEF SocketClose, removeBySocketId, TypeOK
<1>2. DOMAIN list' = DOMAIN list \ {gone} /\ \A u \in DOMAIN list' : list'[u] = list[u]
  <2> HIDE DEF gone
  <2> QED
    BY <1>1, RemoveLemma
<1>3. ASSUME NEW u \in DOMAIN list', exclusive(list'[u].deviceType)
      PROVE  list'[u].socket # s
  <2> SUFFICES ASSUME list[u].socket = s PROVE FALSE
    BY <1>2
  <2>1. u \in DOMAIN list /\ exclusive(list[u].deviceType)
    BY <1>2, <1>3
  <2>2. gone \in DOMAIN list /\ list[gone].socket = s
    BY <2>1, FoundBySocket
  <2>3. /\ list[u].deviceType = list[gone].deviceType
        /\ list[u].channel = list[gone].channel
    BY <2>1, <2>2 DEF EntriesOwned
  <2>4. u = gone
    BY <2>1, <2>2, <2>3 DEF OnlyOnePerChannel
  <2> QED
    BY <1>2, <2>4
<1>4. issued' = issued /\ \A t \in Socket \ {s} : conn'[t] = conn[t]
  BY DEF SocketClose, TypeOK
<1>5. \A u \in DOMAIN list : list[u].socket \in Socket
  BY <1>1 DEF Entry
<1> HIDE DEF gone
<1> QED
  BY <1>2, <1>3, <1>4, <1>5 DEF NoGhosts

LEMMA StepNoGhosts ==
  ASSUME TypeOK, OnlyOnePerChannel, EntriesOwned, EndedConnections, NoGhosts, [Next]_vars
  PROVE  NoGhosts'
<1>1. CASE UNCHANGED <<list, conn, issued>>
  BY <1>1 DEF NoGhosts
<1>2. CASE Restart
  BY <1>2 DEF Restart, NoGhosts
<1> QED
  BY <1>1, <1>2, RegisterNoGhosts, MovedNoGhosts, SocketCloseNoGhosts, RegistrySteps

\* No entry of an exclusive slot outlives its connection, with one exception:
\* a client that has registered before and whose connection was destroyed.
THEOREM NoGhostsRemain == Spec => []NoGhosts
<1>1. Init => NoGhosts /\ EndedConnections
  BY DEF Init, NoGhosts, EndedConnections
<1>2. /\ TypeOK /\ OnlyOnePerChannel /\ Provenance /\ EndedConnections /\ NoGhosts
      /\ [Next]_vars
      => NoGhosts' /\ EndedConnections'
  BY StepNoGhosts, StepEnded DEF Provenance
<1> QED
  BY <1>1, <1>2, TypeCorrect, OneDevicePerSlot, ProvenanceKept, PTL DEF Spec

-----------------------------------------------------------------------------
(* Connected TCP clients. *)

LEMMA StepConnected ==
  ASSUME TypeOK, EntriesOwned, ConnectedIsRegistered, [Next]_vars
  PROVE  ConnectedIsRegistered'
<1>1. CASE UNCHANGED <<list, conn, issued>>
  BY <1>1 DEF ConnectedIsRegistered, Uid
<1>2. ASSUME NEW s \in Socket, NEW seq \in SeqNum, RegisterDevice(s, seq)
      PROVE  ConnectedIsRegistered'
  <2> DEFINE uid == Len(issued) + 1
             old == superseded(list, deviceType[peer[s]], channel[peer[s]])
             ended == {list[u].socket : u \in {old} \cap DOMAIN list}
  <2>1. /\ DOMAIN list' = (DOMAIN list \ {old}) \cup {uid}
        /\ list'[uid].socket = s
        /\ \A u \in DOMAIN list' \ {uid} : u \in DOMAIN list /\ list'[u] = list[u]
        /\ conn' = close(conn, ended)
    BY <1>2, RegisterEntries
  <2>2. ASSUME NEW t \in Socket, NEW v \in Uid', protocol[t] = "tcp", conn'[t] = "open",
               issued'[v] = peer[t]
        PROVE  \E u \in DOMAIN list' : list'[u].socket = t
    <3>1. CASE t = s
      BY <2>1, <3>1
    <3>2. CASE t # s
      <4>1. conn[t] = "open" /\ t \notin ended
        <5>1. conn \in [Socket -> {"open", "destroyed", "closed"}]
          BY DEF TypeOK
        <5> HIDE DEF ended
        <5> QED
          BY <2>1, <2>2, <5>1, CloseLemma
      <4>2. peer[t] # peer[s]
        BY <2>2, <3>2, ClientAssumption
      <4>3. v \in Uid /\ issued[v] = peer[t]
        BY <1>2, <2>2, <4>2 DEF RegisterDevice, TypeOK, Uid
      <4>4. PICK u \in DOMAIN list : list[u].socket = t
        BY <2>2, <4>1, <4>3 DEF ConnectedIsRegistered
      <4>5. u # old
        BY <4>1, <4>4
      <4>6. u \in DOMAIN list' /\ u # uid
        BY <2>1, <4>5 DEF TypeOK, Uid
      <4> HIDE DEF uid, old
      <4> QED
        BY <2>1, <4>4, <4>6
    <3> QED
      BY <3>1, <3>2
  <2> QED
    BY <2>2 DEF ConnectedIsRegistered
<1>3. ASSUME NEW s \in Socket, NEW seq \in SeqNum, NEW uid \in Uid, Moved(s, seq, uid)
      PROVE  ConnectedIsRegistered'
  <2>1. /\ DOMAIN list' = DOMAIN list
        /\ list'[uid].socket = s
        /\ \A u \in DOMAIN list \ {uid} : list'[u] = list[u]
    BY <1>3, MovedEntries
  <2>2. uid \in DOMAIN list /\ issued[uid] = peer[s] /\ UNCHANGED <<conn, issued>>
    BY <1>3 DEF Moved
  <2>3. ASSUME NEW t \in Socket, NEW v \in Uid', protocol[t] = "tcp", conn'[t] = "open",
               issued'[v] = peer[t]
        PROVE  \E u \in DOMAIN list' : list'[u].socket = t
    <3>1. PICK u \in DOMAIN list : list[u].socket = t
      BY <2>2, <2>3 DEF ConnectedIsRegistered, Uid
    <3>2. CASE u = uid
      <4>1. peer[t] = peer[s]
        BY <2>2, <3>1, <3>2 DEF EntriesOwned
      <4>2. t = s
        BY <2>3, <4>1, ClientAssumption
      <4> QED
        BY <2>1, <2>2, <4>2
    <3>3. CASE u # uid
      BY <2>1, <3>1, <3>3
    <3> QED
      BY <3>2, <3>3
  <2> QED
    BY <2>3 DEF ConnectedIsRegistered
<1>4. ASSUME NEW s \in Socket, SocketClose(s) PROVE ConnectedIsRegistered'
  <2>1. ASSUME NEW t \in Socket, NEW v \in Uid', protocol[t] = "tcp", conn'[t] = "open",
               issued'[v] = peer[t]
        PROVE  \E u \in DOMAIN list' : list'[u].socket = t
    <3>1. t # s /\ conn[t] = "open" /\ issued' = issued
      BY <1>4, <2>1 DEF SocketClose, TypeOK
    <3>2. PICK u \in DOMAIN list : list[u].socket = t
      BY <2>1, <3>1 DEF ConnectedIsRegistered, Uid
    <3> QED
      BY <1>4, <3>1, <3>2, ClosedLeavesOthers
  <2> QED
    BY <2>1 DEF ConnectedIsRegistered
<1>5. CASE Restart
  BY <1>5 DEF Restart, ConnectedIsRegistered
<1> QED
  BY <1>1, <1>2, <1>3, <1>4, <1>5, RegistrySteps

\* A TCP client that has registered has an entry as long as the proxy keeps
\* its connection open: what evicts an entry also ends its connection.
THEOREM ConnectedStaysRegistered == Spec => []ConnectedIsRegistered
<1>1. Init => ConnectedIsRegistered
  BY DEF Init, ConnectedIsRegistered, Uid
<1>2. TypeOK /\ Provenance /\ ConnectedIsRegistered /\ [Next]_vars => ConnectedIsRegistered'
  BY StepConnected DEF Provenance
<1> QED
  BY <1>1, <1>2, TypeCorrect, ProvenanceKept, PTL DEF Spec

=============================================================================
