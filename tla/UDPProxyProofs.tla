--------------------------- MODULE UDPProxyProofs ---------------------------
(***************************************************************************)
(* Theorems about UDPProxy, for any set of clients and of connections.     *)
(***************************************************************************)
EXTENDS UDPProxy, TLAPS

-----------------------------------------------------------------------------
\* NewUDPProxy makes an empty table and no connection.
LEMMA UDPInitInv == Init => IInv
  <1> SUFFICES ASSUME Init PROVE IInv
    OBVIOUS
  <1>1. DOMAIN table = {} /\ Range(table) = {} /\ table \in [DOMAIN table -> Conns]
    BY DEF Init, Range
  <1>2. TypeOK
    BY <1>1 DEF Init, TypeOK
  <1>3. Tracked /\ HitIsUsable
    BY <1>1 DEF Init, Tracked, HitIsUsable
  <1>4. Sockets /\ Forwarding /\ Sweeping /\ RepliesReachAsker
    BY DEF Init, Sockets, Forwarding, Sweeping, RepliesReachAsker
  <1> QED BY <1>2, <1>3, <1>4 DEF IInv

(***************************************************************************)
(* Run: a datagram read, a connection found, a failed dial and a write     *)
(* leave the table alone and preserve the invariant.                       *)
(***************************************************************************)
LEMMA ForwardStep ==
  ASSUME IInv,
         (\E d \in Clients : ReadFromUDP(d)) \/ ReadError \/ Found \/ DialFails \/ Write
  PROVE  IInv'
  <1> USE DEF IInv
  <1>1. /\ table' = table /\ sock' = sock /\ client' = client /\ loop' = loop
        /\ listener' = listener /\ lock' = lock /\ closer' = closer /\ sweep' = sweep
    BY DEF ReadFromUDP, ReadError, Found, DialFails, Write, conns
  <1>2. Tracked' /\ HitIsUsable' /\ Sweeping'
    BY <1>1 DEF Tracked, HitIsUsable, Sweeping
  <1>3. CASE Write
    <2>1. proxyConn \in Conns /\ from \in Clients /\ client[proxyConn] \in Clients
      BY <1>3 DEF Write, Forwarding
    <2>2. client[proxyConn].IP = from.IP /\ client[proxyConn].Port = from.Port
      BY <1>3 DEF Write, Forwarding, newConnTrackKey
    <2>3. /\ asked' \in [Conns -> SUBSET Clients]
          /\ \A c \in Conns : /\ c # proxyConn => asked'[c] = asked[c]
                              /\ asked'[c] \subseteq asked[c] \cup {from}
      BY <1>3, <2>1 DEF Write, TypeOK
    <2>4. TypeOK'
      BY <1>1, <1>3, <2>3 DEF Write, TypeOK
    <2>5. Sockets' /\ Forwarding'
      BY <1>1, <1>3, <2>1, <2>3 DEF Write, Sockets, Forwarding
    <2>6. RepliesReachAsker'
      BY <1>1, <2>2, <2>3 DEF RepliesReachAsker
    <2> QED BY <1>2, <2>4, <2>5, <2>6
  <1>4. CASE (\E d \in Clients : ReadFromUDP(d)) \/ ReadError \/ Found \/ DialFails
    <2>1. asked' = asked
      BY <1>4 DEF ReadFromUDP, ReadError, Found, DialFails, conns
    <2>2. Sockets' /\ RepliesReachAsker'
      BY <1>1, <2>1 DEF Sockets, RepliesReachAsker
    <2>3. CASE Found
      <3> DEFINE k == newConnTrackKey(from)
      <3>1. /\ k \in DOMAIN table /\ proxyConn' = table[k] /\ run' = "write"
            /\ from' = from /\ from \in Clients
        BY <2>3 DEF Found, Hit, Forwarding
      <3>2. table[k] \in Conns /\ client[table[k]] \in Clients
        BY <3>1 DEF Tracked, TypeOK
      <3>3. TypeOK'
        BY <1>1, <2>1, <3>1, <3>2 DEF TypeOK
      <3>4. Forwarding'
        BY <1>1, <3>1, <3>2 DEF Forwarding, Tracked
      <3> QED BY <1>2, <2>2, <3>3, <3>4
    <2>4. CASE (\E d \in Clients : ReadFromUDP(d)) \/ ReadError \/ DialFails
      <3>1. TypeOK' /\ Forwarding'
        BY <1>1, <2>1, <2>4 DEF ReadFromUDP, ReadError, DialFails, TypeOK, Forwarding
      <3> QED BY <1>2, <2>2, <3>1
    <2> QED BY <1>4, <2>3, <2>4
  <1> QED BY <1>3, <1>4

(***************************************************************************)
(* Run: a new connection, which takes the place of none, since no          *)
(* connection of its client is in the table.                               *)
(***************************************************************************)
LEMMA DialStep ==
  ASSUME IInv, NEW c \in Conns, Dial(c)
  PROVE  IInv'
  <1> USE DEF IInv
  <1> DEFINE k == newConnTrackKey(from)
  <1>1. /\ lock = "free" /\ k \notin DOMAIN table /\ loop[c] = "none"
        /\ from \in Clients /\ k \in Keys
    BY DEF Dial, Hit, Forwarding, Keys
  <1>2. /\ sock' = [sock EXCEPT ![c] = "open"]
        /\ client' = [client EXCEPT ![c] = from]
        /\ asked' = [asked EXCEPT ![c] = {}]
        /\ loop' = [loop EXCEPT ![c] = "read"]
        /\ proxyConn' = c /\ run' = "write" /\ from' = from
        /\ UNCHANGED <<listener, lock, closer, sweep>>
    BY DEF Dial
  <1>3. /\ DOMAIN table' = DOMAIN table \cup {k} /\ table'[k] = c
        /\ \A j \in DOMAIN table : table'[j] = table[j] /\ table[j] # c
        /\ table' \in [DOMAIN table' -> Conns]
    BY <1>1 DEF Dial, Track, TypeOK, Tracked
  <1>4. TypeOK'
    BY <1>1, <1>2, <1>3 DEF TypeOK
  <1>5. Tracked'
    <2>1. \A j \in DOMAIN table' :
            /\ loop'[table'[j]] \in {"read", "reply", "ending"}
            /\ newConnTrackKey(client'[table'[j]]) = j
      BY <1>2, <1>3 DEF Tracked, TypeOK
    <2>2. \A e \in Conns : loop'[e] # "none" => client'[e] \in Clients
      BY <1>1, <1>2 DEF Tracked, TypeOK
    <2>3. \A e \in Conns : loop'[e] \in {"read", "reply", "ending"} =>
            newConnTrackKey(client'[e]) \in DOMAIN table' /\ table'[newConnTrackKey(client'[e])] = e
      BY <1>1, <1>2, <1>3 DEF Tracked, TypeOK
    <2> QED BY <2>1, <2>2, <2>3 DEF Tracked
  <1>6. Sockets' /\ Forwarding' /\ RepliesReachAsker'
    BY <1>1, <1>2 DEF Sockets, Forwarding, RepliesReachAsker, TypeOK
  <1>7. Sweeping' /\ HitIsUsable'
    BY <1>1, <1>2, <1>3 DEF Sweeping, HitIsUsable, TypeOK, Range
  <1> QED BY <1>4, <1>5, <1>6, <1>7

\* The steps of a reply loop preserve the invariant.
LEMMA LoopStep ==
  ASSUME IInv, NEW c \in Conns, ReadReply(c) \/ Reply(c)
  PROVE  IInv'
  <1> USE DEF IInv
  <1>1. /\ UNCHANGED <<listener, lock, client, run, from, proxyConn, closer, sweep, asked>>
        /\ loop[c] # "none"
    BY DEF ReadReply, Reply, ReadEnds, SendReply, Untrack, CloseConn
  <1>2. Forwarding' /\ RepliesReachAsker'
    BY <1>1 DEF Forwarding, RepliesReachAsker
  <1>3. CASE ReadReply(c) \/ ReadEnds(c) \/ SendReply(c)
    <2>1. /\ table' = table /\ sock' = sock /\ loop[c] \in {"read", "reply"}
          /\ \E L \in {"read", "reply", "ending"} : loop' = [loop EXCEPT ![c] = L]
      BY <1>3 DEF ReadReply, ReadEnds, SendReply, AfterReply, LoopTo
    <2>2. TypeOK'
      BY <1>1, <2>1 DEF TypeOK
    <2>3. Tracked'
      BY <1>1, <2>1 DEF Tracked, TypeOK
    <2>4. Sockets' /\ Sweeping' /\ HitIsUsable'
      BY <1>1, <2>1 DEF Sockets, Sweeping, HitIsUsable, TypeOK
    <2> QED BY <1>2, <2>2, <2>3, <2>4
  <1>4. CASE Untrack(c)
    <2> DEFINE k == newConnTrackKey(client[c])
    <2>1. /\ loop[c] = "ending" /\ lock = "free" /\ sock' = sock
          /\ loop' = [loop EXCEPT ![c] = "closing"]
      BY <1>4 DEF Untrack, LoopTo
    <2>2. k \in DOMAIN table /\ table[k] = c
      BY <2>1 DEF Tracked
    <2>3. /\ DOMAIN table' = DOMAIN table \ {k}
          /\ \A j \in DOMAIN table' : table'[j] = table[j]
          /\ table' \in [DOMAIN table' -> Conns]
      BY <1>4 DEF Untrack, Restrict, TypeOK
    <2>4. \A j \in DOMAIN table' : table'[j] # c
      BY <2>2, <2>3 DEF Tracked
    <2>5. TypeOK'
      BY <1>1, <2>1, <2>3 DEF TypeOK
    <2>6. Tracked'
      <3>1. \A j \in DOMAIN table' :
              /\ loop'[table'[j]] \in {"read", "reply", "ending"}
              /\ newConnTrackKey(client'[table'[j]]) = j
        BY <1>1, <2>1, <2>3, <2>4 DEF Tracked, TypeOK
      <3>2. \A e \in Conns : loop'[e] # "none" => client'[e] \in Clients
        BY <1>1, <2>1 DEF Tracked, TypeOK
      <3>3. \A e \in Conns : loop'[e] \in {"read", "reply", "ending"} =>
              newConnTrackKey(client'[e]) \in DOMAIN table' /\ table'[newConnTrackKey(client'[e])] = e
        BY <1>1, <2>1, <2>2, <2>3 DEF Tracked, TypeOK
      <3> QED BY <3>1, <3>2, <3>3 DEF Tracked
    <2>7. Sockets' /\ HitIsUsable'
      BY <1>1, <2>1, <2>3 DEF Sockets, HitIsUsable, TypeOK
    <2>8. Sweeping'
      BY <1>1, <2>1 DEF Sweeping, TypeOK
    <2> QED BY <1>2, <2>5, <2>6, <2>7, <2>8
  <1>5. CASE CloseConn(c)
    <2>1. /\ loop[c] = "closing" /\ table' = table
          /\ sock' = [sock EXCEPT ![c] = "closed"]
          /\ loop' = [loop EXCEPT ![c] = "none"]
      BY <1>5 DEF CloseConn, LoopTo, SocketAfter
    <2>2. \A j \in DOMAIN table : table[j] # c
      BY <2>1 DEF Tracked
    <2>3. TypeOK'
      BY <1>1, <2>1 DEF TypeOK
    <2>4. Tracked'
      BY <1>1, <2>1, <2>2 DEF Tracked, TypeOK
    <2>5. Sockets' /\ HitIsUsable' /\ Sweeping'
      BY <1>1, <2>1, <2>2 DEF Sockets, HitIsUsable, Sweeping, TypeOK
    <2> QED BY <1>2, <2>3, <2>4, <2>5
  <1> QED BY <1>3, <1>4, <1>5 DEF Reply

\* The steps of Close preserve the invariant.
LEMMA SweepStep ==
  ASSUME IInv, CloseListener \/ Close
  PROVE  IInv'
  <1> USE DEF IInv
  <1>1. /\ UNCHANGED <<table, client, loop, run, from, proxyConn, asked>>
    BY DEF CloseListener, Close, CloseLock, CloseReturns, Sweep, conns
  <1>2. Tracked' /\ Forwarding' /\ RepliesReachAsker'
    BY <1>1 DEF Tracked, Forwarding, RepliesReachAsker
  <1>3. CASE CloseListener \/ CloseLock \/ CloseReturns
    <2>1. sock' = sock
      BY <1>3 DEF CloseListener, CloseLock, CloseReturns, conns
    <2>2. Range(table) \subseteq Conns
      BY DEF TypeOK, Range
    <2>3. TypeOK' /\ Sweeping' /\ HitIsUsable'
      BY <1>1, <1>3, <2>1, <2>2
         DEF CloseListener, CloseLock, CloseReturns, TypeOK, Sweeping, HitIsUsable, Range
    <2>4. Sockets'
      BY <1>1, <2>1 DEF Sockets
    <2> QED BY <1>2, <2>3, <2>4
  <1>4. CASE \E c \in Conns : Sweep(c)
    <2> PICK c \in Conns : Sweep(c)
      BY <1>4
    <2>1. /\ closer = "sweep" /\ sock' = [sock EXCEPT ![c] = "closed"]
          /\ sweep' = sweep \ {c} /\ UNCHANGED <<listener, lock, closer>>
      BY DEF Sweep
    <2>2. TypeOK' /\ Sockets' /\ Sweeping' /\ HitIsUsable'
      BY <1>1, <2>1 DEF TypeOK, Sockets, Sweeping, HitIsUsable, Range
    <2> QED BY <1>2, <2>2
  <1> QED BY <1>3, <1>4 DEF Close

\* Every step of the proxy preserves the invariant.
LEMMA UDPStepInv == IInv /\ [Next]_vars => IInv'
  <1> SUFFICES ASSUME IInv, [Next]_vars PROVE IInv'
    OBVIOUS
  <1>1. CASE UNCHANGED vars
    BY <1>1 DEF vars, IInv, TypeOK, Tracked, Sockets, Forwarding, Sweeping,
                HitIsUsable, RepliesReachAsker
  <1>2. CASE Next
    BY <1>2, ForwardStep, DialStep, LoopStep, SweepStep DEF Next, Run
  <1> QED BY <1>1, <1>2

-----------------------------------------------------------------------------
\* The inductive invariant of the UDP proxy holds in every state.
THEOREM UDPInvariantHolds == Spec => []IInv
  BY UDPInitInv, UDPStepInv, PTL DEF Spec

(***************************************************************************)
(* Until Close sweeps the table, what Run finds there is open.             *)
(***************************************************************************)
THEOREM HitsAreUsable == Spec => []HitIsUsable
  <1>1. IInv => HitIsUsable
    BY DEF IInv
  <1> QED BY <1>1, UDPInvariantHolds, PTL

(***************************************************************************)
(* An open connection is in the table or about to be closed by its loop.   *)
(***************************************************************************)
THEOREM NoConnIsOrphaned == Spec => []NoOrphan
  <1>1. IInv => NoOrphan
    <2> SUFFICES ASSUME IInv, NEW c \in Conns, sock[c] = "open"
                 PROVE  \/ loop[c] \in {"read", "reply", "ending"} /\ c \in Range(table)
                        \/ loop[c] = "closing"
      BY DEF NoOrphan
    <2>1. loop[c] \in {"read", "reply", "ending", "closing"}
      BY DEF IInv, Sockets, TypeOK
    <2>2. loop[c] \in {"read", "reply", "ending"} => c \in Range(table)
      BY DEF IInv, Tracked, Range
    <2> QED BY <2>1, <2>2
  <1> QED BY <1>1, UDPInvariantHolds, PTL

(***************************************************************************)
(* Replies go to the address and port that the datagrams came from.        *)
(***************************************************************************)
THEOREM RepliesReachTheirAsker == Spec => []RepliesReachAsker
  <1>1. IInv => RepliesReachAsker
    BY DEF IInv
  <1> QED BY <1>1, UDPInvariantHolds, PTL

(***************************************************************************)
(* Only a connection's own reply loop takes it out of the table.           *)
(***************************************************************************)
THEOREM EntriesAreOwned == Spec => OwnEntryOnly
  <1> DEFINE Owned == \A k \in DOMAIN table :
                        \/ k \in DOMAIN table' /\ table'[k] = table[k]
                        \/ loop[table[k]] = "ending" /\ loop'[table[k]] = "closing"
  <1>1. ASSUME IInv, [Next]_vars PROVE Owned \/ UNCHANGED vars
    <2>1. CASE \E c \in Conns : Dial(c)
      BY <2>1 DEF Dial, Hit, Track
    <2>2. CASE \E c \in Conns : Untrack(c)
      <3> PICK c \in Conns : Untrack(c)
        BY <2>2
      <3> DEFINE j == newConnTrackKey(client[c])
      <3>1. /\ loop[c] = "ending" /\ loop'[c] = "closing"
            /\ \A k \in DOMAIN table \ {j} : k \in DOMAIN table' /\ table'[k] = table[k]
        BY <1>1 DEF Untrack, LoopTo, Restrict, IInv, TypeOK
      <3>2. table[j] = c
        BY <1>1, <3>1 DEF IInv, Tracked
      <3> QED BY <3>1, <3>2
    <2>3. CASE table' = table
      BY <2>3
    <2> QED BY <1>1, <2>1, <2>2, <2>3
            DEF Next, Run, Close, Reply, ReadFromUDP, ReadError, Found, DialFails, Write,
                ReadReply, ReadEnds, SendReply, CloseConn, CloseListener, CloseLock,
                CloseReturns, Sweep, conns
  <1> QED BY <1>1, UDPInvariantHolds, PTL DEF Spec, OwnEntryOnly
=============================================================================
