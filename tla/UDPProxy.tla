------------------------------ MODULE UDPProxy ------------------------------
(***************************************************************************)
(* cmd/envoy-docker-shim/udp_proxy.go: the proxy of one published UDP      *)
(* port.  Run reads datagrams from a listener and writes each to the       *)
(* backend through a connection of its client's own, which it dials when   *)
(* connTrackTable has none; one replyLoop for each connection carries what *)
(* the backend answers back to the client and gives the connection up when *)
(* nothing came for UDPConnTrackTimeout.  Close, on the goroutine of       *)
(* handleStopSignals, closes the listener and the connections.             *)
(*                                                                         *)
(* What Run and replyLoop do with the table under connTrackLock touches    *)
(* nothing that is not under the lock, and is one step; Close's sweep is   *)
(* not, for a reply loop sees its connection closed while the sweep goes   *)
(* on.  Deadlines have no clock: a read that can time out may, and reads   *)
(* that return ECONNREFUSED are just tried again.                          *)
(***************************************************************************)
EXTENDS Functions

CONSTANTS
  Clients,   \* addresses that datagrams come from
  Conns,     \* connections; more clients at a time than these fail to dial
  NoClient,  \* no address
  NoConn     \* no connection

\* A net.UDPAddr; the zone is that of a link-local IPv6 address.
ASSUME UDPAssumption ==
  /\ \A d \in Clients : DOMAIN d = {"IP", "Port", "Zone"}
  /\ NoClient \notin Clients /\ NoConn \notin Conns

VARIABLES
  listener,  \* UDPProxy.listener: "open" or "closed"
  table,     \* UDPProxy.connTrackTable
  lock,      \* connTrackLock: "free", or "close" while Close sweeps
  sock,      \* the state of each connection's socket
  client,    \* the clientAddr of each connection's replyLoop
  loop,      \* where each connection's replyLoop is; "none" when it is not
  run,       \* where Run is
  from,      \* the sender of the datagram that Run forwards
  proxyConn, \* Run's proxyConn
  closer,    \* where Close is
  sweep,     \* the connections that Close has yet to close
  asked      \* history: whose datagrams went out through each connection

conns == <<table, sock, client, loop, asked>>
vars  == <<listener, table, lock, sock, client, loop, run, from, proxyConn,
           closer, sweep, asked>>

\* Mutant of newConnTrackKey: the key is the address without the port.
keyWithoutPort(addr) == [IP |-> addr.IP]

\* IPHigh and IPLow are the bytes of the address.  The zone is not in the key.
newConnTrackKey(addr) == [IP |-> addr.IP, Port |-> addr.Port]

Keys == {newConnTrackKey(d) : d \in Clients}

Init ==
  /\ listener = "open" /\ table = << >> /\ lock = "free"
  /\ sock = [c \in Conns |-> "closed"] /\ client = [c \in Conns |-> NoClient]
  /\ loop = [c \in Conns |-> "none"]
  /\ run = "read" /\ from = NoClient /\ proxyConn = NoConn
  /\ closer = "idle" /\ sweep = {}
  /\ asked = [c \in Conns |-> {}]

-----------------------------------------------------------------------------
(***************************************************************************)
(* Run.                                                                    *)
(***************************************************************************)
ReadFromUDP(d) ==
  /\ run = "read" /\ listener = "open"
  /\ run' = "track" /\ from' = d
  /\ UNCHANGED <<listener, lock, proxyConn, closer, sweep, conns>>

\* The error that ends Run's loop.
ReadError ==
  /\ run = "read" /\ listener = "closed"
  /\ run' = "stopped" /\ from' = NoClient
  /\ UNCHANGED <<listener, lock, proxyConn, closer, sweep, conns>>

Track(k, c) == [j \in DOMAIN table \cup {k} |-> IF j = k THEN c ELSE table[j]]

\* Mutant of Hit: every datagram gets a connection of its own.
HitNever(k) == FALSE

Hit(k) == k \in DOMAIN table

Found ==
  LET k == newConnTrackKey(from) IN
  /\ run = "track" /\ lock = "free" /\ Hit(k)
  /\ proxyConn' = table[k] /\ run' = "write"
  /\ UNCHANGED <<listener, lock, from, closer, sweep, conns>>

Dial(c) ==
  LET k == newConnTrackKey(from) IN
  /\ run = "track" /\ lock = "free" /\ ~Hit(k)
  /\ loop[c] = "none"
  /\ sock'   = [sock EXCEPT ![c] = "open"]
  /\ client' = [client EXCEPT ![c] = from]
  /\ asked'  = [asked EXCEPT ![c] = {}]
  /\ table'  = Track(k, c)
  /\ loop'   = [loop EXCEPT ![c] = "read"]
  /\ proxyConn' = c /\ run' = "write"
  /\ UNCHANGED <<listener, lock, from, closer, sweep>>

\* Mutant of DialFails: the continue forgets the unlock.
DialFailsLocked ==
  /\ run = "track" /\ lock = "free" /\ ~Hit(newConnTrackKey(from))
  /\ run' = "read" /\ from' = NoClient /\ lock' = "run"
  /\ UNCHANGED <<listener, proxyConn, closer, sweep, conns>>

DialFails ==
  /\ run = "track" /\ lock = "free" /\ ~Hit(newConnTrackKey(from))
  /\ run' = "read" /\ from' = NoClient
  /\ UNCHANGED <<listener, lock, proxyConn, closer, sweep, conns>>

\* The write, outside the lock.  Nothing goes out if the datagram is empty, if
\* the connection was closed meanwhile, or if the socket reports an error.
Write ==
  /\ run = "write"
  /\ \/ /\ sock[proxyConn] = "open"
        /\ asked' = [asked EXCEPT ![proxyConn] = @ \cup {from}]
     \/ UNCHANGED asked
  /\ run' = "read" /\ from' = NoClient /\ proxyConn' = NoConn
  /\ UNCHANGED <<listener, table, lock, sock, client, loop, closer, sweep>>

(***************************************************************************)
(* The replyLoop of connection c.                                          *)
(***************************************************************************)
LoopTo(c, label) == loop' = [loop EXCEPT ![c] = label]

\* The backend answers those whose datagrams it got.
ReadReply(c) ==
  /\ loop[c] = "read" /\ sock[c] = "open" /\ asked[c] # {}
  /\ LoopTo(c, "reply")
  /\ UNCHANGED <<listener, table, lock, sock, client, run, from, proxyConn,
                 closer, sweep, asked>>

\* Mutant of ReadEnds: the connection is closed before the table forgets it.
ReadEndsClosed(c) ==
  /\ loop[c] = "read"
  /\ LoopTo(c, "ending") /\ sock' = [sock EXCEPT ![c] = "closed"]
  /\ UNCHANGED <<listener, table, lock, client, run, from, proxyConn,
                 closer, sweep, asked>>

\* The deadline is over, or the connection is closed.
ReadEnds(c) ==
  /\ loop[c] = "read"
  /\ LoopTo(c, "ending")
  /\ UNCHANGED <<listener, table, lock, sock, client, run, from, proxyConn,
                 closer, sweep, asked>>

\* Mutant of AfterReply: an error of WriteToUDP is ignored.
AfterReplyAlways(ok) == "read"

AfterReply(ok) == IF ok THEN "read" ELSE "ending"

SendReply(c) ==
  /\ loop[c] = "reply"
  /\ \E ok \in BOOLEAN : /\ ok => listener = "open"
                         /\ LoopTo(c, AfterReply(ok))
  /\ UNCHANGED <<listener, table, lock, sock, client, run, from, proxyConn,
                 closer, sweep, asked>>

\* The deferred function: first the table forgets the key...
Untrack(c) ==
  /\ loop[c] = "ending" /\ lock = "free"
  /\ table' = Restrict(table, DOMAIN table \ {newConnTrackKey(client[c])})
  /\ LoopTo(c, "closing")
  /\ UNCHANGED <<listener, lock, sock, client, run, from, proxyConn,
                 closer, sweep, asked>>

\* Mutant of SocketAfter: the deferred function does not close the connection.
SocketKept(c) == sock[c]

SocketAfter(c) == "closed"

\* ... then the connection is closed, and the goroutine ends.
CloseConn(c) ==
  /\ loop[c] = "closing"
  /\ sock' = [sock EXCEPT ![c] = SocketAfter(c)]
  /\ LoopTo(c, "none")
  /\ UNCHANGED <<listener, table, lock, client, run, from, proxyConn,
                 closer, sweep, asked>>

(***************************************************************************)
(* Close.                                                                  *)
(***************************************************************************)
CloseListener ==
  /\ closer = "idle"
  /\ listener' = "closed" /\ closer' = "lock"
  /\ UNCHANGED <<lock, run, from, proxyConn, sweep, conns>>

CloseLock ==
  /\ closer = "lock" /\ lock = "free"
  /\ lock' = "close" /\ sweep' = Range(table) /\ closer' = "sweep"
  /\ UNCHANGED <<listener, run, from, proxyConn, conns>>

Sweep(c) ==
  /\ closer = "sweep" /\ c \in sweep
  /\ sock' = [sock EXCEPT ![c] = "closed"] /\ sweep' = sweep \ {c}
  /\ UNCHANGED <<listener, table, lock, client, loop, run, from, proxyConn,
                 closer, asked>>

CloseReturns ==
  /\ closer = "sweep" /\ sweep = {}
  /\ lock' = "free" /\ closer' = "done"
  /\ UNCHANGED <<listener, run, from, proxyConn, sweep, conns>>

-----------------------------------------------------------------------------
Run   == ReadError \/ Found \/ DialFails \/ Write \/ \E c \in Conns : Dial(c)
Close == CloseLock \/ CloseReturns \/ \E c \in Conns : Sweep(c)
Reply(c) == ReadEnds(c) \/ SendReply(c) \/ Untrack(c) \/ CloseConn(c)

Next == \/ Run \/ \E d \in Clients : ReadFromUDP(d)
        \/ CloseListener \/ Close
        \/ \E c \in Conns : Reply(c) \/ ReadReply(c)

Spec == Init /\ [][Next]_vars

(***************************************************************************)
(* A goroutine that can go on does, and a read that gets nothing times     *)
(* out; a backend does not send empty datagrams for ever, which would put  *)
(* the deadline off without anything to send.  Nobody has to send or to    *)
(* call Close, but a Close that was called goes on.                        *)
(***************************************************************************)
Fairness == WF_vars(Run) /\ WF_vars(Close) /\ \A c \in Conns : WF_vars(Reply(c))

FairSpec == Spec /\ Fairness

-----------------------------------------------------------------------------
TypeOK ==
  /\ listener \in {"open", "closed"} /\ lock \in {"free", "close"}
  /\ DOMAIN table \subseteq Keys /\ table \in [DOMAIN table -> Conns]
  /\ sock \in [Conns -> {"open", "closed"}]
  /\ client \in [Conns -> Clients \cup {NoClient}]
  /\ loop \in [Conns -> {"none", "read", "reply", "ending", "closing"}]
  /\ run \in {"read", "track", "write", "stopped"}
  /\ from \in Clients \cup {NoClient} /\ proxyConn \in Conns \cup {NoConn}
  /\ closer \in {"idle", "lock", "sweep", "done"} /\ sweep \subseteq Conns
  /\ asked \in [Conns -> SUBSET Clients]

(***************************************************************************)
(* Until Close sweeps the table, the connection that Run finds in it under *)
(* the lock is open: replyLoop's deferred function takes a connection out  *)
(* of the table before it closes it.                                       *)
(***************************************************************************)
HitIsUsable ==
  closer \in {"idle", "lock"} => \A k \in DOMAIN table : sock[table[k]] = "open"

(***************************************************************************)
(* No socket is left behind: an open connection is in the table, where a   *)
(* datagram of its client or Close finds it, and has a reply loop that     *)
(* will time out; or its loop is about to close it.                        *)
(***************************************************************************)
NoOrphan ==
  \A c \in Conns : sock[c] = "open" =>
    \/ loop[c] \in {"read", "reply", "ending"} /\ c \in Range(table)
    \/ loop[c] = "closing"

(***************************************************************************)
(* What the backend answers goes to the one that asked: every datagram     *)
(* that went out through a connection came from the address and port that  *)
(* its reply loop writes to.  Two senders that differ in the zone alone    *)
(* share a connection.                                                     *)
(***************************************************************************)
RepliesReachAsker ==
  \A c \in Conns : \A d \in asked[c] :
    d.IP = client[c].IP /\ d.Port = client[c].Port

(***************************************************************************)
(* A client keeps its connection, and with it the port the backend knows   *)
(* it by, until the connection's own reply loop gives it up: nothing else  *)
(* replaces or removes an entry of the table, not even the end of an older *)
(* loop of the same client.                                                *)
(***************************************************************************)
OwnEntryOnly ==
  [][\A k \in DOMAIN table :
       \/ k \in DOMAIN table' /\ table'[k] = table[k]
       \/ loop[table[k]] = "ending" /\ loop'[table[k]] = "closing"]_vars

(***************************************************************************)
(* The inductive invariant.  Tracked: the table has exactly the loops that *)
(* have not given up, each under its client's key; Forwarding: Run writes  *)
(* to a connection of the sender's key; Sweeping: what Close has yet to    *)
(* close is in the table, which cannot change meanwhile.                   *)
(***************************************************************************)
Tracked ==
  /\ \A k \in DOMAIN table :
       /\ loop[table[k]] \in {"read", "reply", "ending"}
       /\ newConnTrackKey(client[table[k]]) = k
  /\ \A c \in Conns : loop[c] # "none" => client[c] \in Clients
  /\ \A c \in Conns : loop[c] \in {"read", "reply", "ending"} =>
       LET k == newConnTrackKey(client[c]) IN k \in DOMAIN table /\ table[k] = c

Sockets ==
  \A c \in Conns : /\ sock[c] = "open" => loop[c] # "none"
                   /\ asked[c] # {} => client[c] \in Clients

Forwarding ==
  /\ run \in {"track", "write"} => from \in Clients
  /\ run = "write" => /\ proxyConn \in Conns /\ client[proxyConn] \in Clients
                      /\ newConnTrackKey(client[proxyConn]) = newConnTrackKey(from)

Sweeping ==
  /\ lock = "close" <=> closer = "sweep"
  /\ sweep \subseteq Range(table)
  /\ sweep # {} => closer = "sweep"

IInv == /\ TypeOK /\ Tracked /\ Sockets /\ Forwarding /\ Sweeping
        /\ HitIsUsable /\ RepliesReachAsker

(***************************************************************************)
(* Run never stays away from the listener: whoever holds connTrackLock     *)
(* lets it go, and a failed dial or write only costs the one datagram.     *)
(***************************************************************************)
RunKeepsReading == run \in {"track", "write"} ~> run = "read"

(***************************************************************************)
(* Close stops the forwarding: Run ends, and every connection is closed in *)
(* the end, the one too that Run puts into the table after Close's sweep.  *)
(***************************************************************************)
CloseReleases ==
  closer # "idle" ~> [](/\ closer = "done" /\ run = "stopped"
                        /\ \A c \in Conns : sock[c] = "closed")
=============================================================================
