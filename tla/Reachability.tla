---------------------------- MODULE Reachability ----------------------------
(***************************************************************************)
(* The host as a whole: the shims, Docker, the server and resync of        *)
(* ShimLifecycle, and the Envoy of EnvoyXds, over one map.  What a user    *)
(* sees of it is whether Envoy sends the traffic of a container's port to  *)
(* the container.                                                          *)
(*                                                                         *)
(* The server's process answers Envoy from the moment it is started: the   *)
(* goroutine of serveHttp does not wait for serveGRPC to listen.           *)
(***************************************************************************)
EXTENDS ShimLifecycle, FiniteSets

CONSTANT MaxAnswers   \* bound on the answers that are on their way at a time

VARIABLES lds, cds, sds, listeners, hosts, served   \* as in EnvoyXds

envoyVars == <<lds, cds, sds, listeners, hosts>>
allVars   == <<vars, envoyVars, served>>

ShimRequests ==
  {RequestWithSettings(s, c, action) :
     s \in Shims, c \in Containers, action \in {"REGISTER", "DEREGISTER"}}

X == INSTANCE EnvoyXds WITH Requests <- ShimRequests, NoAnswer <- NoRequest

-----------------------------------------------------------------------------
HostInit == Init /\ X!Init

\* A step of the shims' side.
HostStep ==
  /\ Next
  /\ served' = served \cup X!Served(entries')
  /\ UNCHANGED envoyVars

OnTheWay ==
  (IF lds = NoRequest THEN 0 ELSE 1) + (IF cds = NoRequest THEN 0 ELSE 1)
    + Cardinality(DOMAIN sds)

MayPoll == server # "down" /\ OnTheWay < MaxAnswers

PollListeners == MayPoll /\ X!listenersHandler /\ UNCHANGED vars
PollClusters  == MayPoll /\ X!clustersHandler /\ UNCHANGED vars
PollHosts(n)  == MayPoll /\ X!registrationHandler(n) /\ UNCHANGED vars

TakeListeners == X!ApplyListeners /\ UNCHANGED vars
TakeClusters  == X!ApplyClusters /\ UNCHANGED vars
TakeHosts(n)  == X!ApplyHosts(n) /\ UNCHANGED vars
LoseAnswer    == X!Lose /\ UNCHANGED vars

HostNext ==
  \/ HostStep
  \/ PollListeners \/ PollClusters \/ TakeListeners \/ TakeClusters \/ LoseAnswer
  \/ \E n \in X!Services : PollHosts(n) \/ TakeHosts(n)

HostSpec == HostInit /\ [][HostNext]_allVars

\* The fairness of both parts.  A poll that MaxAnswers holds back comes again.
HostFairness ==
  /\ Fairness
  /\ SF_allVars(PollListeners) /\ SF_allVars(TakeListeners)
  /\ SF_allVars(PollClusters)  /\ SF_allVars(TakeClusters)
  /\ \A n \in X!Services : SF_allVars(PollHosts(n)) /\ SF_allVars(TakeHosts(n))

HostFairSpec == HostSpec /\ HostFairness

-----------------------------------------------------------------------------
BackendHost(s) == <<IPString(Backend[s].IP), Backend[s].Port>>

\* Envoy sends traffic of the listener to the shim's container.
Forwards(l, s) ==
  /\ l.Cluster \in DOMAIN hosts
  /\ \E h \in hosts[l.Cluster] : <<h.IPAddress, h.Port>> = BackendHost(s)

Reached(s) ==
  \E l \in listeners :
    /\ l.IPAddress = IPString(Frontend[s].IP) /\ l.Port = Frontend[s].Port
    /\ Forwards(l, s)

(***************************************************************************)
(* The shims' side and the API's meet in the map alone: what Envoy sees of *)
(* the host is a behaviour of EnvoyXds, so that what is proved there of    *)
(* its mixtures of answers holds here.                                     *)
(***************************************************************************)
ImplementsXds == X!Spec

(***************************************************************************)
(* However old the answers are that Envoy works with, and whoever has the  *)
(* port now, a listener's traffic goes to no host but the container of a   *)
(* shim that Docker started for the listener's port number.                *)
(***************************************************************************)
TrafficIsPublished ==
  \A l \in listeners : l.Cluster \in DOMAIN hosts =>
    \A h \in hosts[l.Cluster] :
      \E s \in Shims : /\ proc[s] # "none" /\ Frontend[s].Port = l.Port
                       /\ <<h.IPAddress, h.Port>> = BackendHost(s)

(***************************************************************************)
(* A container whose shim stays up comes to be reached through Envoy, and  *)
(* stays so, after the last of the server stops and resyncs, lost answers  *)
(* and empty lists of a server just started, where no UDP port makes the   *)
(* resync script fail.                                                     *)
(***************************************************************************)
Published ==
  UdpShims = {} =>
    \A s \in Shims : <>[](Running(s) /\ ~Stopping(s)) => <>[](NameIsOwn(s) => Reached(s))

(***************************************************************************)
(* A container whose shim was stopped cleanly, with nothing of its own or  *)
(* of resync under way, is withdrawn from Envoy for good.                  *)
(***************************************************************************)
Withdrawn ==
  \A s \in Shims :
    <>[](proc[s] = "exit0" /\ s \notin misread /\ ~Raced(s)) =>
      <>[](\A l \in listeners : ~Forwards(l, s))
=============================================================================
