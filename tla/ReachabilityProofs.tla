------------------------- MODULE ReachabilityProofs -------------------------
(***************************************************************************)
(* For any shims, labels and incidents: the host implements EnvoyXds and   *)
(* ShimLifecycle, so that what is proved of either holds of the whole; and *)
(* Envoy sends traffic only to containers that were published on its port. *)
(***************************************************************************)
EXTENDS Reachability, ShimProofs

(***************************************************************************)
(* The shims' side changes the map by a request of a shim or by a stop of  *)
(* the server, and in no other way.                                        *)
(***************************************************************************)
LEMMA MapChanges ==
  ASSUME IInv, Next
  PROVE  \/ entries' = entries
         \/ entries' = << >>
         \/ \E req \in ShimRequests : entries' = Updated(entries, req)
<1>1. ASSUME NEW a \in Agents, Register(a)
      PROVE  \E req \in ShimRequests : entries' = Updated(entries, req)
  <2>1. entries' = Updated(entries, msg[a]) /\ rpc[a] = "sent"
    BY <1>1 DEF Register
  <2>2. msg[a] # NoRequest
    BY <2>1 DEF IInv, Places
  <2>3. ShimOf(a) \in Shims /\ ActionOf(a) \in {"REGISTER", "DEREGISTER"}
    BY DEF Agents, ShimOf, ActionOf
  <2>4. msg[a] \in ShimRequests
    BY <2>2, <2>3 DEF IInv, Requests, ShimRequests
  <2> QED BY <2>1, <2>4
<1>2. ASSUME NEW a \in Agents, Step(a) \/ Drop(a) PROVE entries' = entries
  BY <1>2 DEF Step, Lookup, LookupFails, Call, CallFails, Drop
<1>3. ASSUME NEW s \in Shims, Life(s) \/ Start(s) \/ Signal(s) \/ Kill(s) \/ Unlist(s)
      PROVE  entries' = entries
  BY <1>3 DEF Life, Notify, Exit, List, Start, Signal, Kill, Unlist
<1>4. ASSUME ServerStart \/ ServerListen \/ ServerStop \/ AskResync
      PROVE  entries' = entries \/ entries' = << >>
  BY <1>4 DEF ServerStart, ServerListen, ServerStop, ServerEnds, AskResync
<1>5. ASSUME Script PROVE entries' = entries \/ entries' = << >>
  BY <1>5 DEF Script, Snapshot, ReloadLine, ReloadPanics, ScriptEnds, PostFails, ServerEnds
<1> QED BY <1>1, <1>2, <1>3, <1>4, <1>5 DEF Next

\* What both sides mean by the map after a request is the same.
LEMMA SameUpdate ==
  ASSUME NEW m, NEW req
  PROVE  X!Updated(m, req) = Updated(m, req)
BY DEF X!Updated, Updated, X!Put, Put, X!Delete, Delete, X!Restrict, Restrict,
       X!SvcName, SvcName, X!RequestToEntry, RequestToEntry, X!ParseIP, ParseIP,
       X!Dash, Dash

\* The invariant: that of the shims, and that nothing registered is missing.
HostInv == IInv /\ X!Served(entries) \subseteq served

\* Every step of the host keeps it.
LEMMA HostStepInv ==
  ASSUME HostInv, [HostNext]_allVars
  PROVE  HostInv'
<1>1. [Next]_vars
  BY DEF HostNext, HostStep, PollListeners, PollClusters, PollHosts, TakeListeners,
         TakeClusters, TakeHosts, LoseAnswer, allVars
<1>2. IInv'
  BY <1>1, ShimStepInv DEF HostInv
<1>3. CASE HostStep
  BY <1>2, <1>3 DEF HostStep, HostInv, X!Served
<1>4. CASE ~HostStep
  <2>1. UNCHANGED vars /\ served' = served
    BY <1>4 DEF HostNext, PollListeners, PollClusters, PollHosts, TakeListeners,
                TakeClusters, TakeHosts, LoseAnswer, allVars, X!listenersHandler,
                X!clustersHandler, X!registrationHandler, X!ApplyListeners,
                X!ApplyClusters, X!ApplyHosts, X!Lose
  <2>2. entries' = entries
    BY <2>1 DEF vars
  <2> QED BY <1>2, <2>1, <2>2 DEF HostInv, X!Served, X!EnvoyServiceFromEntry
<1> QED BY <1>3, <1>4

\* Every step of the host is one of EnvoyXds, or one that it does not see.
LEMMA HostStepXds ==
  ASSUME HostInv, [HostNext]_allVars
  PROVE  [X!Next]_(X!vars)
<1>1. CASE HostStep
  <2>1. served' = served \cup X!Served(entries') /\ UNCHANGED envoyVars
    BY <1>1 DEF HostStep
  <2>2. CASE entries' = entries
    <3>1. served' = served
      BY <2>1, <2>2 DEF HostInv
    <3> QED BY <2>1, <2>2, <3>1 DEF envoyVars, X!vars
  <2>3. CASE entries' = << >>
    <3>1. X!Served(entries') = {}
      BY <2>3 DEF X!Served
    <3>2. X!Restart
      BY <2>1, <2>3, <3>1 DEF envoyVars, X!Restart, X!envoy
    <3> QED BY <3>2 DEF X!Next
  <2>4. CASE \E req \in ShimRequests : entries' = Updated(entries, req)
    <3>1. PICK req \in ShimRequests : entries' = Updated(entries, req)
      BY <2>4
    <3>2. X!Register(req)
      BY <2>1, <3>1, SameUpdate DEF envoyVars, X!Register, X!envoy
    <3> QED BY <3>2 DEF X!Next
  <2> QED BY <1>1, <2>2, <2>3, <2>4, MapChanges DEF HostStep, HostInv
<1>2. CASE PollListeners \/ PollClusters \/ TakeListeners \/ TakeClusters \/ LoseAnswer
  BY <1>2 DEF PollListeners, PollClusters, TakeListeners, TakeClusters, LoseAnswer, X!Next
<1>3. CASE \E n \in X!Services : PollHosts(n) \/ TakeHosts(n)
  BY <1>3 DEF PollHosts, TakeHosts, X!Next
<1>4. CASE UNCHANGED allVars
  BY <1>4 DEF allVars, vars, envoyVars, X!vars
<1> QED BY <1>1, <1>2, <1>3, <1>4 DEF HostNext

(***************************************************************************)
(* What Envoy sees of the host, with all its shims, retries, resyncs and   *)
(* restarts of the server, is a behaviour of EnvoyXds.                     *)
(***************************************************************************)
THEOREM HostImplementsXds == HostSpec => ImplementsXds
<1>1. HostInit => HostInv
  <2> SUFFICES ASSUME HostInit PROVE HostInv
    OBVIOUS
  <2>1. IInv
    BY ShimInitInv DEF HostInit
  <2>2. X!Served(entries) = {}
    BY DEF HostInit, Init, X!Served
  <2> QED BY <2>1, <2>2 DEF HostInv
<1>2. HostInit => X!Init
  BY DEF HostInit
<1> QED BY <1>1, <1>2, HostStepInv, HostStepXds, PTL DEF HostSpec, ImplementsXds, X!Spec

-----------------------------------------------------------------------------
(***************************************************************************)
(* What is proved of the parts holds of the host.                          *)
(***************************************************************************)
\* A step of Envoy's leaves the shims' side alone.
LEMMA HostStepShims == [HostNext]_allVars => [Next]_vars
BY DEF HostNext, HostStep, PollListeners, PollClusters, PollHosts, TakeListeners,
       TakeClusters, TakeHosts, LoseAnswer, allVars

(***************************************************************************)
(* Envoy, however it polls, disturbs neither the shims nor the server: the *)
(* host is a behaviour of ShimLifecycle.                                   *)
(***************************************************************************)
LEMMA HostImplementsShims == HostSpec => Spec
<1>1. HostInit => Init
  BY DEF HostInit
<1> QED BY <1>1, HostStepShims, PTL DEF HostSpec, Spec

\* The same module again, with what is proved of it.
XP == INSTANCE EnvoyXdsProofs WITH Requests <- ShimRequests, NoAnswer <- NoRequest

LEMMA RequestsAreKnown ==
  /\ ShimRequests \subseteq XP!RegistrarRequest
  /\ \A r \in ShimRequests : r.Action # "UNKNOWN"
<1>1. XP!RegistrarRequest = RegistrarRequest
  BY DEF XP!RegistrarRequest, RegistrarRequest, XP!RequestActions, RequestActions,
         XP!ProxyModes, ProxyModes
<1>2. ASSUME NEW r \in ShimRequests PROVE r \in RegistrarRequest /\ r.Action # "UNKNOWN"
  <2>1. PICK s \in Shims, c \in Containers, action \in {"REGISTER", "DEREGISTER"} :
          r = RequestWithSettings(s, c, action)
    BY DEF ShimRequests
  <2> QED BY <2>1, RequestFacts
<1> QED BY <1>1, <1>2

LEMMA SameXds == X!Spec => XP!Spec
<1>1. X!Init => XP!Init
  BY DEF X!Init, XP!Init
<1>2. [X!Next]_(X!vars) => [XP!Next]_(XP!vars)
  <2>1. X!vars = XP!vars /\ X!vars' = XP!vars'
    BY DEF X!vars, XP!vars
  <2>2. \A e : X!SvcName(e) = XP!SvcName(e) /\ X!EnvoyServiceFromEntry(e) = XP!EnvoyServiceFromEntry(e)
    BY DEF X!SvcName, XP!SvcName, X!Dash, XP!Dash, X!EnvoyServiceFromEntry, XP!EnvoyServiceFromEntry,
           X!IPString, XP!IPString
  <2>3. ASSUME NEW req, X!Register(req) PROVE XP!Register(req)
    <3>1. X!Updated(entries, req) = XP!Updated(entries, req)
      BY <2>2 DEF X!Updated, XP!Updated, X!Put, XP!Put, X!Delete, XP!Delete, X!Restrict, XP!Restrict,
                  X!RequestToEntry, XP!RequestToEntry, X!ParseIP, XP!ParseIP
    <3>2. X!Served(entries') = XP!Served(entries')
      BY <2>2 DEF X!Served, XP!Served
    <3> QED BY <2>3, <3>1, <3>2 DEF X!Register, XP!Register, X!envoy, XP!envoy
  <2>4. /\ X!Restart => XP!Restart
        /\ X!ApplyListeners => XP!ApplyListeners
        /\ X!ApplyClusters => XP!ApplyClusters
    BY DEF X!Restart, XP!Restart, X!envoy, XP!envoy, X!ApplyListeners, XP!ApplyListeners,
           X!ApplyClusters, XP!ApplyClusters, X!KeepHosts, XP!KeepHosts
  <2>5. \A n : X!Delete(sds, n) = XP!Delete(sds, n)
    BY DEF X!Delete, XP!Delete, X!Restrict, XP!Restrict
  <2>6. X!Lose => XP!Lose
    BY <2>5 DEF X!Lose, XP!Lose, X!envoy, XP!envoy
  <2>7. X!listenersHandler => XP!listenersHandler
    BY <2>2 DEF X!listenersHandler, XP!listenersHandler, X!envoy, XP!envoy,
                X!EnvoyListenersFromRegistrar, XP!EnvoyListenersFromRegistrar,
                X!EnvoyListenerFromEntry, XP!EnvoyListenerFromEntry, X!IPString, XP!IPString
  <2>8. X!clustersHandler => XP!clustersHandler
    BY <2>2 DEF X!clustersHandler, XP!clustersHandler, X!envoy, XP!envoy,
                X!EnvoyClustersFromRegistrar, XP!EnvoyClustersFromRegistrar,
                X!EnvoyClusterFromEntry, XP!EnvoyClusterFromEntry
  <2>9. X!Services = XP!Services
    BY <2>2 DEF X!Services, XP!Services, X!RequestToEntry, XP!RequestToEntry, X!ParseIP, XP!ParseIP
  <2>10. ASSUME NEW n PROVE X!ApplyHosts(n) => XP!ApplyHosts(n)
    BY <2>5 DEF X!ApplyHosts, XP!ApplyHosts
  <2>11. ASSUME NEW n, X!registrationHandler(n) PROVE XP!registrationHandler(n)
    <3>1. X!Registration(n) = XP!Registration(n)
      BY <2>2 DEF X!Registration, XP!Registration
    <3> QED BY <2>11, <3>1 DEF X!registrationHandler, XP!registrationHandler, X!envoy, XP!envoy,
                               X!Put, XP!Put
  <2>12. X!Next => XP!Next
    BY <2>3, <2>4, <2>6, <2>7, <2>8, <2>9, <2>10, <2>11 DEF X!Next, XP!Next
  <2> QED BY <2>1, <2>12
<1> QED BY <1>1, <1>2, PTL DEF X!Spec, XP!Spec

(***************************************************************************)
(* On the host too, a listener's traffic goes to backends registered for   *)
(* the listener's own port, whatever mixture of answers Envoy works with.  *)
(***************************************************************************)
THEOREM HostTrafficOnOwnPort == HostSpec => []X!TrafficOnOwnPort
<1>1. XP!Spec => []XP!TrafficOnOwnPort
  BY RequestsAreKnown, LabelsAssumption, XP!TrafficStaysOnPort, PTL
<1>2. XP!TrafficOnOwnPort => X!TrafficOnOwnPort
  BY DEF XP!TrafficOnOwnPort, X!TrafficOnOwnPort
<1> QED BY <1>1, <1>2, SameXds, HostImplementsXds, PTL DEF ImplementsXds

-----------------------------------------------------------------------------
(***************************************************************************)
(* Every host that was ever told to Envoy is that of a shim which Docker   *)
(* has started, as every entry is.                                         *)
(***************************************************************************)
ServedStarted ==
  \A x \in served :
    \E s \in Shims : /\ proc[s] # "none" /\ Frontend[s].Port = x[1]
                     /\ <<x[2].IPAddress, x[2].Port>> = BackendHost(s)

\* A shim that was started is never again one that was not.
LEMMA StartedStays ==
  ASSUME IInv, [Next]_vars, NEW s \in Shims, proc[s] # "none"
  PROVE  proc'[s] # "none"
<1>1. proc \in [Shims -> {"none", "booting", "up", "exit0", "exit1", "killed"}]
  BY DEF IInv, TypeOK
<1>2. CASE proc' = proc
  BY <1>2
<1>3. ASSUME NEW t \in Shims, Life(t) \/ Start(t) \/ Signal(t) \/ Kill(t) \/ Unlist(t)
      PROVE  proc'[s] # "none"
  BY <1>1, <1>3 DEF Life, Notify, Exit, List, Start, Signal, Kill, Unlist, End
<1>4. ASSUME NEW a \in Agents, Step(a) \/ Register(a) \/ Drop(a) PROVE proc' = proc
  BY <1>4 DEF Step, Lookup, LookupFails, Call, CallFails, Register, Drop, Others
<1>5. ASSUME ServerStart \/ ServerListen \/ ServerStop \/ AskResync \/ Script PROVE proc' = proc
  BY <1>5 DEF ServerStart, ServerListen, ServerStop, ServerEnds, AskResync, Script, Snapshot,
              ReloadLine, ReloadPanics, ScriptEnds, PostFails
<1> QED BY <1>2, <1>3, <1>4, <1>5 DEF Next, vars

LEMMA ServedStartedStep ==
  ASSUME IInv, ServedStarted, [HostNext]_allVars
  PROVE  ServedStarted'
<1>1. [Next]_vars
  BY HostStepShims
<1>2. \A s \in Shims : proc[s] # "none" => proc'[s] # "none"
  BY <1>1, StartedStays
<1>3. ASSUME NEW x \in served
      PROVE  \E s \in Shims : /\ proc'[s] # "none" /\ Frontend[s].Port = x[1]
                              /\ <<x[2].IPAddress, x[2].Port>> = BackendHost(s)
  BY <1>2 DEF ServedStarted
<1>4. ASSUME NEW x \in X!Served(entries')
      PROVE  \E s \in Shims : /\ proc'[s] # "none" /\ Frontend[s].Port = x[1]
                              /\ <<x[2].IPAddress, x[2].Port>> = BackendHost(s)
  <2>1. IInv'
    BY <1>1, ShimStepInv
  <2>2. PICK n \in DOMAIN entries' :
          x = <<entries'[n].FrontendAddr.Port, X!EnvoyServiceFromEntry(entries'[n])>>
    BY DEF X!Served
  <2> DEFINE e == entries'[n]
  <2>3. PICK s \in Shims : proc'[s] # "none" /\ Frontend[s] = e.FrontendAddr /\ Backend[s] = e.BackendAddr
    BY <2>1 DEF IInv, Keyed, EntriesOf
  <2>4. x[1] = e.FrontendAddr.Port /\ x[2] = X!EnvoyServiceFromEntry(e)
    BY <2>2
  <2>5. x[2].IPAddress = IPString(e.BackendAddr.IP) /\ x[2].Port = e.BackendAddr.Port
    BY <2>4 DEF X!EnvoyServiceFromEntry, X!IPString, IPString
  <2> HIDE DEF e
  <2> QED BY <2>3, <2>4, <2>5 DEF BackendHost
<1>5. served' \subseteq served \cup X!Served(entries')
  BY DEF HostNext, HostStep, PollListeners, PollClusters, PollHosts, TakeListeners,
         TakeClusters, TakeHosts, LoseAnswer, allVars, X!listenersHandler,
         X!clustersHandler, X!registrationHandler, X!ApplyListeners,
         X!ApplyClusters, X!ApplyHosts, X!Lose
<1> QED BY <1>3, <1>4, <1>5 DEF ServedStarted

(***************************************************************************)
(* Envoy sends a listener's traffic to no host but the container of a shim *)
(* started for the listener's port, for any shims, labels and incidents.   *)
(***************************************************************************)
THEOREM HostTrafficIsPublished == HostSpec => []TrafficIsPublished
<1>1. HostInit => ServedStarted
  BY DEF HostInit, Init, X!Init, ServedStarted
<1>2. IInv /\ ServedStarted /\ [HostNext]_allVars => ServedStarted'
  BY ServedStartedStep
<1>3. ServedStarted /\ X!TrafficOnOwnPort => TrafficIsPublished
  <2> SUFFICES ASSUME ServedStarted, X!TrafficOnOwnPort,
                      NEW l \in listeners, l.Cluster \in DOMAIN hosts, NEW h \in hosts[l.Cluster]
               PROVE  \E s \in Shims : /\ proc[s] # "none" /\ Frontend[s].Port = l.Port
                                       /\ <<h.IPAddress, h.Port>> = BackendHost(s)
    BY DEF TrafficIsPublished
  <2>1. <<l.Port, h>> \in served
    BY DEF X!TrafficOnOwnPort
  <2> QED BY <2>1 DEF ServedStarted
<1>4. HostSpec => []IInv
  BY HostImplementsShims, ShimInvariantHolds, PTL
<1> QED BY <1>1, <1>2, <1>3, <1>4, HostTrafficOnOwnPort, PTL DEF HostSpec

(***************************************************************************)
(* With Envoy polling, a shim that exited cleanly leaves no entry behind.  *)
(***************************************************************************)
THEOREM HostShutdownIsClean == HostSpec => []CleanShutdown
BY HostImplementsShims, ShutdownIsClean, PTL
=============================================================================
