--------------------------- MODULE EnvoyXdsProofs ---------------------------
(***************************************************************************)
(* Theorems about EnvoyXds, for any requests, labels, addresses and ports. *)
(***************************************************************************)
EXTENDS EnvoyXds, SvcNamesProofs

-----------------------------------------------------------------------------
\* The last part of an entry's service name is its frontend port.
LEMMA PortOfSvcName ==
  ASSUME NEW e \in Entry
  PROVE  PortOf(SvcName(e)) = e.FrontendAddr.Port
  <1>1. ASSUME NEW s \in Names, NEW p
        PROVE  (s \o <<Dash, p>>)[Len(s \o <<Dash, p>>)] = p
    BY <1>1 DEF Names
  <1>2. PICK s \in Names : SvcName(e) = s \o <<Dash, e.FrontendAddr.Port>>
    BY SvcNameEndsInPort
  <1> QED BY <1>1, <1>2 DEF PortOf

\* An answer of the API fits: its listeners by their port, its hosts by theirs.
LEMMA AnswersFit ==
  ASSUME IInv
  PROVE  /\ \A l \in EnvoyListenersFromRegistrar : PortOf(l.Cluster) = l.Port
         /\ \A n \in Names : \A h \in Registration(n).hosts : <<PortOf(n), h>> \in served
  <1> USE DEF IInv
  <1>1. ASSUME NEW n \in DOMAIN entries
        PROVE  /\ entries[n] \in Entry /\ SvcName(entries[n]) = n
               /\ PortOf(n) = entries[n].FrontendAddr.Port
               /\ <<PortOf(n), EnvoyServiceFromEntry(entries[n])>> \in served
    <2>1. entries[n] \in Entry /\ SvcName(entries[n]) = n
      BY <1>1 DEF TypeOK, KeyedByName
    <2>2. PortOf(n) = entries[n].FrontendAddr.Port
      BY <2>1, PortOfSvcName
    <2> QED BY <1>1, <2>1, <2>2 DEF HostsFit, Served
  <1>2. ASSUME NEW l \in EnvoyListenersFromRegistrar PROVE PortOf(l.Cluster) = l.Port
    <2>1. PICK n \in DOMAIN entries : l = EnvoyListenerFromEntry(entries[n])
      BY <1>2 DEF EnvoyListenersFromRegistrar
    <2>2. l.Cluster = n /\ l.Port = entries[n].FrontendAddr.Port
      BY <1>1, <2>1 DEF EnvoyListenerFromEntry
    <2> QED BY <1>1, <2>2
  <1>3. ASSUME NEW n \in Names, NEW h \in Registration(n).hosts
        PROVE  <<PortOf(n), h>> \in served
    BY <1>1, <1>3 DEF Registration
  <1> QED BY <1>2, <1>3

\* Before anything is registered there is nothing to tell.
LEMMA XdsInitInv == Init => IInv
  <1> SUFFICES ASSUME Init PROVE IInv
    OBVIOUS
  <1>1. TypeOK /\ KeyedByName
    BY DEF Init, TypeOK, KeyedByName
  <1>2. ListenersFit /\ HostsFit
    BY DEF Init, ListenersFit, HostsFit, Served
  <1> QED BY <1>1, <1>2 DEF IInv

\* Changes of the registrar's map preserve the invariant.
LEMMA MapStep ==
  ASSUME IInv, Restart \/ \E req \in Requests : Register(req)
  PROVE  IInv'
  <1> USE DEF IInv
  <1>1. /\ UNCHANGED <<lds, cds, sds, listeners, hosts>> /\ served \subseteq served'
    BY DEF Restart, Register, envoy
  <1>2. TypeOK' /\ KeyedByName'
    <2>1. CASE Restart
      BY <1>1, <2>1 DEF Restart, TypeOK, KeyedByName
    <2>2. CASE \E req \in Requests : Register(req)
      <3>1. PICK req \in RegistrarRequest : entries' = Updated(entries, req)
        BY <2>2, XdsAssumption DEF Register
      <3> QED BY <1>1, <3>1, UpdatedType DEF TypeOK, KeyedByName
    <2> QED BY <2>1, <2>2
  <1>3. ListenersFit'
    BY <1>1 DEF ListenersFit
  <1>4. HostsFit'
    <2>1. Served(entries)' \subseteq served'
      <3>1. CASE Restart
        BY <3>1 DEF Restart, Served
      <3>2. CASE \E req \in Requests : Register(req)
        BY <3>2 DEF Register, Served
      <3> QED BY <3>1, <3>2
    <2> QED BY <1>1, <2>1 DEF HostsFit
  <1> QED BY <1>2, <1>3, <1>4

\* The handlers, and what Envoy does with their answers, preserve it too.
LEMMA EnvoyStep ==
  ASSUME IInv,
         \/ Lose \/ listenersHandler \/ clustersHandler \/ ApplyListeners \/ ApplyClusters
         \/ \E n \in Services : registrationHandler(n) \/ ApplyHosts(n)
  PROVE  IInv'
  <1> USE DEF IInv
  <1>1. entries' = entries /\ served' = served
    BY DEF Lose, listenersHandler, clustersHandler, ApplyListeners, ApplyClusters,
           registrationHandler, ApplyHosts
  <1>2. KeyedByName' /\ Served(entries)' \subseteq served'
    BY <1>1 DEF KeyedByName, HostsFit, Served
  <1>3. Services \subseteq Names
    BY XdsAssumption, RequestToEntryType, SvcNameEndsInPort DEF Services
  <1>4. CASE listenersHandler \/ clustersHandler \/ ApplyListeners
    <2>1. TypeOK' /\ HostsFit'
      BY <1>1, <1>2, <1>4
         DEF listenersHandler, clustersHandler, ApplyListeners, envoy, TypeOK, HostsFit
    <2>2. ListenersFit'
      BY <1>4, AnswersFit
         DEF listenersHandler, clustersHandler, ApplyListeners, envoy, ListenersFit
    <2> QED BY <1>2, <2>1, <2>2
  <1>5. CASE ApplyClusters
    <2>1. /\ hosts' = [n \in cds |-> IF n \in DOMAIN hosts THEN hosts[n] ELSE {}]
          /\ lds' = lds /\ sds' = sds /\ listeners' = listeners
      BY <1>5 DEF ApplyClusters, KeepHosts
    <2>2. TypeOK'
      BY <1>1, <2>1 DEF TypeOK
    <2>3. ListenersFit' /\ HostsFit'
      BY <1>1, <1>2, <2>1 DEF ListenersFit, HostsFit
    <2> QED BY <1>2, <2>2, <2>3
  <1>6. CASE \E n \in Services : registrationHandler(n)
    <2> PICK n \in Services : registrationHandler(n)
      BY <1>6
    <2>1. /\ sds' = [k \in DOMAIN sds \cup {n} |-> IF k = n THEN Registration(n) ELSE sds[k]]
          /\ UNCHANGED <<lds, cds, listeners, hosts>>
      BY DEF registrationHandler, Put, envoy
    <2>2. \A h \in Registration(n).hosts : <<PortOf(n), h>> \in served
      BY <1>3, AnswersFit
    <2>3. TypeOK' /\ ListenersFit'
      BY <1>1, <2>1 DEF TypeOK, ListenersFit
    <2>4. HostsFit'
      BY <1>1, <1>2, <2>1, <2>2 DEF HostsFit
    <2> QED BY <1>2, <2>3, <2>4
  <1>7. CASE Lose \/ \E n \in Services : ApplyHosts(n)
    <2>1. /\ DOMAIN sds' \subseteq DOMAIN sds
          /\ \A k \in DOMAIN sds' : sds'[k] = sds[k]
          /\ lds' = lds \/ lds' = NoAnswer
          /\ listeners' = listeners
      BY <1>7 DEF Lose, ApplyHosts, Delete, Restrict, envoy
    <2>2. /\ DOMAIN hosts' = DOMAIN hosts /\ hosts' = [k \in DOMAIN hosts' |-> hosts'[k]]
          /\ \A k \in DOMAIN hosts : \/ hosts'[k] = hosts[k]
                                     \/ k \in DOMAIN sds /\ hosts'[k] = sds[k].hosts
      BY <1>7 DEF Lose, ApplyHosts, envoy, TypeOK
    <2>3. TypeOK' /\ ListenersFit'
      BY <1>1, <2>1, <2>2 DEF TypeOK, ListenersFit
    <2>4. HostsFit'
      BY <1>1, <1>2, <2>1, <2>2 DEF HostsFit
    <2> QED BY <1>2, <2>3, <2>4
  <1> QED BY <1>4, <1>5, <1>6, <1>7

\* Every step preserves the invariant.
LEMMA XdsStepInv == IInv /\ [Next]_vars => IInv'
  <1> SUFFICES ASSUME IInv, [Next]_vars PROVE IInv'
    OBVIOUS
  <1>1. CASE UNCHANGED vars
    BY <1>1 DEF vars, IInv, TypeOK, KeyedByName, ListenersFit, HostsFit, Served
  <1>2. CASE Next
    BY <1>2, MapStep, EnvoyStep DEF Next
  <1> QED BY <1>1, <1>2

-----------------------------------------------------------------------------
\* The inductive invariant of the API and its Envoy holds in every state.
THEOREM XdsInvariantHolds == Spec => []IInv
  BY XdsInitInv, XdsStepInv, PTL DEF Spec

(***************************************************************************)
(* Listener, cluster and host that the API makes of one map fit together.  *)
(***************************************************************************)
THEOREM RoutesAlwaysResolve == Spec => []RoutesResolve
  <1>1. IInv => RoutesResolve
    <2> SUFFICES ASSUME IInv, NEW n \in DOMAIN entries
                 PROVE  LET l == EnvoyListenerFromEntry(entries[n]) IN
                        /\ l.Cluster \in EnvoyClustersFromRegistrar
                        /\ Registration(l.Cluster).hosts = {EnvoyServiceFromEntry(entries[n])}
      BY DEF RoutesResolve
    <2>1. EnvoyListenerFromEntry(entries[n]).Cluster = n
      BY DEF EnvoyListenerFromEntry, IInv, KeyedByName
    <2>2. n \in EnvoyClustersFromRegistrar
      BY DEF EnvoyClustersFromRegistrar, EnvoyClusterFromEntry, IInv, KeyedByName
    <2> QED BY <2>1, <2>2 DEF Registration
  <1> QED BY <1>1, XdsInvariantHolds, PTL

(***************************************************************************)
(* However old the answers are that Envoy works with, a listener's traffic *)
(* goes to backends registered for the listener's own port.                *)
(***************************************************************************)
THEOREM TrafficStaysOnPort == Spec => []TrafficOnOwnPort
  <1>1. IInv => TrafficOnOwnPort
    BY DEF IInv, ListenersFit, HostsFit, TrafficOnOwnPort
  <1> QED BY <1>1, XdsInvariantHolds, PTL
=============================================================================
