------------------------------ MODULE EnvoyXds ------------------------------
(***************************************************************************)
(* internal/envoyhttp/envoy_api.go and the Envoy that polls it.  Envoy     *)
(* asks for listeners (LDS), for clusters (CDS) and, for each cluster that *)
(* it has, for the hosts of it (SDS), each in its own time and one request *)
(* of a kind at a time (examples/envoy.yaml).  A handler answers from the  *)
(* registrar's map as it is at one instant, which is what RegistryMap      *)
(* promises of GetEntry and EachEntry; meanwhile the map changes, so Envoy *)
(* puts together answers of different ages.                                *)
(*                                                                         *)
(* Of Envoy, which is not in the repository, the module has what it was    *)
(* last told: a list replaces the list before it; a new cluster has no     *)
(* hosts until its first SDS answer; an error changes nothing.             *)
(***************************************************************************)
EXTENDS SvcNames

CONSTANTS
  Requests,  \* requests that shims send
  NoAnswer   \* no answer is on its way

ASSUME XdsAssumption ==
  /\ Requests \subseteq RegistrarRequest
  /\ \A r \in Requests : r.Action # "UNKNOWN"

VARIABLES
  entries,    \* Registrar.entries
  lds, cds,   \* the answers on their way to Envoy: listeners, cluster names
  sds,        \* the answers about single clusters on their way to Envoy
  listeners,  \* Envoy's listeners
  hosts,      \* Envoy's clusters, and the hosts of each
  served      \* history: the hosts registered so far, with their frontend port

envoy == <<listeners, hosts>>
vars  == <<entries, lds, cds, sds, listeners, hosts, served>>

Services == {SvcName(RequestToEntry(r)) : r \in Requests}

-----------------------------------------------------------------------------
(***************************************************************************)
(* What the API makes of an entry.                                         *)
(***************************************************************************)
EnvoyServiceFromEntry(entry) ==
  [IPAddress |-> IPString(entry.BackendAddr.IP), Port |-> entry.BackendAddr.Port,
   Service |-> SvcName(entry)]

\* Mutant of EnvoyClusterFromEntry: the cluster has the bare service label.
ClusterByLabel(entry) == entry.ServiceName

EnvoyClusterFromEntry(entry) == SvcName(entry)

\* Mutant of EnvoyListenerFromEntry: the route names the bare service label.
ListenerRoutesToLabel(entry) ==
  [Name |-> SvcName(entry), Port |-> entry.FrontendAddr.Port,
   IPAddress |-> IPString(entry.FrontendAddr.IP),
   Filter |-> entry.ProxyMode, Cluster |-> entry.ServiceName]

\* Every mode but http gets the tcp_proxy filter; both route to one cluster.
EnvoyListenerFromEntry(entry) ==
  [Name |-> SvcName(entry), Port |-> entry.FrontendAddr.Port,
   IPAddress |-> IPString(entry.FrontendAddr.IP),
   Filter |-> IF entry.ProxyMode = "http" THEN "http" ELSE "tcp",
   Cluster |-> SvcName(entry)]

EnvoyListenersFromRegistrar == {EnvoyListenerFromEntry(entries[n]) : n \in DOMAIN entries}

EnvoyClustersFromRegistrar == {EnvoyClusterFromEntry(entries[n]) : n \in DOMAIN entries}

\* The SDS answer about service n: its one instance, or 404.
Registration(n) ==
  IF n \in DOMAIN entries
  THEN [status |-> 200, hosts |-> {EnvoyServiceFromEntry(entries[n])}]
  ELSE [status |-> 404, hosts |-> {}]

-----------------------------------------------------------------------------
Init == /\ entries = << >> /\ served = {}
        /\ lds = NoAnswer /\ cds = NoAnswer /\ sds = << >>
        /\ listeners = {} /\ hosts = << >>

Served(m) == {<<m[n].FrontendAddr.Port, EnvoyServiceFromEntry(m[n])>> : n \in DOMAIN m}

Register(req) ==
  /\ entries' = Updated(entries, req)
  /\ served' = served \cup Served(entries')
  /\ UNCHANGED <<lds, cds, sds, envoy>>

\* The server starts again, with an empty map.
Restart ==
  /\ entries' = << >>
  /\ UNCHANGED <<lds, cds, sds, envoy, served>>

listenersHandler ==
  /\ lds = NoAnswer
  /\ lds' = EnvoyListenersFromRegistrar
  /\ UNCHANGED <<entries, cds, sds, envoy, served>>

clustersHandler ==
  /\ cds = NoAnswer
  /\ cds' = EnvoyClustersFromRegistrar
  /\ UNCHANGED <<entries, lds, sds, envoy, served>>

registrationHandler(n) ==
  /\ n \in DOMAIN hosts \ DOMAIN sds
  /\ sds' = Put(sds, n, Registration(n))
  /\ UNCHANGED <<entries, lds, cds, envoy, served>>

ApplyListeners ==
  /\ lds # NoAnswer
  /\ listeners' = lds /\ lds' = NoAnswer
  /\ UNCHANGED <<entries, cds, sds, hosts, served>>

\* A cluster that stays keeps its hosts.
KeepHosts(names) == [n \in names |-> IF n \in DOMAIN hosts THEN hosts[n] ELSE {}]

ApplyClusters ==
  /\ cds # NoAnswer
  /\ hosts' = KeepHosts(cds) /\ cds' = NoAnswer
  /\ UNCHANGED <<entries, lds, sds, listeners, served>>

\* An answer about a cluster that Envoy no longer has is thrown away.
ApplyHosts(n) ==
  /\ n \in DOMAIN sds
  /\ hosts' = IF n \in DOMAIN hosts /\ sds[n].status = 200
              THEN [hosts EXCEPT ![n] = sds[n].hosts] ELSE hosts
  /\ sds' = Delete(sds, n)
  /\ UNCHANGED <<entries, lds, cds, listeners, served>>

\* An answer is lost, or the request for it fails.
Lose ==
  /\ \/ lds # NoAnswer /\ lds' = NoAnswer /\ UNCHANGED <<cds, sds>>
     \/ cds # NoAnswer /\ cds' = NoAnswer /\ UNCHANGED <<lds, sds>>
     \/ \E n \in DOMAIN sds : sds' = Delete(sds, n) /\ UNCHANGED <<lds, cds>>
  /\ UNCHANGED <<entries, envoy, served>>

-----------------------------------------------------------------------------
Next == \/ \E req \in Requests : Register(req)
        \/ Restart \/ Lose
        \/ listenersHandler \/ clustersHandler \/ ApplyListeners \/ ApplyClusters
        \/ \E n \in Services : registrationHandler(n) \/ ApplyHosts(n)

Spec == Init /\ [][Next]_vars

(***************************************************************************)
(* Envoy keeps polling, and not every one of its requests fails.  Nothing  *)
(* has to be registered or to change.                                      *)
(***************************************************************************)
Fairness ==
  /\ WF_vars(listenersHandler) /\ SF_vars(ApplyListeners)
  /\ WF_vars(clustersHandler)  /\ SF_vars(ApplyClusters)
  /\ \A n \in Services : SF_vars(registrationHandler(n)) /\ SF_vars(ApplyHosts(n))

FairSpec == Spec /\ Fairness

-----------------------------------------------------------------------------
(***************************************************************************)
(* The three answers fit together: the cluster that an entry's listener    *)
(* routes to is one that clustersHandler lists, and registrationHandler,   *)
(* asked for it by that name, answers with the backend of that entry.      *)
(***************************************************************************)
RoutesResolve ==
  \A n \in DOMAIN entries :
    LET l == EnvoyListenerFromEntry(entries[n]) IN
    /\ l.Cluster \in EnvoyClustersFromRegistrar
    /\ Registration(l.Cluster).hosts = {EnvoyServiceFromEntry(entries[n])}

(***************************************************************************)
(* Whatever mixture of old and new answers Envoy works with, a listener    *)
(* sends its traffic only to backends that were registered for its own     *)
(* frontend port.                                                          *)
(***************************************************************************)
TrafficOnOwnPort ==
  \A l \in listeners : l.Cluster \in DOMAIN hosts =>
    \A h \in hosts[l.Cluster] : <<l.Port, h>> \in served

(***************************************************************************)
(* The inductive invariant.  The last part of a name is a port: that of    *)
(* the listener that routes to the name, and that for which every host     *)
(* told under the name was registered, in Envoy and in what is on its way. *)
(***************************************************************************)
PortOf(name) == name[Len(name)]

TypeOK ==
  /\ DOMAIN entries \subseteq Names /\ entries \in [DOMAIN entries -> Entry]
  /\ hosts = [n \in DOMAIN hosts |-> hosts[n]]

KeyedByName == \A n \in DOMAIN entries : SvcName(entries[n]) = n

ListenersFit ==
  /\ \A l \in listeners : PortOf(l.Cluster) = l.Port
  /\ lds # NoAnswer => \A l \in lds : PortOf(l.Cluster) = l.Port

HostsFit ==
  /\ Served(entries) \subseteq served
  /\ \A n \in DOMAIN hosts : \A h \in hosts[n] : <<PortOf(n), h>> \in served
  /\ \A n \in DOMAIN sds : \A h \in sds[n].hosts : <<PortOf(n), h>> \in served

IInv == TypeOK /\ KeyedByName /\ ListenersFit /\ HostsFit

\* Envoy has been told what the registrar has.
Agrees == /\ listeners = EnvoyListenersFromRegistrar
          /\ DOMAIN hosts = DOMAIN entries
          /\ \A n \in DOMAIN entries : hosts[n] = {EnvoyServiceFromEntry(entries[n])}

(***************************************************************************)
(* Once shims and server stop changing the map, Envoy comes to have it:    *)
(* each listener with the backend of its entry, and nothing of a service   *)
(* that was deregistered.                                                  *)
(***************************************************************************)
Converges == <>[][entries' = entries]_vars => <>[]Agrees
=============================================================================
