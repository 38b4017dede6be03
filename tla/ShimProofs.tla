----------------------------- MODULE ShimProofs -----------------------------
(***************************************************************************)
(* Theorems about ShimLifecycle, for any set of shims, containers, labels  *)
(* and addresses and any number of tries.                                  *)
(***************************************************************************)
EXTENDS ShimLifecycle, SvcNamesProofs

-----------------------------------------------------------------------------
(***************************************************************************)
(* Each shim has its three agents, and each agent is one of its shim's.    *)
(***************************************************************************)
LEMMA AgentFacts ==
  /\ \A s \in Shims :
       /\ Run(s) \in Agents /\ Stop(s) \in Agents /\ Reload(s) \in Agents
       /\ ShimOf(Run(s)) = s /\ ShimOf(Stop(s)) = s /\ ShimOf(Reload(s)) = s
       /\ Run(s)[2] = "run" /\ Stop(s)[2] = "stop" /\ Reload(s)[2] = "reload"
  /\ \A a \in Agents :
       /\ ShimOf(a) \in Shims
       /\ \/ a = Run(ShimOf(a))    /\ a[2] = "run"
          \/ a = Stop(ShimOf(a))   /\ a[2] = "stop"
          \/ a = Reload(ShimOf(a)) /\ a[2] = "reload"
  BY DEF Agents, Run, Stop, Reload, ShimOf

\* What an agent sends is a request, and the entry made of it its shim's own.
LEMMA RequestFacts ==
  ASSUME NEW s \in Shims, NEW c \in Containers, NEW action \in {"REGISTER", "DEREGISTER"}
  PROVE  LET req == RequestWithSettings(s, c, action)
             e   == RequestToEntry(req)
         IN  /\ req \in RegistrarRequest /\ req.Action = action
             /\ e \in Entry
             /\ e.BackendAddr = Backend[s] /\ e.FrontendAddr = Frontend[s]
             /\ e = RequestToEntry(RequestWithSettings(s, c, "REGISTER"))
  <1> DEFINE req == RequestWithSettings(s, c, action)
             e   == RequestToEntry(req)
  <1>1. /\ Frontend[s] \in TCPAddr /\ Backend[s] \in TCPAddr
        /\ LabelsOf[c] \in ContainerLabels
    BY ShimAssumption
  <1>2. ASSUME NEW ip \in Addresses \cup {NilIP}
        PROVE  IPString(ip) \in Addresses \cup {BadAddress} /\ ParseIP(IPString(ip)) = ip
    BY ShimAssumption DEF IPString, ParseIP
  <1>3. req \in RegistrarRequest /\ req.Action = action
    BY <1>1, <1>2
       DEF RequestWithSettings, RegistrarRequest, RequestActions, TCPAddr,
           ContainerLabels, ProxyModes
  <1>4. e \in Entry
    BY <1>3, RequestToEntryType
  <1>5. e.BackendAddr = Backend[s] /\ e.FrontendAddr = Frontend[s]
    BY <1>1, <1>2 DEF RequestToEntry, RequestWithSettings, TCPAddr
  <1>6. e = RequestToEntry(RequestWithSettings(s, c, "REGISTER"))
    BY DEF RequestToEntry, RequestWithSettings
  <1> QED BY <1>3, <1>4, <1>5, <1>6

\* The states that systemd puts the script in.
LEMMA ScriptTypes ==
  /\ NoScript \in ScriptState /\ ResyncOnStart \in ScriptState
  /\ [unit |-> "reload", due |-> TRUE, failed |-> FALSE] \in ScriptState
  /\ \A r \in ScriptState : /\ [r EXCEPT !.due = FALSE] \in ScriptState
                            /\ [r EXCEPT !.failed = TRUE] \in ScriptState
  BY DEF NoScript, ResyncOnStart, ScriptState

-----------------------------------------------------------------------------
(***************************************************************************)
(* Before any process has started there is nothing to go wrong.            *)
(***************************************************************************)
LEMMA ShimInitInv == Init => IInv
  <1> SUFFICES ASSUME Init PROVE IInv
    OBVIOUS
  <1> USE DEF Init
  <1>1. TypeOK
    <2>1. 0 \in 0 .. Tries - 1 /\ 0 \in 0 .. MaxIncidents
      BY ShimAssumption
    <2>2. DOMAIN entries \subseteq Names /\ entries \in [DOMAIN entries -> Entry]
      OBVIOUS
    <2>3. /\ proc \in [Shims -> {"none", "booting", "up", "exit0", "exit1", "killed"}]
          /\ docker \in [Shims -> {"unlisted", "listed", "gone"}]
      OBVIOUS
    <2> QED BY <2>1, <2>2, <2>3, ScriptTypes DEF TypeOK
  <1>2. Places
    BY AgentFacts DEF Places, Running, Dead, AgentsOf
  <1>3. Requests /\ Keyed
    BY DEF Requests, Keyed, EntriesOf
  <1>4. Quiet /\ Exclusive
    BY DEF Quiet, Exclusive, Stopping, Running, Dead
  <1>5. Cleared /\ AckedRun /\ RegistrationLasts
    BY AgentFacts DEF Cleared, AckedRun, RegistrationLasts
  <1> QED BY <1>1, <1>2, <1>3, <1>4, <1>5 DEF IInv

-----------------------------------------------------------------------------
\* The end of a line of the script changes nothing about it but its status.
LEMMA LineEndsType ==
  ASSUME script \in ScriptState, NEW a \in Agents, NEW failed \in BOOLEAN, LineEnds(a, failed)
  PROVE  script' \in ScriptState
  BY DEF LineEnds, ScriptState

\* A lookup that finds another container only adds to what a shim may register.
LEMMA EntriesForGrow ==
  ASSUME misread \subseteq misread', NEW s \in Shims
  PROVE  EntriesFor(s) \subseteq EntriesFor(s)'
  BY DEF EntriesFor, Containers

\* A shim whose name is its own after a step had it to itself before.
LEMMA OwnBefore ==
  ASSUME misread \subseteq misread', \A t \in Shims : Raced(t) => Raced(t)',
         NEW s \in Shims, NameIsOwn(s)'
  PROVE  NameIsOwn(s)
  <1>1. \A t \in Shims : NamesOf(t) \subseteq NamesOf(t)'
    BY EntriesForGrow DEF NamesOf
  <1>2. ASSUME NEW t \in Shims, Rival(s, t) PROVE Rival(s, t)'
    BY <1>1, <1>2 DEF Rival, SameFrontend
  <1> QED BY <1>2 DEF NameIsOwn

\* What is said of the entries holds on while they stay.
LEMMA KeyedStays ==
  ASSUME Keyed, entries' = entries, misread \subseteq misread',
         \A t \in Shims : proc[t] # "none" => proc'[t] # "none"
  PROVE  Keyed'
  <1>1. \A t \in Shims : EntriesOf(t)' = EntriesOf(t)
    BY DEF EntriesOf
  <1>2. \A t \in Shims : EntriesFor(t) \subseteq EntriesFor(t)'
    BY EntriesForGrow
  <1> QED BY <1>1, <1>2 DEF Keyed

-----------------------------------------------------------------------------
\* m is a request that DoAction may make for agent a.
FitRequest(a, m) ==
  \E c \in Containers :
    /\ m = RequestWithSettings(ShimOf(a), c, ActionOf(a))
    /\ ShimOf(a) \in misread' \/ c = ShimOf(a)

(***************************************************************************)
(* A step of DoAction or withRetries that leaves the server alone: agent a *)
(* goes on to L, with k failed tries, request m and call state r.          *)
(***************************************************************************)
AgentGoes(a, L, k, m, r) ==
  /\ pc' = [pc EXCEPT ![a] = L] /\ tries' = [tries EXCEPT ![a] = k]
  /\ msg' = [msg EXCEPT ![a] = m] /\ rpc' = [rpc EXCEPT ![a] = r]
  /\ UNCHANGED <<server, entries, proc, docker, todo, acked, raced>>
  /\ incidents' \in 0 .. MaxIncidents /\ script' \in ScriptState
  /\ misread \subseteq misread' /\ misread' \subseteq Shims
  /\ \/ /\ pc[a] \in {"lookup", "call", "wait"}
        /\ L \in {"lookup", "call", "wait", GaveUp(a)}
     \/ pc[a] = "dead" /\ L = "dead"
  /\ k \in 0 .. Tries - 1
  /\ r \in {"none", "sent"}
  /\ r = "sent" <=> L = "wait"
  /\ r = "sent" => server = "up"
  /\ m # NoRequest <=> L \in {"call", "wait"}
  /\ m # NoRequest => FitRequest(a, m)

\* Such a step of DoAction or withRetries preserves the invariant.
LEMMA AgentStep ==
  ASSUME IInv, NEW a \in Agents, NEW L, NEW k, NEW m, NEW r, AgentGoes(a, L, k, m, r)
  PROVE  IInv'
  <1> USE DEF AgentGoes
  <1> USE DEF IInv
  <1>0. /\ GaveUp(Run(ShimOf(a))) = "parked" /\ GaveUp(Stop(ShimOf(a))) = "exit1"
        /\ GaveUp(Reload(ShimOf(a))) = "off"
    BY AgentFacts DEF GaveUp
  <1>1. TypeOK'
    <2>1. m \in RegistrarRequest \cup {NoRequest}
      BY AgentFacts, RequestFacts DEF ActionOf, FitRequest
    <2>2. L \in {"off", "lookup", "call", "wait", "parked", "exit0", "exit1", "dead"}
      BY <1>0, AgentFacts
    <2> QED BY <2>1, <2>2 DEF TypeOK
  <1>2. Places'
    BY <1>0, AgentFacts DEF Places, TypeOK, Running, Dead, AgentsOf
  <1>3. Requests'
    BY DEF Requests, TypeOK, FitRequest
  <1>4. Keyed'
    BY KeyedStays
  <1>5. \A b \in Agents : Pending(b)' => Pending(b)
    BY <1>0, AgentFacts, ZenonT(90) DEF Pending, TypeOK, Places
  <1>6. /\ \A s \in Shims : (Stopping(s)' <=> Stopping(s)) /\ (Running(s)' <=> Running(s))
        /\ \A s \in Shims : (Dead(s)' <=> Dead(s)) /\ (Raced(s)' <=> Raced(s))
    BY <1>0, AgentFacts DEF Stopping, Running, Dead, Raced, AgentsOf, TypeOK, Places
  <1>7. Quiet'
    <2>1. \A s \in Shims : Dead(s) /\ rpc[Stop(s)] # "sent" => rpc'[Stop(s)] # "sent"
      BY AgentFacts DEF TypeOK, Places
    <2> QED BY <1>5, <1>6, <2>1, AgentFacts DEF Quiet
  <1>8. Exclusive' /\ AckedRun'
    BY <1>6, ShimAssumption DEF Exclusive, AckedRun, SameFrontend, TypeOK
  <1>9. Cleared'
    <2>1. \A s \in Shims : pc'[Stop(s)] = "exit0" => pc[Stop(s)] = "exit0"
      BY <1>0, AgentFacts DEF TypeOK
    <2> QED BY <1>6, <2>1 DEF Cleared, EntriesOf
  <1>10. RegistrationLasts'
    BY <1>6, OwnBefore DEF RegistrationLasts, EntriesOf, TypeOK
  <1> QED BY <1>1, <1>2, <1>3, <1>4, <1>7, <1>8, <1>9, <1>10

(***************************************************************************)
(* A failed try of withRetries preserves the invariant, whether it is the  *)
(* last one, after which Run parks and Close is fatal, or not.             *)
(***************************************************************************)
LEMMA RetryStep ==
  ASSUME IInv, NEW a \in Agents, pc[a] \in {"lookup", "call", "wait"}, Retry(a),
         UNCHANGED <<server, entries, proc, docker, todo, history>>,
         incidents' \in 0 .. MaxIncidents
  PROVE  IInv'
  <1> USE DEF IInv
  <1>1. GaveUp(a) \in {"parked", "exit1", "off"}
    BY AgentFacts DEF GaveUp
  <1>2. misread' \subseteq Shims /\ tries[a] \in 0 .. Tries - 1
    BY DEF TypeOK, history
  <1>s. script' \in ScriptState
    BY LineEndsType DEF Retry, TypeOK
  <1>3. CASE LastTry(a)
    <2>1. 0 \in 0 .. Tries - 1
      BY ShimAssumption
    <2>2. AgentGoes(a, GaveUp(a), 0, NoRequest, "none")
      BY <1>1, <1>2, <1>s, <1>3, <2>1 DEF Retry, Finish, history, AgentGoes
    <2> QED BY <2>2, AgentStep
  <1>4. CASE ~LastTry(a)
    <2>1. tries[a] + 1 \in 0 .. Tries - 1
      BY <1>2, <1>4, ShimAssumption DEF LastTry
    <2>2. AgentGoes(a, "lookup", tries[a] + 1, NoRequest, "none")
      BY <1>2, <1>s, <1>4, <2>1 DEF Retry, history, AgentGoes
    <2> QED BY <2>2, AgentStep
  <1> QED BY <1>3, <1>4

\* Each step of DoAction's lookup and call preserves the invariant.
LEMMA CallStep ==
  ASSUME IInv, NEW a \in Agents,
         Lookup(a) \/ LookupFails(a) \/ Call(a) \/ CallFails(a) \/ Drop(a)
  PROVE  IInv'
  <1> USE DEF IInv
  <1>0. /\ tries[a] \in 0 .. Tries - 1 /\ [tries EXCEPT ![a] = tries[a]] = tries
        /\ [msg EXCEPT ![a] = msg[a]] = msg /\ [pc EXCEPT ![a] = pc[a]] = pc
        /\ [rpc EXCEPT ![a] = rpc[a]] = rpc
        /\ misread \subseteq Shims /\ incidents \in 0 .. MaxIncidents
        /\ script \in ScriptState
    BY DEF TypeOK
  <1>1. ASSUME Lookup(a) PROVE IInv'
    <2>1. PICK c \in Containers :
            /\ msg' = [msg EXCEPT ![a] = RequestWithSettings(ShimOf(a), c, ActionOf(a))]
            /\ misread' = IF c = ShimOf(a) THEN misread ELSE misread \cup {ShimOf(a)}
      BY <1>1 DEF Lookup, Found
    <2> DEFINE m == RequestWithSettings(ShimOf(a), c, ActionOf(a))
    <2>2. m # NoRequest
      BY AgentFacts, RequestFacts, ShimAssumption DEF ActionOf
    <2>3. /\ misread \subseteq misread' /\ misread' \subseteq Shims
          /\ ShimOf(a) \in misread' \/ c = ShimOf(a)
      BY <1>0, <2>1, AgentFacts
    <2>4. /\ pc[a] = "lookup" /\ pc' = [pc EXCEPT ![a] = "call"] /\ rpc[a] = "none"
          /\ rpc' = rpc /\ tries' = tries
          /\ UNCHANGED <<server, entries, proc, docker, todo, script, acked, raced, incidents>>
      BY <1>1 DEF Lookup, Others, Places, TypeOK
    <2> HIDE DEF m
    <2>5. FitRequest(a, m)
      BY <2>3 DEF m, FitRequest
    <2>6. msg' = [msg EXCEPT ![a] = m]
      BY <2>1 DEF m
    <2>7. rpc' = [rpc EXCEPT ![a] = "none"] /\ tries' = [tries EXCEPT ![a] = tries[a]]
      BY <1>0, <2>4
    <2>8. incidents' \in 0 .. MaxIncidents /\ script' \in ScriptState
      BY <1>0, <2>4
    <2>9. AgentGoes(a, "call", tries[a], m, "none")
      BY <1>0, <2>2, <2>3, <2>4, <2>5, <2>6, <2>7, <2>8 DEF AgentGoes
    <2> QED BY <2>9, AgentStep
  <1>2. ASSUME LookupFails(a) PROVE IInv'
    <2>1. incidents' \in 0 .. MaxIncidents
      BY <1>0, <1>2, ShimAssumption DEF LookupFails, Incident
    <2> QED BY <1>2, <2>1, RetryStep DEF LookupFails
  <1>3. ASSUME Call(a) PROVE IInv'
    <2>1. CASE Retry(a)
      BY <1>0, <1>3, <2>1, RetryStep DEF Call, Others
    <2>2. CASE ~Retry(a)
      <3>1. /\ pc[a] = "call" /\ pc' = [pc EXCEPT ![a] = "wait"] /\ server = "up"
            /\ rpc' = [rpc EXCEPT ![a] = "sent"] /\ tries' = tries /\ msg' = msg
            /\ UNCHANGED <<server, entries, proc, docker, todo, script, incidents, acked, raced, misread>>
        BY <1>3, <2>2 DEF Call, Others, history
      <3>2. msg[a] # NoRequest /\ FitRequest(a, msg[a])
        BY <3>1 DEF Places, Requests, FitRequest
      <3>3. msg' = [msg EXCEPT ![a] = msg[a]] /\ tries' = [tries EXCEPT ![a] = tries[a]]
        BY <1>0, <3>1
      <3>4. incidents' \in 0 .. MaxIncidents /\ misread' \subseteq Shims /\ script' \in ScriptState
        BY <1>0, <3>1
      <3>5. AgentGoes(a, "wait", tries[a], msg[a], "sent")
        BY <1>0, <3>1, <3>2, <3>3, <3>4 DEF AgentGoes
      <3> QED BY <3>5, AgentStep
    <2> QED BY <2>1, <2>2
  <1>4. ASSUME CallFails(a) PROVE IInv'
    <2>1. pc[a] = "wait"
      BY <1>4, AgentFacts DEF CallFails, Places, Alive, Running, Dead
    <2> QED BY <1>0, <1>4, <2>1, RetryStep DEF CallFails, Others
  <1>5. ASSUME Drop(a) PROVE IInv'
    <2>1. pc[a] = "dead"
      BY <1>5, AgentFacts DEF Drop, Places, AgentsOf, Alive, Running, Dead, TypeOK
    <2>2. /\ rpc' = [rpc EXCEPT ![a] = "none"] /\ msg' = [msg EXCEPT ![a] = NoRequest]
          /\ pc' = pc /\ tries' = tries
          /\ UNCHANGED <<server, entries, proc, docker, todo, script, incidents, acked, raced, misread>>
      BY <1>5 DEF Drop, Others, history
    <2>3. AgentGoes(a, "dead", tries[a], NoRequest, "none")
      BY <1>0, <2>1, <2>2 DEF AgentGoes
    <2> QED BY <2>3, AgentStep
  <1> QED BY <1>1, <1>2, <1>3, <1>4, <1>5

-----------------------------------------------------------------------------
\* An entry with the shim's backend is on the shim's address.
LEMMA EntryIsItsShims ==
  ASSUME Keyed, NEW s \in Shims, NEW n \in EntriesOf(s)
  PROVE  entries[n].FrontendAddr = Frontend[s]
  <1>1. PICK t \in Shims : n \in EntriesOf(t) /\ entries[n].FrontendAddr = Frontend[t]
    BY DEF Keyed, EntriesOf
  <1> QED BY <1>1, BackendAssumption DEF EntriesOf

(***************************************************************************)
(* The server's handler.  The entries of the shim that asked change at one *)
(* name; those of another shim stay, unless the two share the name, and    *)
(* then the shims share the port.                                          *)
(***************************************************************************)
LEMMA RegisterStep ==
  ASSUME IInv, NEW a \in Agents, Register(a)
  PROVE  IInv'
  <1> USE DEF IInv
  <1> DEFINE s   == ShimOf(a)
             req == msg[a]
             e   == RequestToEntry(req)
             n   == SvcName(e)
  <1>1. /\ s \in Shims /\ server = "up" /\ rpc[a] = "sent"
        /\ pc[a] \in {"wait", "dead"} /\ msg[a] # NoRequest
        /\ entries' = Updated(entries, req)
    BY AgentFacts DEF Register, Places
  <1>2. PICK c \in Containers :
          /\ req = RequestWithSettings(s, c, ActionOf(a))
          /\ s \in misread \/ c = s
    BY <1>1 DEF Requests
  <1>3. /\ req \in RegistrarRequest /\ req.Action = ActionOf(a)
        /\ e \in Entry /\ e.BackendAddr = Backend[s] /\ e.FrontendAddr = Frontend[s]
        /\ e \in EntriesFor(s)
    <2>1. ActionOf(a) \in {"REGISTER", "DEREGISTER"}
      BY DEF ActionOf
    <2>2. /\ req \in RegistrarRequest /\ req.Action = ActionOf(a)
          /\ e \in Entry /\ e.BackendAddr = Backend[s] /\ e.FrontendAddr = Frontend[s]
          /\ e = RequestToEntry(RequestWithSettings(s, c, "REGISTER"))
      <3> DEFINE w == RequestWithSettings(s, c, ActionOf(a))
      <3>1. /\ w \in RegistrarRequest /\ w.Action = ActionOf(a)
            /\ RequestToEntry(w) \in Entry
            /\ RequestToEntry(w).BackendAddr = Backend[s]
            /\ RequestToEntry(w).FrontendAddr = Frontend[s]
            /\ RequestToEntry(w) = RequestToEntry(RequestWithSettings(s, c, "REGISTER"))
        BY <1>1, <2>1, RequestFacts
      <3> HIDE DEF w
      <3>2. req = w
        BY <1>2 DEF w
      <3> QED BY <3>1, <3>2
    <2> QED BY <1>2, <2>2 DEF EntriesFor
  <1>4. /\ entries' \in [DOMAIN entries' -> Entry] /\ DOMAIN entries' \subseteq Names
        /\ \A k \in DOMAIN entries' : SvcName(entries'[k]) = k
    BY <1>1, <1>3, UpdatedType DEF TypeOK, Keyed
  <1>5. /\ \A k : k # n => (k \in DOMAIN entries' <=> k \in DOMAIN entries)
        /\ \A k \in DOMAIN entries' : k # n => entries'[k] = entries[k]
        /\ ActionOf(a) = "REGISTER" => n \in DOMAIN entries' /\ entries'[n] = e
        /\ ActionOf(a) # "REGISTER" => n \notin DOMAIN entries'
    BY <1>1, <1>3, UpdatedAt
  <1>6. /\ a = Run(s) \/ a = Stop(s) \/ a = Reload(s)
        /\ ActionOf(a) = IF a = Stop(s) THEN "DEREGISTER" ELSE "REGISTER"
        /\ a = Run(s) => Done(a) = "parked"
        /\ a = Stop(s) => Done(a) = "exit0"
        /\ a = Reload(s) => Done(a) = "off"
    BY AgentFacts DEF ActionOf, Done
  <1> DEFINE L == IF Alive(a) THEN Done(a) ELSE "dead"
  <1>7. /\ pc' = [pc EXCEPT ![a] = L] /\ tries' = [tries EXCEPT ![a] = 0]
        /\ msg' = [msg EXCEPT ![a] = NoRequest] /\ rpc' = [rpc EXCEPT ![a] = "none"]
        /\ UNCHANGED <<server, proc, docker, todo, incidents, raced, misread>>
        /\ acked' = IF Running(s) /\ ~Stopping(s) THEN acked \cup {s} ELSE acked
        /\ script' \in ScriptState
    BY LineEndsType DEF Register, Finish, Others, TypeOK
  <1>8. Alive(a) <=> pc[a] = "wait"
    BY <1>1, AgentFacts DEF Alive, Running, Dead, Places, AgentsOf, TypeOK
  <1> HIDE DEF e, n, req
  \* The entries of each shim.
  <1>9. /\ \A t \in Shims \ {s} : EntriesOf(t)' \subseteq EntriesOf(t)
        /\ a = Stop(s) => EntriesOf(s)' = EntriesOf(s) \ {n}
        /\ EntriesOf(s)' \subseteq EntriesOf(s) \cup {n}
        /\ a # Stop(s) => n \in EntriesOf(s)'
        /\ \A t \in Shims : \A k \in EntriesOf(t) : k # n => k \in EntriesOf(t)'
    <2>1. \A t \in Shims \ {s} : Backend[t] # Backend[s]
      BY <1>1, BackendAssumption
    <2> QED BY <1>1, <1>3, <1>5, <1>6, <2>1 DEF EntriesOf
  <1>10. TypeOK'
    <2>1. 0 \in 0 .. Tries - 1
      BY ShimAssumption
    <2>2. L \in {"parked", "exit0", "off", "dead"}
      BY <1>6
    <2> QED BY <1>1, <1>4, <1>7, <2>1, <2>2 DEF TypeOK
  <1>11. Places'
    BY <1>1, <1>6, <1>7, <1>8, AgentFacts DEF Places, TypeOK, Running, Dead, AgentsOf
  <1>12. Requests'
    BY <1>7 DEF Requests, TypeOK
  <1>13. Keyed'
    <2>1. ASSUME NEW t \in Shims, NEW k \in EntriesOf(t)'
          PROVE  entries'[k] \in EntriesFor(t)
      <3>1. CASE k = n
        <4>1. entries'[k] = e /\ e.BackendAddr = Backend[t]
          BY <1>5, <1>6, <2>1, <3>1 DEF EntriesOf
        <4>2. t = s
          BY <1>1, <1>3, <4>1, BackendAssumption
        <4> QED BY <1>3, <4>1, <4>2
      <3>2. CASE k # n
        <4>1. k \in EntriesOf(t) /\ entries'[k] = entries[k]
          BY <1>5, <2>1, <3>2 DEF EntriesOf
        <4> QED BY <4>1 DEF Keyed
      <3> QED BY <3>1, <3>2
    <2>2. ASSUME NEW k \in DOMAIN entries'
          PROVE  \E t \in Shims :
                   proc'[t] # "none" /\ k \in EntriesOf(t)' /\ entries'[k].FrontendAddr = Frontend[t]
      <3>1. CASE k = n
        <4>1. proc[s] # "none"
          BY <1>1, AgentFacts DEF Places, AgentsOf
        <4> QED BY <1>1, <1>3, <1>5, <1>6, <1>7, <2>2, <3>1, <4>1 DEF EntriesOf
      <3>2. CASE k # n
        <4>1. k \in DOMAIN entries /\ entries'[k] = entries[k]
          BY <1>5, <2>2, <3>2
        <4>2. PICK t \in Shims :
                proc[t] # "none" /\ k \in EntriesOf(t) /\ entries[k].FrontendAddr = Frontend[t]
          BY <4>1 DEF Keyed
        <4> QED BY <1>7, <2>2, <4>1, <4>2 DEF EntriesOf
      <3> QED BY <3>1, <3>2
    <2>3. \A t \in Shims : EntriesFor(t)' = EntriesFor(t)
      BY <1>7 DEF EntriesFor
    <2> QED BY <1>4, <2>1, <2>2, <2>3 DEF Keyed
  <1>14. \A b \in Agents : Pending(b)' => Pending(b)
    BY <1>1, <1>6, <1>7, <1>8, AgentFacts, ZenonT(40) DEF Pending, TypeOK
  <1>15. /\ \A t \in Shims : (Stopping(t)' <=> Stopping(t)) /\ (Running(t)' <=> Running(t))
         /\ \A t \in Shims : (Dead(t)' <=> Dead(t)) /\ (Raced(t)' <=> Raced(t))
    BY <1>1, <1>6, <1>7, AgentFacts DEF Stopping, Running, Dead, Raced, AgentsOf, TypeOK
  <1>16. Quiet'
    <2>1. \A t \in Shims : rpc[Stop(t)] # "sent" => rpc'[Stop(t)] # "sent"
      BY <1>7, AgentFacts DEF TypeOK
    <2> QED BY <1>14, <1>15, <2>1, AgentFacts DEF Quiet
  <1>17. Exclusive'
    BY <1>15 DEF Exclusive, SameFrontend
  <1>18. AckedRun'
    <2>1. \A t \in acked' : t \in acked \/ (t = s /\ Running(s) /\ ~Stopping(s))
      BY <1>7
    <2> QED BY <1>1, <1>15, <2>1 DEF AckedRun, TypeOK
  \* The agent's own shim, once quiet, has no request on its way.
  <1>19. ~Raced(s) /\ (Stopping(s) \/ Dead(s)) => a = Stop(s) /\ ~Dead(s)
    <2>1. a = Run(s) => Pending(Run(s))
      BY <1>1, AgentFacts DEF Pending
    <2>2. a = Reload(s) => Pending(Reload(s))
      BY <1>1, AgentFacts DEF Pending, Places
    <2> QED BY <1>1, <1>6, <2>1, <2>2 DEF Quiet
  <1>20. Cleared'
    <2> SUFFICES ASSUME NEW t \in Shims \ misread, ~Raced(t),
                        pc'[Stop(t)] = "exit0" \/ proc[t] = "exit0"
                 PROVE  EntriesOf(t)' = {}
      BY <1>7, <1>15 DEF Cleared
    <2>1. CASE t # s
      <3>1. pc'[Stop(t)] = pc[Stop(t)]
        BY <1>1, <1>6, <1>7, <2>1, AgentFacts DEF TypeOK
      <3> QED BY <1>9, <2>1, <3>1 DEF Cleared
    <2>2. CASE t = s /\ a = Stop(s)
      <3>1. \A f, g \in EntriesFor(s) : f = g
        BY <2>2 DEF EntriesFor
      <3>2. \A k \in EntriesOf(s) : k = SvcName(entries[k]) /\ entries[k] \in EntriesFor(s)
        BY <1>1, <2>2 DEF Keyed, EntriesOf
      <3>3. \A k \in EntriesOf(s) : k = n
        BY <1>3, <3>1, <3>2 DEF n
      <3> QED BY <1>9, <2>2, <3>3
    <2>3. CASE t = s /\ a # Stop(s)
      <3>1. pc'[Stop(s)] = pc[Stop(s)]
        BY <1>1, <1>7, <2>3, AgentFacts DEF TypeOK
      <3>2. Stopping(s) \/ Dead(s)
        BY <1>1, <2>3, <3>1 DEF Stopping, Running, Dead, Places, AgentsOf, TypeOK
      <3> QED BY <1>19, <2>3, <3>2
    <2> QED BY <2>1, <2>2, <2>3
  <1>21. RegistrationLasts'
    <2>0. acked' \subseteq Shims
      BY <1>1, <1>7 DEF TypeOK
    <2> SUFFICES ASSUME NEW t \in acked', NameIsOwn(t) PROVE EntriesOf(t)' # {}
      BY <1>7, <1>15, <2>0, OwnBefore DEF RegistrationLasts
    <2>1. t \in Shims
      BY <2>0
    <2>2. CASE t = s
      <3>1. Running(s) /\ ~Stopping(s)
        BY <1>7, <2>2 DEF AckedRun
      <3>2. a # Stop(s)
        BY <1>1, <3>1 DEF Places, Stopping
      <3> QED BY <1>9, <2>2, <3>2
    <2>3. CASE t # s
      <3>1. t \in acked /\ Running(t)
        BY <1>7, <2>3 DEF AckedRun
      <3>2. PICK k \in EntriesOf(t) : TRUE
        BY <2>1, <3>1 DEF RegistrationLasts
      <3>3. ASSUME k = n PROVE FALSE
        <4>1. k \in NamesOf(t)
          BY <2>1, <3>2 DEF EntriesOf, Keyed, NamesOf
        <4>2. n \in NamesOf(s)
          BY <1>3 DEF n, NamesOf
        <4>3. SameFrontend(t, s) /\ ~Raced(s)
          BY <1>1, <2>1, <2>3, <3>3, <4>1, <4>2 DEF NameIsOwn, Rival
        <4>4. ~Running(s)
          BY <1>1, <2>1, <2>3, <3>1, <4>3 DEF Exclusive
        <4>5. Dead(s)
          BY <1>1, <1>6, <4>4 DEF Running, Dead, Places, AgentsOf, TypeOK
        <4>6. rpc[Stop(s)] # "sent"
          BY <1>1, <4>3, <4>5 DEF Quiet
        <4> QED BY <1>1, <1>19, <4>3, <4>5, <4>6
      <3> QED BY <1>9, <2>1, <3>2, <3>3
    <2> QED BY <2>2, <2>3
  <1> QED BY <1>10, <1>11, <1>12, <1>13, <1>16, <1>17, <1>18, <1>20, <1>21

-----------------------------------------------------------------------------
(***************************************************************************)
(* The end of a shim's process, by os.Exit or by a signal: a shim that was *)
(* not raced has no request of its own left.                               *)
(***************************************************************************)
ShimEnds(s, how) ==
  /\ Running(s) /\ End(s, how)
  /\ how \in {"exit0", "exit1", "killed"}
  /\ how = "exit0" => pc[Stop(s)] = "exit0"
  /\ UNCHANGED <<server, entries, docker, todo, script, misread>>
  /\ incidents' \in 0 .. MaxIncidents
  /\ acked' \subseteq acked /\ s \notin acked'
  /\ raced \subseteq raced' /\ raced' \subseteq raced \cup AgentsOf(s)
  /\ AgentsOf(s) \cap raced' = {} =>
       ~Pending(Run(s)) /\ ~Pending(Reload(s)) /\ rpc[Stop(s)] # "sent"

\* The end of a shim's process preserves the invariant.
LEMMA EndStep ==
  ASSUME IInv, NEW s \in Shims, NEW how, ShimEnds(s, how)
  PROVE  IInv'
  <1> USE DEF IInv, ShimEnds
  <1> DEFINE own   == {Run(s), Stop(s)}
             quiet == {a \in own : rpc[a] # "sent"}
  <1>1. /\ proc'  = [proc EXCEPT ![s] = how]
        /\ pc'    = [a \in Agents |-> IF a \in own THEN "dead" ELSE pc[a]]
        /\ tries' = [a \in Agents |-> IF a \in own THEN 0 ELSE tries[a]]
        /\ msg'   = [a \in Agents |-> IF a \in quiet THEN NoRequest ELSE msg[a]]
        /\ rpc'   = [a \in Agents |-> IF a \in quiet THEN "none" ELSE rpc[a]]
    BY DEF End
  <1>2. TypeOK'
    <2>1. 0 \in 0 .. Tries - 1
      BY ShimAssumption
    <2>2. acked' \subseteq Shims /\ raced' \subseteq Agents
      <3>1. acked' \subseteq acked /\ raced' \subseteq raced \cup AgentsOf(s)
        OBVIOUS
      <3>2. acked \subseteq Shims /\ raced \subseteq Agents
        BY DEF TypeOK
      <3> HIDE DEF IInv, ShimEnds
      <3>3. AgentsOf(s) \subseteq Agents
        BY AgentFacts DEF AgentsOf
      <3> QED BY <3>1, <3>2, <3>3
    <2> QED BY <1>1, <2>1, <2>2 DEF TypeOK
  <1>3. /\ \A t \in Shims \ {s} :
             /\ pc'[Run(t)] = pc[Run(t)] /\ rpc'[Run(t)] = rpc[Run(t)]
             /\ pc'[Stop(t)] = pc[Stop(t)] /\ rpc'[Stop(t)] = rpc[Stop(t)]
             /\ proc'[t] = proc[t]
        /\ \A t \in Shims : pc'[Reload(t)] = pc[Reload(t)] /\ rpc'[Reload(t)] = rpc[Reload(t)]
        /\ pc'[Run(s)] = "dead" /\ pc'[Stop(s)] = "dead" /\ proc'[s] = how
        /\ \A a \in own : rpc'[a] = "sent" <=> rpc[a] = "sent"
    <2>1. proc'[s] = how /\ \A t \in Shims \ {s} : proc'[t] = proc[t]
      BY <1>1 DEF TypeOK
    <2> HIDE DEF IInv, ShimEnds
    <2>2. /\ own \subseteq Agents
          /\ \A t \in Shims : Reload(t) \in Agents \ own
          /\ \A t \in Shims \ {s} : Run(t) \in Agents \ own /\ Stop(t) \in Agents \ own
      BY AgentFacts
    <2>3. \A a \in Agents \ own : pc'[a] = pc[a] /\ rpc'[a] = rpc[a]
      BY <1>1
    <2>4. \A a \in own : pc'[a] = "dead" /\ (rpc'[a] = "sent" <=> rpc[a] = "sent")
      BY <1>1, <2>2
    <2> QED BY <2>1, <2>2, <2>3, <2>4
  <1>4. Places'
    <2>1. \A t \in Shims :
            /\ pc'[Run(t)] \in {"off", "lookup", "call", "wait", "parked", "dead"}
            /\ pc'[Stop(t)] \in {"off", "lookup", "call", "wait", "exit0", "exit1", "dead"}
            /\ pc'[Reload(t)] \in {"off", "lookup", "call", "wait"}
            /\ proc'[t] = "none" => t \notin todo' /\ \A a \in AgentsOf(t) : pc'[a] = "off"
            /\ Running(t)' => pc'[Run(t)] # "off" /\ pc'[Run(t)] # "dead" /\ pc'[Stop(t)] # "dead"
            /\ Dead(t)' <=> pc'[Run(t)] = "dead"
            /\ Dead(t)' <=> pc'[Stop(t)] = "dead"
      BY <1>3 DEF Places, Running, Dead, AgentsOf
    <2>2. \A a \in Agents :
            /\ rpc'[a] # "none" => pc'[a] \in {"wait", "dead"}
            /\ pc'[a] = "wait" => rpc'[a] # "none"
            /\ rpc'[a] = "sent" => server' = "up"
            /\ pc'[a] \in {"call", "wait"} \/ rpc'[a] # "none" <=> msg'[a] # NoRequest
      BY <1>1 DEF Places, TypeOK
    <2> QED BY <2>1, <2>2 DEF Places, Running, Dead
  <1>5. Requests'
    BY <1>1 DEF Requests
  <1>6. Keyed'
    BY <1>3, KeyedStays DEF Running
  <1>7. /\ \A t \in Shims : Raced(t) => Raced(t)'
        /\ ~Running(s)' /\ ~Stopping(s)'
        /\ \A t \in Shims \ {s} :
             /\ Raced(t)' => Raced(t)
             /\ Running(t)' <=> Running(t)
             /\ Stopping(t)' <=> Stopping(t)
             /\ Dead(t)' <=> Dead(t)
    <2>1. \A t \in Shims \ {s} : AgentsOf(t) \cap AgentsOf(s) = {}
      BY AgentFacts DEF AgentsOf
    <2>2. /\ \A t \in Shims : Raced(t) => Raced(t)'
          /\ \A t \in Shims \ {s} : Raced(t)' => Raced(t)
      BY <2>1 DEF Raced, AgentsOf
    <2> QED BY <1>3, <2>2 DEF Running, Stopping, Dead
  <1>8. Quiet'
    <2> SUFFICES ASSUME NEW t \in Shims, ~Raced(t)'
                 PROVE  /\ Stopping(t)' \/ Dead(t)' => ~Pending(Run(t))' /\ ~Pending(Reload(t))'
                        /\ Dead(t)' => rpc'[Stop(t)] # "sent"
      BY DEF Quiet
    <2>1. CASE t = s
      BY <1>3, <2>1, AgentFacts DEF Pending, Raced, AgentsOf
    <2>2. CASE t # s
      <3>1. Pending(Run(t))' <=> Pending(Run(t))
        BY <1>3, <2>2, AgentFacts DEF Pending
      <3>2. Pending(Reload(t))' <=> Pending(Reload(t))
        BY <1>3, <2>2, AgentFacts DEF Pending
      <3>3. rpc'[Stop(t)] = rpc[Stop(t)]
        BY <1>3, <2>2
      <3> QED BY <1>7, <2>2, <3>1, <3>2, <3>3 DEF Quiet
    <2> QED BY <2>1, <2>2
  <1>9. Exclusive' /\ AckedRun'
    BY <1>7 DEF Exclusive, SameFrontend, AckedRun, TypeOK
  <1>10. Cleared'
    BY <1>3, <1>7 DEF Cleared, EntriesOf
  <1>11. RegistrationLasts'
    BY <1>7, OwnBefore DEF RegistrationLasts, EntriesOf, TypeOK
  <1> QED BY <1>2, <1>4, <1>5, <1>6, <1>8, <1>9, <1>10, <1>11

-----------------------------------------------------------------------------
(***************************************************************************)
(* Steps that touch no agent, no entry and no history preserve the         *)
(* invariant: those of Docker's listing, of the server's start, Notify and *)
(* a line of resync that panics.                                           *)
(***************************************************************************)
LEMMA CalmStep ==
  ASSUME IInv, UNCHANGED <<entries, agents, history>>, TypeOK',
         \A s \in Shims : s \in todo' <=> s \in todo,
         server' = server \/ server = "starting" \/ server = "down",
         \A s \in Shims : /\ Running(s)' <=> Running(s)
                          /\ proc'[s] = "exit0" <=> proc[s] = "exit0"
                          /\ proc'[s] = "none" <=> proc[s] = "none"
  PROVE  IInv'
  <1> USE DEF IInv, agents, history
  <1>1. /\ pc' = pc /\ tries' = tries /\ msg' = msg /\ rpc' = rpc
        /\ acked' = acked /\ raced' = raced /\ misread' = misread
    OBVIOUS
  <1>2. \A s \in Shims : /\ Dead(s)' <=> Dead(s)
                         /\ Stopping(s)' <=> Stopping(s)
                         /\ Raced(s)' <=> Raced(s)
                         /\ Pending(Run(s))' <=> Pending(Run(s))
                         /\ Pending(Reload(s))' <=> Pending(Reload(s))
    BY <1>1 DEF TypeOK, Dead, Running, Stopping, Raced, AgentsOf, Pending
  <1>3. Places'
    BY <1>1, <1>2 DEF Places
  <1>4. Requests' /\ Keyed'
    BY <1>1, KeyedStays DEF Requests
  <1>5. Quiet' /\ Exclusive'
    BY <1>1, <1>2 DEF Quiet, Exclusive, SameFrontend
  <1>6. Cleared' /\ AckedRun'
    BY <1>1, <1>2 DEF Cleared, EntriesOf, AckedRun, TypeOK
  <1>7. RegistrationLasts'
    BY <1>1, <1>2, OwnBefore DEF RegistrationLasts, EntriesOf, TypeOK
  <1> QED BY <1>3, <1>4, <1>5, <1>6, <1>7

\* The steps of main, handleStopSignals and Docker preserve the invariant.
LEMMA LifeStep ==
  ASSUME IInv, NEW s \in Shims,
         Start(s) \/ Notify(s) \/ Signal(s) \/ Exit(s) \/ Kill(s) \/ List(s) \/ Unlist(s)
  PROVE  IInv'
  <1> USE DEF IInv
  <1>0. incidents \in 0 .. MaxIncidents /\ acked \subseteq Shims
    BY DEF TypeOK
  <1>1. ASSUME Notify(s) \/ List(s) \/ Unlist(s) PROVE IInv'
    <2>1. TypeOK'
      BY <1>1 DEF Notify, List, Unlist, TypeOK, agents, history
    <2>2. \A t \in Shims : /\ Running(t)' <=> Running(t)
                           /\ proc'[t] = "exit0" <=> proc[t] = "exit0"
                           /\ proc'[t] = "none" <=> proc[t] = "none"
      BY <1>1 DEF Notify, List, Unlist, Running, TypeOK
    <2>3. UNCHANGED <<server, entries, agents, todo, history>>
      BY <1>1 DEF Notify, List, Unlist
    <2> QED BY <2>1, <2>2, <2>3, CalmStep
  <1>2. ASSUME Exit(s) PROVE IInv'
    <2> DEFINE how == IF pc[Stop(s)] = "exit1" THEN "exit1" ELSE "exit0"
    <2>1. /\ Running(s) /\ pc[Stop(s)] \in {"exit0", "exit1"} /\ End(s, how)
          /\ UNCHANGED <<server, entries, docker, todo, script, incidents, misread, acked, raced>>
      BY <1>2 DEF Exit, CloseReturned, history
    <2>2. Stopping(s) /\ s \notin acked
      BY <2>1 DEF Stopping, AckedRun
    <2>3. rpc[Stop(s)] # "sent"
      BY <2>1, AgentFacts DEF Places
    <2>4. AgentsOf(s) \cap raced' = {} =>
            ~Pending(Run(s)) /\ ~Pending(Reload(s)) /\ rpc[Stop(s)] # "sent"
      BY <2>1, <2>2, <2>3 DEF Quiet, Raced
    <2>5. ShimEnds(s, how)
      BY <1>0, <2>1, <2>2, <2>4 DEF ShimEnds
    <2> QED BY <2>5, EndStep
  <1>3. ASSUME Kill(s) \/ (Signal(s) /\ proc[s] # "up") PROVE IInv'
    <2>1. /\ Running(s) /\ End(s, "killed")
          /\ acked' = acked \ {s} /\ raced' = raced \cup {a \in AgentsOf(s) : Pending(a)}
          /\ UNCHANGED <<server, entries, docker, todo, script, misread>>
          /\ incidents' \in 0 .. MaxIncidents
      BY <1>0, <1>3, ShimAssumption DEF Kill, Signal, Incident
    <2>2. rpc[Stop(s)] = "sent" => Pending(Stop(s))
      BY AgentFacts DEF Pending
    <2>3. AgentsOf(s) \cap raced' = {} =>
            ~Pending(Run(s)) /\ ~Pending(Reload(s)) /\ rpc[Stop(s)] # "sent"
      BY <2>1, <2>2 DEF AgentsOf
    <2>4. ShimEnds(s, "killed")
      BY <2>1, <2>3 DEF ShimEnds
    <2> QED BY <2>4, EndStep
  <1>4. ASSUME Signal(s), proc[s] = "up" PROVE IInv'
    <2>1. /\ Running(s) /\ ~Stopping(s) /\ acked' = acked \ {s}
          /\ raced' = raced \cup {a \in AgentsOf(s) : Pending(a)}
          /\ pc' = [pc EXCEPT ![Stop(s)] = "lookup"]
          /\ UNCHANGED <<server, entries, proc, docker, tries, msg, rpc, todo, script, incidents, misread>>
      BY <1>4 DEF Signal
    <2>2. pc[Stop(s)] = "off" /\ rpc[Stop(s)] = "none"
      BY <2>1, AgentFacts DEF Stopping, Places, TypeOK
    <2>3. TypeOK'
      BY <2>1, AgentFacts DEF TypeOK, AgentsOf
    <2>4. Places'
      BY <2>1, <2>2, AgentFacts DEF Places, TypeOK, Running, Dead, AgentsOf
    <2>5. Requests' /\ Keyed'
      BY <2>1, KeyedStays DEF Requests
    <2>6. \A t \in Shims \ {s} : AgentsOf(t) \cap AgentsOf(s) = {}
      BY AgentFacts DEF AgentsOf
    <2>7. /\ \A t \in Shims : Raced(t) => Raced(t)'
          /\ \A t \in Shims \ {s} : (Raced(t)' => Raced(t)) /\ (Stopping(t)' <=> Stopping(t))
          /\ \A t \in Shims : (Running(t)' <=> Running(t)) /\ (Dead(t)' <=> Dead(t))
          /\ ~Raced(s)' => ~Pending(Run(s)) /\ ~Pending(Reload(s))
          /\ ~Dead(s)
      BY <2>1, <2>6, AgentFacts
         DEF Raced, AgentsOf, Stopping, Running, Dead, TypeOK
    <2>8. \A t \in Shims : /\ Pending(Run(t))' <=> Pending(Run(t))
                           /\ Pending(Reload(t))' <=> Pending(Reload(t))
      BY <2>1, AgentFacts DEF Pending, TypeOK
    <2>9. Quiet'
      BY <2>1, <2>7, <2>8 DEF Quiet
    <2>10. Exclusive' /\ AckedRun'
      BY <1>0, <2>1, <2>7 DEF Exclusive, SameFrontend, AckedRun
    <2>11. Cleared'
      <3>1. \A t \in Shims : pc'[Stop(t)] = "exit0" => pc[Stop(t)] = "exit0"
        BY <2>1, AgentFacts DEF TypeOK
      <3> QED BY <2>1, <2>7, <3>1 DEF Cleared, EntriesOf
    <2>12. RegistrationLasts'
      BY <2>1, <2>7, OwnBefore DEF RegistrationLasts, EntriesOf, TypeOK
    <2> QED BY <2>3, <2>4, <2>5, <2>9, <2>10, <2>11, <2>12
  <1>5. ASSUME Start(s) PROVE IInv'
    <2>1. /\ proc[s] = "none" /\ proc' = [proc EXCEPT ![s] = "booting"]
          /\ pc' = [pc EXCEPT ![Run(s)] = "lookup"]
          /\ \A t \in Shims : SameFrontend(s, t) => ~Running(t)
          /\ UNCHANGED <<server, entries, docker, tries, msg, rpc, todo, script, incidents>>
          /\ UNCHANGED <<acked, raced, misread>>
      BY <1>5 DEF Start, history
    <2>2. /\ pc[Run(s)] = "off" /\ pc[Stop(s)] = "off" /\ ~Running(s) /\ ~Dead(s)
          /\ rpc[Run(s)] = "none"
      BY <2>1, AgentFacts DEF Places, AgentsOf, Running, Dead, TypeOK
    <2>3. TypeOK'
      BY <2>1, AgentFacts DEF TypeOK
    <2>4. Places'
      BY <2>1, <2>2, AgentFacts DEF Places, TypeOK, Running, Dead, AgentsOf
    <2>5. Requests' /\ Keyed'
      BY <2>1, KeyedStays DEF Requests, TypeOK
    <2>6. /\ \A t \in Shims \ {s} : (Running(t)' <=> Running(t)) /\ (Stopping(t)' <=> Stopping(t))
          /\ \A t \in Shims : (Raced(t)' <=> Raced(t)) /\ (Dead(t)' <=> Dead(t))
          /\ ~Stopping(s)' /\ ~Stopping(s) /\ Running(s)'
      BY <2>1, <2>2, AgentFacts DEF Raced, AgentsOf, Stopping, Running, Dead, TypeOK
    <2>7. \A t \in Shims \ {s} : /\ Pending(Run(t))' <=> Pending(Run(t))
                                 /\ Pending(Reload(t))' <=> Pending(Reload(t))
      BY <2>1, AgentFacts DEF Pending, TypeOK
    <2>8. Quiet'
      BY <2>1, <2>2, <2>6, <2>7 DEF Quiet
    <2>9. Exclusive'
      BY <2>1, <2>6 DEF Exclusive, SameFrontend
    <2>10. AckedRun'
      BY <1>0, <2>1, <2>6 DEF AckedRun
    <2>11. Cleared'
      <3>1. \A t \in Shims : /\ pc'[Stop(t)] = pc[Stop(t)]
                             /\ proc'[t] = "exit0" => proc[t] = "exit0"
        BY <2>1, AgentFacts DEF TypeOK
      <3> QED BY <2>1, <2>6, <3>1 DEF Cleared, EntriesOf
    <2>12. RegistrationLasts'
      BY <2>1, <2>6, OwnBefore DEF RegistrationLasts, EntriesOf, TypeOK
    <2> QED BY <2>3, <2>4, <2>5, <2>8, <2>9, <2>10, <2>11, <2>12
  <1> QED BY <1>1, <1>2, <1>3, <1>4, <1>5

-----------------------------------------------------------------------------
(***************************************************************************)
(* The end of the server empties its map and ends the calls under way.     *)
(***************************************************************************)
LEMMA ServerEndsStep ==
  ASSUME IInv, ServerEnds, incidents' \in 0 .. MaxIncidents, script' \in ScriptState
  PROVE  IInv'
  <1> USE DEF IInv
  <1>1. /\ server' = "down" /\ entries' = << >> /\ acked' = {}
        /\ rpc' = [a \in Agents |-> IF rpc[a] = "none" THEN "none"
                                    ELSE IF Alive(a) THEN "error" ELSE "none"]
        /\ msg' = [a \in Agents |-> IF Alive(a) THEN msg[a] ELSE NoRequest]
        /\ UNCHANGED <<proc, docker, pc, tries, todo, raced, misread>>
    BY DEF ServerEnds
  <1>2. TypeOK'
    BY <1>1 DEF TypeOK
  <1>3. \A a \in Agents : ~Alive(a) => pc[a] \in {"off", "dead"}
    BY AgentFacts DEF Alive, Running, Dead, Places, AgentsOf, TypeOK
  <1>4. \A a \in Agents :
          /\ rpc'[a] # "none" => pc'[a] \in {"wait", "dead"}
          /\ pc'[a] = "wait" => rpc'[a] # "none"
          /\ rpc'[a] # "sent"
          /\ pc'[a] \in {"call", "wait"} \/ rpc'[a] # "none" <=> msg'[a] # NoRequest
    BY <1>1, <1>3 DEF Places, TypeOK
  <1>5. Places'
    BY <1>1, <1>4 DEF Places, Running, Dead
  <1>6. Requests' /\ Keyed'
    BY <1>1 DEF Requests, Keyed, EntriesOf
  <1>7. \A t \in Shims : /\ Stopping(t)' <=> Stopping(t)
                         /\ Dead(t)' <=> Dead(t)
                         /\ Raced(t)' <=> Raced(t)
                         /\ Running(t)' <=> Running(t)
                         /\ Pending(Run(t))' => Pending(Run(t))
                         /\ Pending(Reload(t))' => Pending(Reload(t))
    BY <1>1, <1>4, AgentFacts, ZenonT(40) DEF Stopping, Dead, Raced, Running, Pending
  <1>8. Quiet' /\ Exclusive'
    BY <1>4, <1>7, AgentFacts DEF Quiet, Exclusive, SameFrontend
  <1>9. Cleared' /\ AckedRun' /\ RegistrationLasts'
    BY <1>1 DEF Cleared, EntriesOf, AckedRun, RegistrationLasts
  <1> QED BY <1>2, <1>5, <1>6, <1>8, <1>9

(***************************************************************************)
(* The server's start and its stop, and a request for a resync, preserve   *)
(* the invariant.                                                          *)
(***************************************************************************)
LEMMA ServerStep ==
  ASSUME IInv, ServerStart \/ ServerListen \/ ServerStop \/ AskResync
  PROVE  IInv'
  <1> USE DEF IInv
  <1>0. incidents \in 0 .. MaxIncidents /\ script \in ScriptState
    BY DEF TypeOK
  <1>i. ASSUME Incident PROVE incidents' \in 0 .. MaxIncidents
    BY <1>0, <1>i, ShimAssumption DEF Incident
  <1>1. ASSUME ServerStart \/ ServerListen \/ AskResync PROVE IInv'
    <2>1. TypeOK'
      <3>1. /\ UNCHANGED <<entries, proc, docker, pc, tries, msg, rpc, todo>>
            /\ UNCHANGED <<acked, raced, misread>>
        BY <1>1 DEF ServerStart, ServerListen, AskResync, agents, history
      <3>2. server' \in {"down", "starting", "up"} /\ script' \in ScriptState
        BY <1>0, <1>1, ScriptTypes DEF ServerStart, ServerListen, AskResync, TypeOK
      <3>3. incidents' \in 0 .. MaxIncidents
        BY <1>0, <1>i, <1>1 DEF ServerStart, ServerListen, AskResync
      <3> QED BY <3>1, <3>2, <3>3 DEF TypeOK
    <2>2. /\ UNCHANGED <<entries, agents, todo, history>> /\ proc' = proc
          /\ server' = server \/ server = "starting" \/ server = "down"
      BY <1>1 DEF ServerStart, ServerListen, AskResync
    <2>3. \A t \in Shims : /\ Running(t)' <=> Running(t)
                           /\ proc'[t] = "exit0" <=> proc[t] = "exit0"
                           /\ proc'[t] = "none" <=> proc[t] = "none"
      BY <2>2 DEF Running
    <2> QED BY <2>1, <2>2, <2>3, CalmStep
  <1>2. ASSUME ServerStop PROVE IInv'
    BY <1>0, <1>i, <1>2, ServerEndsStep DEF ServerStop
  <1> QED BY <1>1, <1>2

\* The resync script's reading of the process table and its lines preserve it.
LEMMA ScriptStep ==
  ASSUME IInv, Script
  PROVE  IInv'
  <1> USE DEF IInv
  <1>1. ASSUME Snapshot PROVE IInv'
    <2>1. /\ todo' = ProcessTable
          /\ raced' = raced \cup {Reload(s) : s \in {t \in Shims : Stopping(t)}}
          /\ UNCHANGED <<server, entries, proc, docker, pc, tries, msg, rpc, incidents>>
          /\ UNCHANGED <<acked, misread>>
      BY <1>1 DEF Snapshot, agents
    <2>2. TypeOK'
      <3>1. todo' \subseteq Shims \cup UdpShims /\ raced' \subseteq Agents
        BY <2>1, AgentFacts DEF TypeOK, ProcessTable
      <3>2. script' \in ScriptState
        BY <1>1, ScriptTypes DEF Snapshot, TypeOK
      <3> QED BY <2>1, <3>1, <3>2 DEF TypeOK
    <2>a. \A t \in Shims : t \in todo' <=> Running(t)
      BY <2>1, ShimAssumption DEF ProcessTable
    <2>3. Places'
      BY <2>1, <2>a DEF Places, Running, Dead
    <2>4. Requests' /\ Keyed'
      BY <2>1, KeyedStays DEF Requests
    <2>5. \A t \in Shims : /\ Raced(t) => Raced(t)'
                           /\ Stopping(t) => Raced(t)'
                           /\ Running(t)' <=> Running(t)
                           /\ Stopping(t)' <=> Stopping(t)
                           /\ Dead(t)' <=> Dead(t)
                           /\ Pending(Run(t))' <=> Pending(Run(t))
      BY <2>1, AgentFacts
         DEF Raced, AgentsOf, Running, Stopping, Dead, Pending
    <2>6. ASSUME NEW t \in Shims, ~Raced(t)', Dead(t) PROVE ~Pending(Reload(t))'
      <3>1. ~Pending(Reload(t))
        BY <2>5, <2>6 DEF Quiet
      <3>2. t \notin todo' /\ pc'[Reload(t)] = pc[Reload(t)]
        BY <2>1, <2>a, <2>6 DEF Running, Dead
      <3> QED BY <3>1, <3>2, AgentFacts DEF Pending
    <2>7. Quiet' /\ Exclusive'
      BY <2>1, <2>5, <2>6 DEF Quiet, Exclusive, SameFrontend
    <2>8. Cleared' /\ AckedRun'
      BY <2>1, <2>5 DEF Cleared, EntriesOf, AckedRun, TypeOK
    <2>9. RegistrationLasts'
      BY <2>1, <2>5, OwnBefore DEF RegistrationLasts, EntriesOf, TypeOK
    <2> QED BY <2>2, <2>3, <2>4, <2>7, <2>8, <2>9
  <1>2. ASSUME NEW s \in Shims, ReloadLine(s) PROVE IInv'
    <2>1. /\ s \in todo /\ todo' = todo \ {s}
          /\ pc[Reload(s)] = "off" /\ pc' = [pc EXCEPT ![Reload(s)] = "lookup"]
          /\ UNCHANGED <<server, entries, proc, docker, tries, msg, rpc, script, incidents>>
          /\ UNCHANGED <<acked, raced, misread>>
      BY <1>2 DEF ReloadLine, Reloading, history
    <2>2. rpc[Reload(s)] = "none" /\ proc[s] # "none"
      BY <2>1, AgentFacts DEF Places
    <2>3. TypeOK'
      BY <2>1, AgentFacts DEF TypeOK
    <2>4. Places'
      BY <2>1, <2>2, AgentFacts DEF Places, TypeOK, Running, Dead, AgentsOf
    <2>5. Requests' /\ Keyed'
      BY <2>1, KeyedStays DEF Requests
    <2>6. \A t \in Shims : /\ Raced(t)' <=> Raced(t)
                           /\ Running(t)' <=> Running(t)
                           /\ Stopping(t)' <=> Stopping(t)
                           /\ Dead(t)' <=> Dead(t)
      BY <2>1, AgentFacts DEF Raced, AgentsOf, Running, Stopping, Dead, TypeOK
    <2>7. \A t \in Shims : /\ Pending(Run(t))' <=> Pending(Run(t))
                           /\ Pending(Reload(t))' => Pending(Reload(t))
      <3>1. \A t \in Shims : pc'[Run(t)] = pc[Run(t)] /\ rpc'[Run(t)] = rpc[Run(t)]
        BY <2>1, AgentFacts DEF TypeOK
      <3>2. \A t \in Shims \ {s} : pc'[Reload(t)] = pc[Reload(t)]
        BY <2>1, AgentFacts DEF TypeOK
      <3>3. Pending(Reload(s))
        BY <2>1, AgentFacts DEF Pending
      <3> QED BY <2>1, <3>1, <3>2, <3>3, AgentFacts, ZenonT(40) DEF Pending
    <2>8. Quiet' /\ Exclusive' /\ AckedRun'
      BY <2>1, <2>6, <2>7 DEF Quiet, Exclusive, SameFrontend, AckedRun, TypeOK
    <2>9. Cleared'
      <3>1. \A t \in Shims : pc'[Stop(t)] = pc[Stop(t)]
        BY <2>1, AgentFacts DEF TypeOK
      <3> QED BY <2>1, <2>6, <3>1 DEF Cleared, EntriesOf
    <2>10. RegistrationLasts'
      BY <2>1, <2>6, OwnBefore DEF RegistrationLasts, EntriesOf, TypeOK
    <2> QED BY <2>3, <2>4, <2>5, <2>8, <2>9, <2>10
  <1>3. ASSUME ScriptEnds \/ \E u \in UdpShims : ReloadPanics(u) PROVE IInv'
    <2>1. /\ \A s \in Shims : s \in todo' <=> s \in todo
          /\ todo' \subseteq todo /\ script' \in ScriptState
          /\ UNCHANGED <<server, entries, proc, docker, agents, incidents, history>>
      BY <1>3, ScriptTypes, ShimAssumption DEF ScriptEnds, ReloadPanics, TypeOK
    <2>2. TypeOK'
      BY <2>1 DEF TypeOK, agents, history
    <2> QED BY <2>1, <2>2, CalmStep DEF Running
  <1>4. ASSUME PostFails PROVE IInv'
    BY <1>4, ServerEndsStep, ScriptTypes DEF PostFails, TypeOK
  <1> QED BY <1>1, <1>2, <1>3, <1>4 DEF Script

\* Every step on the host preserves the invariant.
LEMMA ShimStepInv == IInv /\ [Next]_vars => IInv'
  <1> SUFFICES ASSUME IInv, [Next]_vars PROVE IInv'
    OBVIOUS
  <1>1. CASE UNCHANGED vars
    <2>1. /\ UNCHANGED <<entries, agents, todo, history>> /\ TypeOK'
          /\ server' = server /\ proc' = proc
      BY <1>1 DEF vars, agents, history, IInv, TypeOK
    <2> QED BY <2>1, CalmStep DEF Running
  <1>2. CASE Next
    BY <1>2, CallStep, RegisterStep, LifeStep, ServerStep, ScriptStep
       DEF Next, Step, Life
  <1> QED BY <1>1, <1>2

-----------------------------------------------------------------------------
(***************************************************************************)
(* The inductive invariant holds in every state of the host.               *)
(***************************************************************************)
THEOREM ShimInvariantHolds == Spec => []IInv
  BY ShimInitInv, ShimStepInv, PTL DEF Spec

(***************************************************************************)
(* Type correctness: of processes, agents and messages, and of the map.    *)
(***************************************************************************)
THEOREM ShimTypeCorrect == Spec => []TypeOK
  <1>1. IInv => TypeOK
    BY DEF IInv
  <1> QED BY <1>1, ShimInvariantHolds, PTL

(***************************************************************************)
(* A shim whose Close came back leaves no entry, provided that no REGISTER *)
(* was under way when it was stopped and its lookups found its container.  *)
(***************************************************************************)
THEOREM ShutdownIsClean == Spec => []CleanShutdown
  <1>1. IInv => CleanShutdown
    BY DEF IInv, Cleared, CleanShutdown
  <1> QED BY <1>1, ShimInvariantHolds, PTL

(***************************************************************************)
(* A registration that the running server took lasts until its own shim is *)
(* stopped, unless a rival takes it away: a shim of the same name that is  *)
(* on another address, or that was stopped or killed on the same address   *)
(* with a request still to come.  Every other one can do it no harm.       *)
(***************************************************************************)
THEOREM RegistrationsLast == Spec => []RegistrationLasts
  <1>1. IInv => RegistrationLasts
    BY DEF IInv
  <1> QED BY <1>1, ShimInvariantHolds, PTL

(***************************************************************************)
(* Of two entries on one address, for each of which the listenersHandler   *)
(* makes a listener, one was left behind by a shim that did not come to a  *)
(* clean stop or was misread: each is of a shim that was started; one shim *)
(* has one name; and of two shims on an address one has stopped.           *)
(***************************************************************************)
THEOREM ListenersDoNotCollide == Spec => []OneListenerPerAddress
  <1>1. IInv => OneListenerPerAddress
    <2> SUFFICES ASSUME IInv, NEW m \in DOMAIN entries, NEW n \in DOMAIN entries, m # n,
                        entries[m].FrontendAddr = entries[n].FrontendAddr
                 PROVE  \E s \in Shims : {m, n} \cap EntriesOf(s) # {} /\ LeftBehind(s)
      BY DEF OneListenerPerAddress
    <2>1. PICK s \in Shims :
            proc[s] # "none" /\ m \in EntriesOf(s) /\ entries[m].FrontendAddr = Frontend[s]
      BY DEF IInv, Keyed
    <2>2. PICK t \in Shims :
            proc[t] # "none" /\ n \in EntriesOf(t) /\ entries[n].FrontendAddr = Frontend[t]
      BY DEF IInv, Keyed
    <2>3. ASSUME NEW u \in Shims, Dead(u), EntriesOf(u) # {} PROVE LeftBehind(u)
      BY <2>3 DEF IInv, Cleared, Dead, LeftBehind
    <2>4. CASE s = t
      <3>1. \A f, g \in EntriesFor(s) : f = g \/ s \in misread
        BY DEF EntriesFor
      <3>2. entries[m] \in EntriesFor(s) /\ entries[n] \in EntriesFor(s)
        BY <2>1, <2>2, <2>4 DEF IInv, Keyed
      <3>3. entries[m] # entries[n]
        BY DEF IInv, Keyed
      <3> QED BY <2>1, <3>1, <3>2, <3>3 DEF LeftBehind
    <2>5. CASE s # t
      <3>1. ~Running(s) \/ ~Running(t)
        BY <2>1, <2>2, <2>5 DEF IInv, Exclusive, SameFrontend
      <3>2. Dead(s) \/ Dead(t)
        BY <2>1, <2>2, <3>1 DEF IInv, TypeOK, Running, Dead
      <3> QED BY <2>1, <2>2, <2>3, <3>2
    <2> QED BY <2>4, <2>5
  <1> QED BY <1>1, ShimInvariantHolds, PTL
=====
