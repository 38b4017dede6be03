---------------------------- MODULE ShimLifecycle ----------------------------
(***************************************************************************)
(* The life of the TCP shims on one host: cmd/envoy-docker-shim (main.go,  *)
(* envoy_proxy.go, docker.go) with the registration server and the resync  *)
(* script around them.                                                     *)
(*                                                                         *)
(* Docker starts one shim process for each port it publishes and stops it  *)
(* with a signal.  Three agents act for a shim: "run", the goroutine in    *)
(* EnvoyProxy.Run; "stop", the goroutine of handleStopSignals in           *)
(* EnvoyProxy.Close; and "reload", the separate process that the resync    *)
(* script starts with -reload and that ends with its Run.  All three go    *)
(* through withRetries and DoAction: look up the container's labels in     *)
(* Docker, send one request, wait for the answer, try again on an error.   *)
(* The sleeps before and between tries change nothing and are not steps.   *)
(*                                                                         *)
(* The server's registrar is the atomic map that Registrar.tla implements. *)
(***************************************************************************)
EXTENDS SvcNames, Naturals

CONSTANTS
  Shims,          \* shims, each for one published TCP port of one container
  UdpShims,       \* processes of this program for published UDP ports
  Bystanders,     \* containers that publish a port through no such shim
  Frontend,       \* -host-ip and -host-port of each shim
  Backend,        \* -container-ip and -container-port of each shim
  PublicPort,     \* the port that each container publishes
  LabelsOf,       \* the Docker labels of each container
  Tries,          \* len(EnvoyProxy.Retries)
  ShortOutages,   \* TRUE: Docker or a starting server never outlasts Retries
  MaxIncidents,   \* bound on the things that go wrong (see incidents)
  NoRequest       \* no message

Containers == Shims \cup Bystanders   \* a shim stands for its container too

ContainerLabels == [ServiceName : Labels, EnvironmentName : Labels,
                    ProxyMode : ProxyModes \cup {"none"}]

ASSUME ShimAssumption ==
  /\ Shims \cap Bystanders = {} /\ Shims \cap UdpShims = {}
  /\ Frontend \in [Shims -> TCPAddr] /\ Backend \in [Shims -> TCPAddr]
  /\ PublicPort \in [Containers -> Ports]
  /\ \A s \in Shims : PublicPort[s] = Frontend[s].Port
  /\ LabelsOf \in [Containers -> ContainerLabels]
  /\ Tries \in Nat \ {0} /\ MaxIncidents \in Nat /\ ShortOutages \in BOOLEAN
  /\ BadAddress \notin Addresses
  /\ NoRequest \notin RegistrarRequest

\* What makes an entry recognizable as a shim's: no two containers on one
\* host have the same address at a time, and here none is used again.
ASSUME BackendAssumption ==
  \A s, t \in Shims : s # t => Backend[s] # Backend[t]

VARIABLES
  server,     \* the server process: "down", "starting" or "up" (it listens)
  entries,    \* its Registrar.entries
  proc,       \* each shim's process
  docker,     \* whether a listing of Docker's shows each shim's container
  pc,         \* where each agent is
  tries,      \* the failed tries of each agent's withRetries loop
  msg,        \* the request that each agent makes
  rpc,        \* the state of each agent's call of Register
  todo,       \* processes on the resync script's lines, yet to be run again
  script,     \* the script: what systemd runs it for, whether it has yet to
              \* read the process table, and how its last line so far ended
  incidents   \* server stops, resync requests, killed shims and timeouts of
              \* Docker so far

\* History: what the properties compare with.
VARIABLES
  acked,      \* shims that the running server has taken a REGISTER from
  raced,      \* agents with a request still to come when their shim stopped
  misread     \* shims with another container's labels in a request

history == <<acked, raced, misread>>
agents  == <<pc, tries, msg, rpc>>
vars    == <<server, entries, proc, docker, pc, tries, msg, rpc, todo, script,
             incidents, acked, raced, misread>>

Run(s)    == <<s, "run">>
Stop(s)   == <<s, "stop">>
Reload(s) == <<s, "reload">>
Agents    == Shims \X {"run", "stop", "reload"}
ShimOf(a) == a[1]

Running(s)  == proc[s] \in {"booting", "up"}
Stopping(s) == Running(s) /\ pc[Stop(s)] # "off"
Alive(a)    == a[2] = "reload" \/ Running(ShimOf(a))
Reloading   == \E s \in Shims : pc[Reload(s)] # "off"

\* ExecStartPost is run "post", ExecReload is run "reload".
ScriptState == [unit : {"none", "post", "reload"}, due : BOOLEAN, failed : BOOLEAN]

NoScript == [unit |-> "none", due |-> FALSE, failed |-> FALSE]

\* A request of the agent's is still to be made, or on its way to the server.
Pending(a) ==
  CASE a[2] = "run"    -> pc[a] \notin {"parked", "dead"} \/ rpc[a] = "sent"
    [] a[2] = "stop"   -> pc[a] \notin {"off", "dead"} \/ rpc[a] = "sent"
    [] a[2] = "reload" -> ShimOf(a) \in todo \/ pc[a] # "off"

AgentsOf(s) == {Run(s), Stop(s), Reload(s)}
Raced(s)    == AgentsOf(s) \cap raced # {}

-----------------------------------------------------------------------------
Init ==
  /\ server = "down" /\ entries = << >>
  /\ proc   = [s \in Shims |-> "none"]
  /\ docker = [s \in Shims |-> "unlisted"]
  /\ pc     = [a \in Agents |-> "off"]
  /\ tries  = [a \in Agents |-> 0]
  /\ msg    = [a \in Agents |-> NoRequest]
  /\ rpc    = [a \in Agents |-> "none"]
  /\ todo = {} /\ script = NoScript /\ incidents = 0
  /\ acked = {} /\ raced = {} /\ misread = {}

(***************************************************************************)
(* DoAction and withRetries.                                               *)
(***************************************************************************)
Listed(c) == c \in Bystanders \/ docker[c] = "listed"

\* ContainerForPort: the first container that publishes the port number.
Found(s) == {c \in Containers : Listed(c) /\ PublicPort[c] = Frontend[s].Port}

ActionOf(a) == IF a[2] = "stop" THEN "DEREGISTER" ELSE "REGISTER"

\* RequestWithSettings, with the labels that ContainerFieldsForPort took from c.
RequestWithSettings(s, c, action) ==
  [FrontendAddr    |-> IPString(Frontend[s].IP), FrontendPort |-> Frontend[s].Port,
   BackendAddr     |-> IPString(Backend[s].IP),  BackendPort  |-> Backend[s].Port,
   Action          |-> action,
   EnvironmentName |-> LabelsOf[c].EnvironmentName,
   ServiceName     |-> LabelsOf[c].ServiceName,
   ProxyMode       |-> IF LabelsOf[c].ProxyMode = "none" THEN "http"
                       ELSE LabelsOf[c].ProxyMode]

LastTry(a) == tries[a] + 1 >= Tries

\* Mutants of GaveUp: Close parks as Run does; Close logs the error and returns.
GaveUpParked(a)  == IF a[2] = "reload" THEN "off" ELSE "parked"
GaveUpQuietly(a) == CASE a[2] = "run" -> "parked" [] a[2] = "stop" -> "exit0"
                      [] a[2] = "reload" -> "off"

\* Run parks for ever, Close returns or is log.Fatal, a reload process ends.
Done(a)   == CASE a[2] = "run" -> "parked" [] a[2] = "stop" -> "exit0"
               [] a[2] = "reload" -> "off"
GaveUp(a) == CASE a[2] = "run" -> "parked" [] a[2] = "stop" -> "exit1"
               [] a[2] = "reload" -> "off"

Finish(a, label) ==
  /\ pc' = [pc EXCEPT ![a] = label] /\ tries' = [tries EXCEPT ![a] = 0]
  /\ msg' = [msg EXCEPT ![a] = NoRequest] /\ rpc' = [rpc EXCEPT ![a] = "none"]

\* A reload process is a line of the script, which ends as its last line does.
LineEnds(a, failed) ==
  script' = IF a[2] = "reload" THEN [script EXCEPT !.failed = failed] ELSE script

Retry(a) ==
  IF LastTry(a) THEN Finish(a, GaveUp(a)) /\ LineEnds(a, TRUE)
  ELSE /\ pc' = [pc EXCEPT ![a] = "lookup"] /\ tries' = [tries EXCEPT ![a] = @ + 1]
       /\ UNCHANGED script
       /\ msg' = [msg EXCEPT ![a] = NoRequest] /\ rpc' = [rpc EXCEPT ![a] = "none"]

Incident == incidents < MaxIncidents /\ incidents' = incidents + 1

Others == UNCHANGED <<server, proc, docker, todo, incidents>>

Lookup(a) ==
  /\ Alive(a) /\ pc[a] = "lookup"
  /\ \E c \in Found(ShimOf(a)) :
       /\ msg' = [msg EXCEPT ![a] = RequestWithSettings(ShimOf(a), c, ActionOf(a))]
       /\ misread' = IF c = ShimOf(a) THEN misread ELSE misread \cup {ShimOf(a)}
  /\ pc' = [pc EXCEPT ![a] = "call"]
  /\ Others /\ UNCHANGED <<entries, tries, rpc, script, acked, raced>>

\* With ShortOutages, what a registration waits for comes before its last try.
Outlasts(a) == ShortOutages /\ a[2] # "stop" => tries[a] + 1 < Tries

WillBeListed(s) == Found(s) # {} \/ (Running(s) /\ docker[s] = "unlisted")

\* No container has the port, or Docker does not answer within DockerTimeout.
LookupFails(a) ==
  /\ Alive(a) /\ pc[a] = "lookup"
  /\ WillBeListed(ShimOf(a)) => Outlasts(a)
  /\ IF Found(ShimOf(a)) = {} THEN UNCHANGED incidents ELSE Incident
  /\ Retry(a)
  /\ UNCHANGED <<server, entries, proc, docker, todo, history>>

\* The connection is dialled without blocking: a call fails if nobody listens.
Call(a) ==
  /\ Alive(a) /\ pc[a] = "call"
  /\ \/ /\ server = "up"
        /\ pc' = [pc EXCEPT ![a] = "wait"] /\ rpc' = [rpc EXCEPT ![a] = "sent"]
        /\ UNCHANGED <<tries, msg, script>>
     \/ /\ server = "down" \/ (server = "starting" /\ Outlasts(a))
        /\ Retry(a)
  /\ Others /\ UNCHANGED <<entries, history>>

\* The server's handler, and its answer, which the agent waits for.  The
\* handler never looks at the context: it runs for an ended process as well.
Register(a) ==
  LET s == ShimOf(a) IN
  /\ server = "up" /\ rpc[a] = "sent"
  /\ entries' = Updated(entries, msg[a])
  /\ Finish(a, IF Alive(a) THEN Done(a) ELSE "dead") /\ LineEnds(a, FALSE)
  /\ acked' = IF Running(s) /\ ~Stopping(s) THEN acked \cup {s} ELSE acked
  /\ Others /\ UNCHANGED <<raced, misread>>

CallFails(a) ==
  /\ Alive(a) /\ rpc[a] = "error"
  /\ Retry(a)
  /\ Others /\ UNCHANGED <<entries, history>>

\* The request of a process that has ended is lost with its connection.
Drop(a) ==
  /\ ~Alive(a) /\ rpc[a] = "sent"
  /\ rpc' = [rpc EXCEPT ![a] = "none"] /\ msg' = [msg EXCEPT ![a] = NoRequest]
  /\ Others /\ UNCHANGED <<entries, pc, tries, script, history>>

(***************************************************************************)
(* The shim's process: main, handleStopSignals, and what Docker does.      *)
(***************************************************************************)
SameFrontend(s, t) == Frontend[s] = Frontend[t]

\* Docker publishes no address twice at a time.
Start(s) ==
  /\ proc[s] = "none"
  /\ \A t \in Shims : SameFrontend(s, t) => ~Running(t)
  /\ proc' = [proc EXCEPT ![s] = "booting"]
  /\ pc' = [pc EXCEPT ![Run(s)] = "lookup"]
  /\ UNCHANGED <<server, entries, docker, tries, msg, rpc, todo, script, incidents, history>>

\* The goroutine of handleStopSignals, started before Run, calls Notify.
Notify(s) ==
  /\ proc[s] = "booting"
  /\ proc' = [proc EXCEPT ![s] = "up"]
  /\ UNCHANGED <<server, entries, docker, agents, todo, script, incidents, history>>

\* The process ends; a request it has written may still be in the socket.
End(s, how) ==
  LET own   == {Run(s), Stop(s)}
      quiet == {a \in own : rpc[a] # "sent"}
  IN  /\ proc'  = [proc EXCEPT ![s] = how]
      /\ pc'    = [a \in Agents |-> IF a \in own THEN "dead" ELSE pc[a]]
      /\ tries' = [a \in Agents |-> IF a \in own THEN 0 ELSE tries[a]]
      /\ msg'   = [a \in Agents |-> IF a \in quiet THEN NoRequest ELSE msg[a]]
      /\ rpc'   = [a \in Agents |-> IF a \in quiet THEN "none" ELSE rpc[a]]

\* Docker's SIGINT or SIGTERM; before Notify it kills the process.
Signal(s) ==
  /\ Running(s) /\ ~Stopping(s)
  /\ acked' = acked \ {s}
  /\ raced' = raced \cup {a \in AgentsOf(s) : Pending(a)}
  /\ IF proc[s] = "up"
     THEN pc' = [pc EXCEPT ![Stop(s)] = "lookup"] /\ UNCHANGED <<proc, tries, msg, rpc>>
     ELSE End(s, "killed")
  /\ UNCHANGED <<server, entries, docker, todo, script, incidents, misread>>

\* Mutant of CloseReturned: Close does not wait for the server's answer.
CloseSends(s) == pc[Stop(s)] \in {"wait", "exit0", "exit1"}

CloseReturned(s) == pc[Stop(s)] \in {"exit0", "exit1"}

\* os.Exit(0) after Close, or log.Fatalf's os.Exit(1) in it.
Exit(s) ==
  /\ Running(s) /\ CloseReturned(s)
  /\ End(s, IF pc[Stop(s)] = "exit1" THEN "exit1" ELSE "exit0")
  /\ UNCHANGED <<server, entries, docker, todo, script, incidents, history>>

Kill(s) ==
  /\ Running(s)
  /\ End(s, "killed")
  /\ acked' = acked \ {s}
  /\ raced' = raced \cup {a \in AgentsOf(s) : Pending(a)}
  /\ Incident
  /\ UNCHANGED <<server, entries, docker, todo, script, misread>>

List(s) ==
  /\ Running(s) /\ docker[s] = "unlisted"
  /\ docker' = [docker EXCEPT ![s] = "listed"]
  /\ UNCHANGED <<server, entries, proc, agents, todo, script, incidents, history>>

\* The ports of a container go from the listing at some time in its stop.
Unlist(s) ==
  /\ docker[s] # "gone" /\ proc[s] # "none"
  /\ Stopping(s) \/ ~Running(s)
  /\ docker' = [docker EXCEPT ![s] = "gone"]
  /\ UNCHANGED <<server, entries, proc, agents, todo, script, incidents, history>>

(***************************************************************************)
(* The server and the resync script (ExecStartPost and ExecReload).        *)
(***************************************************************************)
\* Mutant of ResyncOnStart: the unit has no ExecStartPost.
ResyncNever == NoScript

ResyncOnStart == [unit |-> "post", due |-> TRUE, failed |-> FALSE]

\* systemd waits for a script that runs before it starts the server again.
ServerStart ==
  /\ server = "down" /\ script.unit = "none"
  /\ server' = "starting" /\ script' = ResyncOnStart
  /\ UNCHANGED <<entries, proc, docker, agents, todo, incidents, history>>

ServerListen ==
  /\ server = "starting"
  /\ server' = "up"
  /\ UNCHANGED <<entries, proc, docker, agents, todo, script, incidents, history>>

\* The registrations are in memory only, and the calls under way fail.
ServerEnds ==
  /\ server' = "down" /\ entries' = << >>
  /\ rpc' = [a \in Agents |-> IF rpc[a] = "none" THEN "none"
                              ELSE IF Alive(a) THEN "error" ELSE "none"]
  /\ msg' = [a \in Agents |-> IF Alive(a) THEN msg[a] ELSE NoRequest]
  /\ acked' = {}
  /\ UNCHANGED <<proc, docker, pc, tries, todo, raced, misread>>

\* It crashes, or is stopped; a script that runs goes on (KillMode=process).
ServerStop ==
  /\ server # "down" /\ Incident
  /\ ServerEnds /\ UNCHANGED script

AskResync ==
  /\ server # "down" /\ script.unit = "none" /\ Incident
  /\ script' = [unit |-> "reload", due |-> TRUE, failed |-> FALSE]
  /\ UNCHANGED <<server, entries, proc, docker, agents, todo, history>>

ProcessTable == {s \in Shims : Running(s)} \cup UdpShims

\* The script reads the process table once.
Snapshot ==
  /\ script.due
  /\ script' = [script EXCEPT !.due = FALSE] /\ todo' = ProcessTable
  /\ raced' = raced \cup {Reload(s) : s \in {t \in Shims : Stopping(t)}}
  /\ UNCHANGED <<server, entries, proc, docker, agents, incidents, acked, misread>>

\* The next line of the script, which waits for the line before it.
ReloadLine(s) ==
  /\ s \in todo /\ ~Reloading
  /\ todo' = todo \ {s}
  /\ pc' = [pc EXCEPT ![Reload(s)] = "lookup"]
  /\ UNCHANGED <<server, entries, proc, docker, tries, msg, rpc, script, incidents, history>>

\* The line of a UDP shim: NewEnvoyProxy panics, and the script goes on.
ReloadPanics(u) ==
  /\ u \in todo /\ ~Reloading
  /\ todo' = todo \ {u} /\ script' = [script EXCEPT !.failed = TRUE]
  /\ UNCHANGED <<server, entries, proc, docker, agents, incidents, history>>

AtItsEnd   == script.unit # "none" /\ ~script.due /\ todo = {} /\ ~Reloading
PostFailed == script.unit = "post" /\ script.failed

\* A failed ExecReload is only logged.
ScriptEnds ==
  /\ AtItsEnd /\ ~PostFailed
  /\ script' = NoScript
  /\ UNCHANGED <<server, entries, proc, docker, agents, todo, incidents, history>>

\* The script's status is that of its last line, and a failed ExecStartPost
\* makes systemd stop the server, if it still runs, and start it again.
PostFails ==
  /\ AtItsEnd /\ PostFailed
  /\ script' = NoScript
  /\ ServerEnds /\ UNCHANGED incidents

-----------------------------------------------------------------------------
Step(a) == Lookup(a) \/ LookupFails(a) \/ Call(a) \/ CallFails(a)

Life(s) == Notify(s) \/ Exit(s) \/ List(s)

Script == \/ Snapshot
          \/ \E s \in Shims : ReloadLine(s)
          \/ \E u \in UdpShims : ReloadPanics(u)
          \/ ScriptEnds \/ PostFails

Next ==
  \/ \E a \in Agents : Step(a) \/ Register(a) \/ Drop(a)
  \/ \E s \in Shims : Life(s) \/ Start(s) \/ Signal(s) \/ Kill(s) \/ Unlist(s)
  \/ ServerStart \/ ServerListen \/ ServerStop \/ AskResync
  \/ Script

Spec == Init /\ [][Next]_vars

(***************************************************************************)
(* An agent that can go on does; the network delivers; Docker lists a      *)
(* container that it has started; systemd keeps the server running and     *)
(* runs the script's lines.  Nobody has to stop a shim.                    *)
(***************************************************************************)
Fairness ==
  /\ \A a \in Agents : WF_vars(Step(a)) /\ WF_vars(Register(a))
  /\ \A s \in Shims : WF_vars(Notify(s)) /\ WF_vars(Exit(s)) /\ WF_vars(List(s))
  /\ WF_vars(ServerStart) /\ WF_vars(ServerListen) /\ WF_vars(Script)

FairSpec == Spec /\ Fairness

-----------------------------------------------------------------------------
TypeOK ==
  /\ server \in {"down", "starting", "up"}
  /\ DOMAIN entries \subseteq Names /\ entries \in [DOMAIN entries -> Entry]
  /\ proc \in [Shims -> {"none", "booting", "up", "exit0", "exit1", "killed"}]
  /\ docker \in [Shims -> {"unlisted", "listed", "gone"}]
  /\ pc \in [Agents -> {"off", "lookup", "call", "wait", "parked",
                        "exit0", "exit1", "dead"}]
  /\ tries \in [Agents -> 0 .. Tries - 1]
  /\ msg \in [Agents -> RegistrarRequest \cup {NoRequest}]
  /\ rpc \in [Agents -> {"none", "sent", "error"}]
  /\ todo \subseteq Shims \cup UdpShims /\ script \in ScriptState /\ incidents \in 0 .. MaxIncidents
  /\ acked \subseteq Shims /\ raced \subseteq Agents /\ misread \subseteq Shims

EntriesOf(s) == {n \in DOMAIN entries : entries[n].BackendAddr = Backend[s]}

\* What a shim's registrations can say: its lookups that found another
\* container gave it that one's labels.
EntriesFor(s) ==
  {RequestToEntry(RequestWithSettings(s, c, "REGISTER")) :
     c \in IF s \in misread THEN Containers ELSE {s}}

NamesOf(s) == {SvcName(e) : e \in EntriesFor(s)}

\* A shim that may use the other's name: on another address at any time, on
\* the same address when it was stopped or killed with a request to come.
Rival(s, t) ==
  /\ t # s /\ NamesOf(s) \cap NamesOf(t) # {}
  /\ SameFrontend(s, t) => Raced(t)

NameIsOwn(s) == \A t \in Shims : ~Rival(s, t)

(***************************************************************************)
(* Once the running server has taken a shim's REGISTER, the shim's entry   *)
(* stays until the shim itself is stopped, if its name is its own: nothing *)
(* that happens to the shim before it on its address, which used the same  *)
(* name and was stopped at rest, no resync, retry or lost answer, and no   *)
(* shim of another name takes it away.  A rival may: the late DEREGISTER   *)
(* of a predecessor that was killed in Close deletes by name.              *)
(***************************************************************************)
RegistrationLasts == \A s \in acked : NameIsOwn(s) => EntriesOf(s) # {}

(***************************************************************************)
(* A shim whose Close came back, and that exited with status 0, leaves no  *)
(* entry that Envoy would send traffic to, provided that its lookups found *)
(* its own container and that no REGISTER was under way when it stopped.   *)
(***************************************************************************)
CleanShutdown ==
  \A s \in Shims : proc[s] = "exit0" /\ s \notin misread /\ ~Raced(s) => EntriesOf(s) = {}

\* What a shim may leave behind: its lookup found another container, it was
\* stopped in the middle of a request, it was killed or its Close was fatal.
LeftBehind(s) == s \in misread \/ Raced(s) \/ proc[s] \in {"exit1", "killed"}

(***************************************************************************)
(* The listenersHandler makes a listener of each entry, on its frontend's  *)
(* address.  There are two on one address, such as those of a container    *)
(* and of its next release under another name, only when one of them was   *)
(* left behind: a stop and a start that went well never overlap in Envoy.  *)
(***************************************************************************)
OneListenerPerAddress ==
  \A m, n \in DOMAIN entries : m # n /\ entries[m].FrontendAddr = entries[n].FrontendAddr =>
    \E s \in Shims : {m, n} \cap EntriesOf(s) # {} /\ LeftBehind(s)

(***************************************************************************)
(* The inductive invariant.  Places says which states of agents and        *)
(* processes go together; Requests, that an agent's request names its shim *)
(* and, unless misread, has its own container's labels; Keyed, whose the   *)
(* entries are, where they are and what they hold; Quiet, that a shim      *)
(* stopped at rest stays quiet.                                            *)
(***************************************************************************)
Dead(s) == proc[s] \in {"exit0", "exit1", "killed"}

Places ==
  /\ \A s \in Shims :
       /\ pc[Run(s)] \in {"off", "lookup", "call", "wait", "parked", "dead"}
       /\ pc[Stop(s)] \in {"off", "lookup", "call", "wait", "exit0", "exit1", "dead"}
       /\ pc[Reload(s)] \in {"off", "lookup", "call", "wait"}
       /\ proc[s] = "none" => s \notin todo /\ \A a \in AgentsOf(s) : pc[a] = "off"
       /\ Running(s) => pc[Run(s)] # "off" /\ pc[Run(s)] # "dead" /\ pc[Stop(s)] # "dead"
       /\ Dead(s) <=> pc[Run(s)] = "dead"
       /\ Dead(s) <=> pc[Stop(s)] = "dead"
  /\ \A a \in Agents :
       /\ rpc[a] # "none" => pc[a] \in {"wait", "dead"}
       /\ pc[a] = "wait" => rpc[a] # "none"
       /\ rpc[a] = "sent" => server = "up"
       /\ pc[a] \in {"call", "wait"} \/ rpc[a] # "none" <=> msg[a] # NoRequest

Requests ==
  \A a \in Agents : msg[a] # NoRequest =>
    \E c \in Containers :
      /\ msg[a] = RequestWithSettings(ShimOf(a), c, ActionOf(a))
      /\ ShimOf(a) \in misread \/ c = ShimOf(a)

Keyed ==
  /\ \A n \in DOMAIN entries : SvcName(entries[n]) = n
  /\ \A s \in Shims : \A n \in EntriesOf(s) : entries[n] \in EntriesFor(s)
  /\ \A n \in DOMAIN entries : \E s \in Shims :
       proc[s] # "none" /\ n \in EntriesOf(s) /\ entries[n].FrontendAddr = Frontend[s]

Quiet ==
  \A s \in Shims : ~Raced(s) =>
    /\ Stopping(s) \/ Dead(s) => ~Pending(Run(s)) /\ ~Pending(Reload(s))
    /\ Dead(s) => rpc[Stop(s)] # "sent"

Exclusive ==
  \A s, t \in Shims : s # t /\ SameFrontend(s, t) => ~Running(s) \/ ~Running(t)

Cleared ==
  \A s \in Shims \ misread :
    ~Raced(s) /\ (pc[Stop(s)] = "exit0" \/ proc[s] = "exit0") => EntriesOf(s) = {}

AckedRun == \A s \in acked : Running(s) /\ ~Stopping(s)

IInv == /\ TypeOK /\ Places /\ Requests /\ Keyed /\ Quiet /\ Exclusive
        /\ Cleared /\ AckedRun /\ RegistrationLasts

(***************************************************************************)
(* A shim that Docker stops ends, whatever goes wrong with Docker's        *)
(* listing, and whether the server is down, starting, or answers: Docker   *)
(* waits for its userland proxies.  (A server that accepts the request and *)
(* never answers would hold it: Register has no deadline.)                 *)
(***************************************************************************)
StopTerminates == \A s \in Shims : Stopping(s) ~> ~Running(s)

(***************************************************************************)
(* However often the server was restarted and lost its map, the shims that *)
(* stay up are registered again in the end, by themselves or by resync:    *)
(* always, if there are no UDP shims, whose lines can make the script fail *)
(* for ever, and else if the server stays at last.                         *)
(***************************************************************************)
Restored ==
  \A s \in Shims :
    <>[](Running(s) /\ ~Stopping(s)) /\ (UdpShims = {} \/ <>[](server # "down")) =>
      <>[](NameIsOwn(s) => EntriesOf(s) # {})

(***************************************************************************)
(* What the README says of the resync script: it restores the state of a   *)
(* registrar that was restarted while containers are running.  Then it     *)
(* would do so on a host with UDP ports, too.                              *)
(***************************************************************************)
ResyncRestores ==
  \A s \in Shims : <>[](Running(s) /\ ~Stopping(s)) => <>[](EntriesOf(s) # {})

(***************************************************************************)
(* What the resync script says of itself: a shim is not disturbed by it    *)
(* and still deregisters on shutdown (scripts/resync, its opening comment).*)
(* Stopped when its own Run was over, it would leave no entry.             *)
(***************************************************************************)
ResyncDoesNotDisturb ==
  \A s \in Shims : proc[s] = "exit0" /\ s \notin misread /\ Run(s) \notin raced =>
    EntriesOf(s) = {}

(***************************************************************************)
(* What the Proxy interface says of Close: it stops forwarding traffic.    *)
(* Where no resync touched it, a shim whose Close came back would leave no *)
(* entry.                                                                  *)
(***************************************************************************)
CloseStopsForwarding ==
  \A s \in Shims : proc[s] = "exit0" /\ s \notin misread /\ Reload(s) \notin raced =>
    EntriesOf(s) = {}
=============================================================================
