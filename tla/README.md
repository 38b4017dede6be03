# Verification of envoy-docker-shim

Docker starts one "userland proxy" process for every port a container
publishes. envoy-docker-shim takes the place of that process: for a TCP port it
tells a server on the host which frontend address maps to which backend, and
Envoy, which polls that server, does the proxying. This directory holds TLA+
modules for the parts of that system, TLC configurations that check them on
small instances, and TLAPS proofs of what matters most for every instance.

Run everything from this directory: `tlc -config MCRegistrar.cfg MCRegistrar`,
`tlapm RegistrarProofs.tla`, and so on. `PROJECT.json` lists components, runs,
mutants, the source lines of every definition, findings, hazards and theorems.

## 1. The system

| component | state | operations | modelled in |
|---|---|---|---|
| Registrar (`internal/envoyhttp/registrar.go`) | the map from service names to entries; a `sync.RWMutex` | `Register` (gRPC), `GetEntry`, `EachEntry`, `RequestToEntry`, `SvcName` | `SvcNames`, `Registrar`, `RegistryMap` |
| TCP shim (`cmd/envoy-docker-shim`: `main.go`, `envoy_proxy.go`, `docker.go`, `proxy.go`) | one process for each port: main's goroutine in `Run`, the signal goroutine in `Close` | register with retries, park, deregister with retries, exit | `ShimLifecycle` |
| resync (`scripts/resync`, `examples/envoy-docker-server.service`) | the process table it has read, the line it is at, how its last line so far ended | starts a `-reload` process for each running shim, after a server start and on request; as `ExecStartPost` it takes the server down when it fails | `ShimLifecycle`; its outcome in `ServerLifecycle` |
| Server process (`cmd/envoy-docker-server/main.go`, and the systemd unit) | three goroutines, the file of the Unix socket, the API's port | start, listen, serve, fail, stop, restart | `ServerLifecycle`; `ShimLifecycle` has it as down, starting or up |
| Envoy API (`internal/envoyhttp/envoy_api.go`) | none of its own: reads the registrar | LDS, CDS and SDS answers | `EnvoyXds` (what they mean), `ApiAnswers` (every field, routes, errors) |
| JSON codec (`envoy_api_objects.go`, `envoy_api_objects_ffjson.go`) | a buffer; the state of a decoder call | `MarshalJSON` and `UnmarshalJSON` of fourteen structs | `ApiAnswers`, `FFJson`, `ApiJson` |
| UDP proxy (`cmd/envoy-docker-shim/udp_proxy.go`) | connection table, its lock, one reply loop for each client | `Run`, `replyLoop`, `Close` | `UDPProxy` |
| Docker (external) | the containers, their ports and labels, as a listing shows them | list, unlist | in `ShimLifecycle` |
| Envoy (external) | what it was last told | polls LDS, CDS, SDS | in `EnvoyXds` |

How they interact. A shim calls `Register` over gRPC on a Unix socket, on a new
connection for every try; before each try it asks Docker for its container's
labels. Envoy calls the HTTP API, whose handlers read the registrar through
`GetEntry` and `EachEntry`. systemd runs resync when it has started the server
and when it is asked to reload it; the script's status is that of its last line,
and when the first kind of run fails, systemd stops the server and starts it
again. Docker signals a shim when it stops the
container, and waits for it.

What is hard. The registrar is shared by one goroutine for each call. A shim has
two goroutines that talk to the server on different connections, and resync adds
a third process that speaks for the same port; nothing orders their requests.
The server handles a request even if its sender has gone. Labels are looked up
again for every request, by port number alone. Names are put together from
labels, so two containers can share one. The server's memory is lost when it
stops. Everything is retried, a bounded number of times. Envoy puts together
answers of different ages. The server has two listeners and a signal handler in
three goroutines, any of which ends the process, and a file that outlives it. An
answer can break off in the middle. The UDP proxy's table is shared by `Run`, by a reply
loop for each client that ends when its deadline passes, and by `Close`.
`PROJECT.json` lists these hazards line by line.

What makes each part correct. The registrar: it is one atomic map for its
callers, its keys are the names that Envoy will ask for, and nobody waits for
ever. The shims: a registration lasts as long as its shim, if no rival has its
name; a stop leaves no entry and comes to an end, so that a release under another name does not share its
address with the one before it; after a restart of a server that stays everything
is registered again. The API: listener, cluster and host fit together, and Envoy's view
converges to the map and never crosses ports on the way; what a client reads out
of the JSON is what the handler built. The server: it comes up whole or not at
all, once nothing is in its way, and a stop leaves nothing in the way of the next start. All together: a
container that runs is reached through Envoy, and one that was stopped is not.
The UDP proxy: an entry leads to an open socket, no socket is lost, replies reach those who asked, and
Close releases everything.

## 2. Modules

`SvcNames` has the data: requests as they come over the wire, `RequestToEntry`,
`SvcName`, and what a request does to the map (`Updated`). A string is the
sequence of its parts around dashes, since what `SvcName` can confuse is where
a dash came from; a part is never split further, and two parts never stand side
by side without a dash (in `api_json` a slash is a part of its own as well).

`RegistryMap` is the abstract registrar: one map, every call takes effect at one
instant between invocation and return, and a listing is the map at that instant.

`Registrar` is the registrar as written: for each goroutine a place (`pc`), the
lock as the two words that matter (`writer`, from the moment a goroutine has
the writers' mutex; `readers`), a step for every lock operation, for the update,
the lookup, and each round of `EachEntry`'s loop. The lock follows Go 1.10: a
writer that has entered `Lock` keeps new readers out, and `Unlock` admits the
readers that wait. Its refinement of `RegistryMap` is the property
`Linearizable`: a call takes effect at `Update`, `GetEntry`, `EachEntryEnd` or
`RejectUnknown`.

`ShimLifecycle` composes the shims, Docker, the server and resync, over the
atomic map (which `Registrar` is proved to implement). Each shim has three
agents: `run` (the goroutine in `Run`), `stop` (the one in `Close`), and
`reload` (resync's process). An agent is at `lookup` (Docker), `call` (dial and
send), `wait` (for the answer), or at its end: `parked`, `exit0`, `exit1`, or
`off` for a reload. The correspondence:

| action | code |
|---|---|
| `Start`, `Notify`, `Signal`, `Exit` | `main.go` 57-86, 46-48, 50, 52 |
| `Lookup`, `LookupFails` | `DoAction` 77-80 with `docker.go` |
| `Call` | `WithClient` and the client half of `Register` |
| `Register` | the handler in `registrar.go`, with its answer |
| `CallFails`, `Retry`, `Finish` | `withRetries`, and what `Run` and `Close` do after it |
| `End` | the end of a process; a request it has written stays on its way |
| `Drop` | such a request is lost |
| `List`, `Unlist`, `Kill` | Docker, and a SIGKILL |
| `ServerStart`, `ServerListen`, `ServerStop` | the server's process; its map is lost (`ServerEnds`) |
| `AskResync`, `Snapshot`, `ReloadLine`, `ReloadPanics` | `ExecStartPost`/`ExecReload`, the `ps`, one round of the loop, and one for the line of a UDP shim, whose `-reload` process panics in `NewEnvoyProxy` |
| `LineEnds`, `ScriptEnds`, `PostFails` | the status of a `-reload` process (a `Run` that gives up panics); the end of the script, whose status is its last line's; an `ExecStartPost` that failed, for which systemd stops the server |

`script` says what systemd runs the script for (`unit`), whether it has yet to read
the process table (`due`), and how its last line so far ended (`failed`); `todo`
has the lines still to come, in any order: which of them is last is up to the host.

A name is a shim's own (`NameIsOwn`) if it has no rival: no shim that may use the
same name and is on another address, or was stopped or killed on the same address
with a request still to come. The requests of such a rival do take an entry away,
since a DEREGISTER deletes by name; those of every other shim do not.

Three history variables state what the properties compare with: `acked` (the
running server has taken a shim's REGISTER), `raced` (agents that still had a
request to make or on its way when their shim was stopped) and `misread` (shims
that once found another container's labels).

`EnvoyXds` has the HTTP API and an Envoy that polls it. `EnvoyServiceFromEntry`,
`EnvoyListenerFromEntry` and the two `...FromRegistrar` operators are the functions
of `envoy_api.go`; `listenersHandler`, `clustersHandler` and
`registrationHandler` answer from the map at one instant (which `RegistryMap`
promises); `ApplyListeners`, `ApplyClusters` and `ApplyHosts` are Envoy, of which
the module has only what it was last told; `Lose` is a poll that fails. `Register`
and `Restart` change the map. The history `served` has what was registered so far.

`ApiAnswers` has the answers in full: the objects that the handlers build, field
by field, the routes of `HttpMux`, the 404s, and the generated encoder of each
struct, which makes a sequence of tokens. Optional fields, their commas and the
`Rewind` that takes the last one back, nil against empty, and the early return
at a nil element are as in the code. The texts of strings stay whole.

`FFJson` is the generated decoder. Its fourteen functions of a few hundred lines
differ only in their keys and in the handlers behind them; the keys and kinds
are the tables `EnvoyClusterFields`, `EnvoyListenerFields` and so on, and the
functions are one state machine over tokens: `stack` has the calls under way,
and an action is one token in the innermost call (`MapStart`, `WantKey`,
`WantColon`, `AfterValue` and `Done` are `mainparse`; `handle_string`,
`handle_int`, `handle_ptr`, `handle_slice` and `handle_map` the handlers, with
the rounds of their loops as actions of their own; `WrongToken` all the errors).
No program of the repository calls the decoder: Envoy has its own. It is what a
Go client of the API would use, and the reader against which the encoder is
checked.

`ApiJson` puts them together: an answer for any map of the registered entries is
encoded and decoded, whole, broken off at any token (`Break`), or as another
version of the server might write it (keys in another case, unknown members,
tags).

`ServerLifecycle` is `cmd/envoy-docker-server`: `main` (`GoStopSignals`,
`GoServeHttp`, `Listen`, `ListenFails`, `ServeFails`), `sig`
(`handleStopSignals`: `Notify`, `Receive`, `Remove`, `Exit`) and `http`
(`serveHttp`: `ListenAndServe`, `PortIsTaken`, `HttpServeFails`) are the places
of the goroutines; `End` is every end of the process, which takes all three and
leaves the file; `UnitStart`, `UnitStop`, `UnitRestart` and `CancelRestart` are
systemd. `Fork` is `ExecStart` with the script of `ExecStartPost` behind it
(`post`); `last`, which the host's containers change at any time, is how the
script's last line would end, and `PostSucceeds` and `PostFails` end the script.
When it fails, systemd stops the process (`Terminate`), if it has not ended by
itself, and starts it again; a process that ends while its script runs leaves the
unit `posting` until the script has ended, too. `addr` is the form of `SHIM_LISTEN_ADDR`: without `unix:` the file is
never removed. `ServerStart` and `ServerListen` of `ShimLifecycle` are the case
in which no file is in the way.

`Reachability` composes `ShimLifecycle` and an instance of `EnvoyXds` over one
map: a step is one of the shims' side (`HostStep`), a poll that a running server
answers, or a step of Envoy. The API answers as soon as the process runs,
before `serveGRPC` listens, as in `main`.

`UDPProxy` has `udp_proxy.go`: `ReadFromUDP`, `Found`, `Dial`, `DialFails`, `Write`
and `ReadError` are `Run`; `ReadReply`, `ReadEnds`, `SendReply`, `Untrack` and
`CloseConn` are one `replyLoop`; `CloseListener`, `CloseLock`, `Sweep` and
`CloseReturns` are `Close`. What `Run` and a loop do under `connTrackLock` is one
step, since nothing they touch there is touched outside it; the sweep of `Close`
is a step for each connection, since loops see their connections closed one by
one. `Write` is outside the lock, so that a loop can close the connection first.
The module is the type by itself: in the program `os.Exit` follows `Close`.

The modules that begin with `MC` give constants their values for TLC
(`ServerLifecycle` needs none). `SvcNamesProofs`, `RegistrarProofs`,
`ShimProofs`, `EnvoyXdsProofs`, `ApiJsonProofs`, `UDPProxyProofs`,
`ServerProofs` and `ReachabilityProofs` hold the theorems.
Definitions that follow "Mutant of" are slips of the code that a property must
notice (a dropped guard, a wrong order, a key without the port); `PROJECT.json`
pairs each with its property.

## 3. Runs

| run | question | size |
|---|---|---|
| `registrar` | `MCRegistrar.cfg`: does the lock exclude, is every listing one state of the map, are keys names, are ports isolated, is the registrar the atomic map, does every call return? | 3 goroutines, 5 requests, 1 lookup; 87 thousand states |
| `shim_redeploy` | `MCShimRedeploy.cfg`: does a stopped shim leave no entry, does the entry of its successor on the same address stay, and is Envoy given one listener for the address? | 2 shims, 1 try, 1 incident; 2.3 million |
| `shim_restored` | `MCShimRestored.cfg`: does a stopped shim end, whichever try the server or Docker fails in, and is a shim that stays up registered again? | 1 shim, 1 bystander on its port number and a UDP shim, 2 tries, 2 incidents; 268 thousand |
| `reachability` | `MCReachability.cfg`: does a container that runs come to be reached, and is a stopped one withdrawn? | 1 shim, 1 try, 1 incident, 1 answer on its way; 136 thousand |
| `xds` | `MCEnvoyXds.cfg`: do the three answers fit together, does no mixture of old and new ones cross ports, and does Envoy's view converge? | 3 endpoints with 2 names; 249 thousand |
| `api_json` | `MCApiJson.cfg`: does a client read what the handler built, never half of it, and does its decoder come to an end? | every map of 4 entries of which 2 share a name, every order of listing; 132 thousand |
| `server` | `MCServer.cfg`: is a stop clean, does it end, is a serving server found, does the unit come up with both halves once the script does not fail any more? | 2 faults; 7568 |
| `udp_proxy` | `MCUDPProxy.cfg`: all properties of the UDP proxy | 3 senders, 2 connections; 74 thousand |
| `shim_resync_race` | `MCShimResync.cfg`: violated, see findings | |
| `shim_close_race` | `MCShimClose.cfg`: violated, see findings | |
| `server_restart` | `MCServerRestart.cfg`: violated, see findings | |
| `shim_udp_resync` | `MCShimUdp.cfg`: violated, see findings | |

Bounds, and why they are enough. Three goroutines are a writer that waits, a
reader that is in and a reader that comes meanwhile. The registrar's requests
have two endpoints whose different labels make one name, an address that does
not parse, and an unknown action. Two shims are a container
and its successor; a third shim would only repeat a pair, and two neighbours on
different ports, whose names never meet, are left to the proofs. The two have
different labels, so that their entries can stand side by side; as both may be in
Docker's listing, a lookup of either may find the other's labels, and then they
contend for one name as well. `Tries` is 4 in
the code and 1 or 2 here: what matters is a last try and one that is not the
last. `MaxIncidents` bounds the things that go wrong in a run: stops of the
server, requests for a resync, killed shims and timeouts of Docker. `shim_redeploy` has `ShortOutages` (see
section 4), which keeps its size down: with one try, a first lookup or call of a
registration then only fails when no listing or server is to come. A stop's tries
are never so restricted. A failure of the script is not an incident:
`shim_restored` has it whenever the UDP line, or one that gave up, comes last. In
`reachability` the shim's side is as small as it can be with a restart in it,
since `shim_redeploy` and `shim_restored` have the larger ones, and `MaxAnswers`
lets one answer be on its way at a time: `xds` has all mixtures of answers.
For the API two entries under one name and a third on another port with the same
labels are what answers can confuse. The four entries of `api_json` are an HTTP
service and a TCP service that takes its place under the same name, one without
labels or a frontend address, so that each optional field that a handler sets is
once empty and once not, and one whose label has a slash: three at most are listed
at once, a first, a last and one between. `MaxFaults`
is 2 for the server: a fault, and one while it recovers. For the UDP proxy two connections are one
that ends while its client's next one begins; a third client that finds no
connection left is a dial that fails. The proofs are without these bounds. Two shims never
have the same backend (`BackendAssumption`), which is how the properties tell
whose an entry is. Deadlock is not checked for the shims, the composition and the UDP proxy: a host on
which every shim has stopped and every incident happened, and a proxy that was
closed, are at rest.

Findings. The first two are races that a REGISTER wins against the DEREGISTER of a shim
that is being stopped, so Envoy keeps sending traffic to a container that has
gone, and no later resync repairs it, because resync only adds.

1. `shim_resync_race`: resync reads the process table, the shim is signalled,
   deregisters and exits, and resync's `-reload` process then registers it. The
   script's comment says the opposite (`scripts/resync` 7-8).
2. `shim_close_race`: the shim is signalled while its own `Run` has a REGISTER
   under way; the server handles it after the DEREGISTER of `Close`
   (`envoy_proxy.go` 143; `proxy.go` 20 says that Close stops forwarding).
3. `server_restart`: only `handleStopSignals` removes the socket file. After a
   crash, or after `serveHttp` has ended the process, the file stays, `net.Listen`
   fails (`main.go` 58), and so does every restart by systemd, for which the unit
   has `Restart=on-failure`, until somebody removes the file. `ComesUp` shows
   what else it takes: the API's port is free, and the last line of the resync
   script does not fail.
4. `shim_udp_resync`: the script works through the lines of UDP shims as well,
   whose `-reload` processes panic (`main.go` 64, `envoy_proxy.go` 35). With such
   a line last in the process table the script fails (`scripts/resync` 15 is its
   last command), and with it `ExecStartPost` (line 7 of the unit): systemd stops
   the server and starts it again, and each round loses the map that the script
   has just restored. `README.md` 20-21 of the repository promises a script that
   restores the state, and 24 that the tool handles UDP, too. A `-reload` of a
   TCP shim that gives up does the same, but not for ever: its container is
   listed, or gone from the process table, the next time.

## 4. Fairness

`Registrar`: a goroutine that can run does (`WF` of its steps), and `LockBegin`
has strong fairness, since Go's `sync.Mutex`, which writers queue on, hands over
to a waiter that has starved (since Go 1.9). Nobody has to call.

`ShimLifecycle`: an agent that can go on does; the network delivers; Docker lists
a container that it has started; systemd starts a server that is down
(`Restart=on-failure`) and runs the script's lines to their end. Nobody has to
stop a shim, and no incident has to happen. `Restored` also needs `ShortOutages`: the delay between a
server's start and its listening, and between a container's start and its being
listed, never outlasts the retries (about three seconds). Without it the code
does not promise registration: `Run` parks and only the next resync helps. Where
there are UDP shims, `Restored` supposes that the server stays in the end, since
the script can take it down again and again. The tries of a stop are outside
`ShortOutages`, so `StopTerminates` needs no such assumption; both need a server
that answers or ends (a server that hangs is left out, section 6).

`EnvoyXds`: Envoy keeps polling, and not every poll of a kind fails (strong
fairness of the three `Apply` actions and of the SDS request, which only exists
while its cluster does). `UDPProxy`: goroutines go on, and a read that gets
nothing times out. `Reachability` has the fairness of both its parts; polls have
strong fairness, since one that `MaxAnswers` holds back comes again.
`ServerLifecycle`: a goroutine that can go on does, and systemd restarts what has
failed, without a limit on its rate, which is in the code's favour: `ComesUp` has
the unit come up after any number of failing scripts, where the limit would leave
it failed. The script comes to an end. Nobody has to
start or stop the unit, to free the port or to remove a file, and no fault has to
happen. The assumption about reads of the UDP proxy is too much in one corner: a backend that sends
empty datagrams for ever puts the deadline off without anything being written.

## 5. Proofs

Assumptions are the named ASSUMEs of `SvcNames`, `Registrar`, `ShimLifecycle`,
`ServerLifecycle` and `ApiJson` (types of constants; two shims never share a
backend; the entries are finitely many, and nil is none of them and nothing that
the handlers build of one); TLC evaluates them in every run.

- `SvcNameDeterminesPort`: whatever the labels, names of entries on different
  ports differ, because `SvcName` ends in the port.
- `RegistrarProofs`: the inductive invariant is `IInv`. `LockState` ties the lock
  to the goroutines' places, from which `RWExclusion` follows; while a goroutine
  is in the loop nobody is in `Update`, so `ListingIsCurrent` is kept;
  `OpAtPlace` says that only requests with a known action reach the update, so
  that `KeyedByName` is kept. `PortIsolation` follows from the invariant and
  `SvcNameDeterminesPort`. `RegistrarIsLinearizable` shows that each step is a
  step of the atomic map or a stutter: at `EachEntryEnd` everything has been
  visited and, by `ListingIsCurrent`, what was visited is the map.
- `ShimProofs`: the inductive invariant adds to the properties `Places` (states
  that go together), `Requests` (what an agent sends names its shim and, unless
  misread, has its own labels), `Keyed` (a shim's entries are among those that it
  may ask for, `EntriesFor`, so under one of its names, `NamesOf`, which is one
  unless it was misread; and they are of a shim that was started), `Quiet` (a shim stopped at rest makes no more requests), `Exclusive`
  and `Cleared` (from the answer to its DEREGISTER on, such a shim has no entry).
  Each action has its lemma; `RegisterStep` is the one where requests of two
  shims meet: another shim's request takes this one's entry away only if it is of
  the same name, and such a shim is a rival, unless it was stopped at rest on the
  same address, after which it is `Quiet`. What a misread shim may ask for only
  grows, so a name that is a shim's own now was so before (`OwnBefore`).
  A failing script is one more way for the server to end (`ServerEndsStep`).
  `ShutdownIsClean` and `RegistrationsLast` follow, and
  `ListenersDoNotCollide`: of two entries on an address each is of a shim that was
  started there; if it is one shim, it has one name (`Keyed`); of two shims one
  has stopped (`Exclusive`), and then it left nothing (`Cleared`).
- `EnvoyXdsProofs`: the invariant says that the last part of a name is the port of
  every listener that routes to it and of every host told under it, in Envoy and
  on the way (`ListenersFit`, `HostsFit`). `TrafficStaysOnPort` follows at once,
  although Envoy's answers may be of any age; `RoutesAlwaysResolve` needs
  `KeyedByName` alone.
- `UDPProxyProofs`: the invariant's core is `Tracked`: the table has exactly the
  connections whose loops have not given up, each under its client's key. That is
  why a loop's `delete` by key cannot hit another connection (`EntriesAreOwned`),
  and, with delete before close, why a hit is usable. `Forwarding` carries the key
  over the time between the lookup and the write.
- `ServerProofs`: `Places` says which places of the goroutines go together, and
  `FileOwner` whose the file is. The heart of `ExitIsClean`: in a process that
  found no file, `Remove` can only succeed when main has listened, so main cannot
  make a file behind it.
- `ReachabilityProofs`: `HostImplementsXds`. A step of the shims' side that
  changes the map is a `Register` or a `Restart` of `EnvoyXds` (`MapChanges`,
  from the requests that `ShimProofs` shows agents to send), and every other step
  of it is a stutter; so what is proved of Envoy and its mixtures of answers holds
  of the host (`HostTrafficOnOwnPort`). The host's steps are steps of the shims'
  side or leave it alone, by the way `Reachability` is written (the lemma
  `HostImplementsShims`), so that `HostShutdownIsClean` follows.
  `HostTrafficIsPublished` needs both sides at once: by `ShimProofs` every entry
  names the backend of a shim that was started (`Keyed`), so does
  everything that was ever registered and may still be in an answer or in Envoy
  (`ServedStarted`), and a shim that was started once stays so (`StartedStays`);
  the port is that of the listener by `EnvoyXdsProofs`.
- `ApiJsonProofs`: for any entries, and for maps and slices of any size. The
  library's induction takes a predicate, so induction here is over a set of
  numbers (`InductionOnSet`, from the least element of what the set lacks).
  `ApiJsonTypes` says that the decoder's calls are nested as the structs are
  (`IsNest`), that each holds an object of its struct made of what was read so
  far, and that a value only ever comes back to a field that may hold it; a lemma
  for each group of actions. `ApiJsonDecoderEnds`: every action reads a token, or
  enters or leaves a loop without one, once. `ApiJsonCutIsRejected`: a cut body
  is a proper prefix of one that was whole, and the decoder ends without an error
  only at the last token of a whole one.
  `ApiJsonRoundTrip` goes in three parts. `Moves` says what one token does to the
  calls under way, and `Runs` what a text does; a text that concatenates others
  runs as they do. `Encodes` says of a struct's encoder that its text runs from a
  new call of the struct's decoder to one with the object in it, and is shown of
  every encoder from the innermost struct outwards, through the keys, the commas
  (`CommasRun`), the last comma that `Rewind` takes off (`CommasBehind`), optional
  fields and nil slices, up to the body (`AnswerEncodes`). The blanks go with the
  lexer (`LexedRuns`). And the decoder does at each token what `Moves` says and
  nothing else (`Follows`), so that `TripInv`, in which the rest of the text leads
  from the stack at hand to the object that was sent, is inductive.
  `ApiJsonOtherVersionsAreRead` has the same invariant: `BodiesGo` shows of each
  body that is not cut that it leads to the object that it says (`Meant`), and
  from there on it does not matter who wrote it. Keys in another case
  (`CasedGoes`) and a member more (`ExtraGoes`) are shown of any text that the
  decoder reads, not only of what the encoders write: the decoder takes the same
  steps at a key of either case, and behind the bracket of a struct it is where a
  key and a value may be skipped with everything else unchanged. Tags are put
  behind one bracket only, since only a host has any and only the answer to a
  request for hosts has one (`TagsAreRead`): the text before it and the text
  behind it run as they did, with two pairs read in between.
  `ApiJsonReadsEnvoyXds` and `ApiJsonListedIsAnswered` follow: the listeners,
  clusters and hosts that a client reads are those of `EnvoyXds` for the same
  map, and a name that was listed has its entry.

Only model-checked: everything under fairness (`EveryCallReturns`,
`StopTerminates`, `Restored`, `Published`, `Withdrawn`, `Converges`, `StopEnds`,
`ComesUp`, `RunKeepsReading`, `CloseReleases`), which the prover does not reach.

Only proved: `TrafficIsPublished`, which an instance with one shim and one port
could not refute; the theorem `HostTrafficIsPublished` has it for any number.

## 6. What the models leave out

- Time: the lengths of sleeps, `GRPCTimeout` (which has no effect on a dial that
  does not block) and `DockerTimeout` (a lookup may just fail).
- `PrintRequests`, logging, command line parsing, protobuf encoding, and below
  the tokens of JSON: escapes, decimals, white space, malformed tokens.
- `optionsHandler`, and the 500 of an encoder that fails, which cannot happen.
- An IPv6 frontend, whose address goes into `tcp://%s:%d` without brackets: an
  address here is one value.
- systemd's limit on the rate of restarts, which would end the loops of the third
  and of the fourth finding in a failed unit; in `ShimLifecycle` and
  `Reachability`, a unit that is stopped by hand while its script runs; the order in which a process's goroutines are stopped.
- A container that publishes several ports through shims: here it would be one
  shim and one container for each.
- A reused container address: see `BackendAssumption`.
- A server that hangs without ending: `Register` has no deadline (a hazard).
- The window in which a UDP shim that could not listen has a signal handler and
  no proxy: `os.Exit(1)` follows a few lines on.
- In `ShimLifecycle` and `Reachability`, a server that cannot listen because of a
  stale file: that is `ServerLifecycle`.
- Of Envoy, everything but what it was last told: how it treats two listeners on
  one address (which, by `OneListenerPerAddress`, it is only offered after a
  failure or a misread listing), its own timeouts, and traffic itself.
- Proxy modes other than http and tcp, and the `ToLower` of the label.
- In `UDPProxy`, an error of `ReadFromUDP` on a listener that is open: the code
  ends its loop on any read error, as it does when Close has closed the listener.
- Who would call the decoder of `FFJson`: no program of the repository does.
- Sizes of datagrams, and clocks: an empty datagram is a write that does not happen.

## 7. Plan

Done, in the order of what rests on what: the registrar, the shims around it, the
API, the UDP proxy; then the server's process, the JSON codec and the composition
of shims and Envoy. Left:

1. `Reachability` for a container and its successor, and with the server of
   `ServerLifecycle` in place of the three states of `ShimLifecycle`.
2. The lines of the resync script in the order of the process table, with the
   script's place in `ServerLifecycle` in place of its outcome.
3. A server that hangs: `Register` without a deadline holds `Close` for ever,
   which needs a fault that the present fairness excludes.
