--------------------------- MODULE ServerLifecycle ---------------------------
(***************************************************************************)
(* cmd/envoy-docker-server: one process with three goroutines, main (which *)
(* ends up in serveGRPC), handleStopSignals and serveHttp; the file of the *)
(* Unix socket, which outlives the process; and systemd, which runs the    *)
(* resync script as soon as it has started the process (ExecStartPost),    *)
(* stops the process when the script fails, and starts it again when       *)
(* either has failed (examples/envoy-docker-server.service).               *)
(*                                                                         *)
(* ShimLifecycle has this process as server, "down", "starting" or "up".   *)
(***************************************************************************)
EXTENDS Naturals

CONSTANTS MaxFaults   \* bound on crashes, failing servers and stray signals

ASSUME FaultsAssumption == MaxFaults \in Nat

VARIABLES
  addr,      \* SHIM_LISTEN_ADDR: "unix" with the scheme unix://, "path" without
  unit,      \* systemd's unit: "inactive", "active", "restarting", or
             \* "posting" when the process has ended and its script has not
  stopping,  \* systemd has signalled the process: "no", because it was asked
             \* to ("stop"), or because the script failed ("failed")
  post,      \* the script of ExecStartPost: "off" or "running"
  last,      \* how the script's last line would end: "ok", or it "fails" (a
             \* UDP shim's panics, a TCP shim's gives up)
  main,      \* main: "off", "boot", "http", "listen" or "serving"
  sig,       \* handleStopSignals: "off", "boot", "notified", "remove" or "exit"
  http,      \* serveHttp: "off", "listen" or "serving"
  file,      \* the socket's file: "none", "own" (of this process) or "stale"
  port,      \* the port of the API: "free", or "taken" by another program
  ended,     \* how the last process ended
  found,     \* history: the file was there when the process was started
  faults     \* the crashes, failing servers and stray signals so far

process == <<main, sig, http>>
script  == <<post, last>>
vars    == <<addr, unit, stopping, post, last, main, sig, http, file, port, ended,
             found, faults>>

Alive   == main # "off"
Serving == main = "serving" /\ http = "serving"

-----------------------------------------------------------------------------
Init ==
  /\ addr \in {"unix", "path"} /\ port \in {"free", "taken"} /\ last \in {"ok", "fails"}
  /\ unit = "inactive" /\ stopping = "no" /\ post = "off" /\ file = "none"
  /\ main = "off" /\ sig = "off" /\ http = "off"
  /\ ended = "none" /\ found = FALSE /\ faults = 0

Fault == faults < MaxFaults /\ faults' = faults + 1

\* Restart=on-failure: an exit status of 0 and SIGTERM are no failures, but a
\* script that failed is one, however the process ended that it took along.
Restarts(how) == stopping = "failed" \/ (stopping = "no" /\ how \in {"exit1", "crash"})

\* systemd waits for the script before it does anything about the process.
After(how) == IF post = "running" THEN "posting"
              ELSE IF Restarts(how) THEN "restarting" ELSE "inactive"

\* The end of the process takes all three goroutines, and leaves the file.
EndInto(next, how, left) ==
  /\ main' = "off" /\ sig' = "off" /\ http' = "off"
  /\ file' = IF left = "own" THEN "stale" ELSE left
  /\ ended' = how /\ stopping' = "no" /\ unit' = next
  /\ UNCHANGED <<addr, port, found, last>>

End(how, left) == EndInto(After(how), how, left) /\ UNCHANGED post

(***************************************************************************)
(* main and serveGRPC.                                                     *)
(***************************************************************************)
GoStopSignals ==
  /\ main = "boot"
  /\ main' = "http" /\ sig' = "boot"
  /\ UNCHANGED <<addr, unit, stopping, script, http, file, port, ended, found, faults>>

GoServeHttp ==
  /\ main = "http"
  /\ main' = "listen" /\ http' = "listen"
  /\ UNCHANGED <<addr, unit, stopping, script, sig, file, port, ended, found, faults>>

\* bind fails if there is a file, in use or not; then log.Fatalf.
Listen ==
  /\ main = "listen" /\ file = "none"
  /\ main' = "serving" /\ file' = "own"
  /\ UNCHANGED <<addr, unit, stopping, script, sig, http, port, ended, found, faults>>

ListenFails ==
  /\ main = "listen" /\ file # "none"
  /\ End("exit1", file)
  /\ UNCHANGED faults

\* Accept fails for good: Serve closes the listener, which removes the file.
ServeFails ==
  /\ main = "serving"
  /\ Fault /\ End("exit1", "none")

(***************************************************************************)
(* serveHttp.                                                              *)
(***************************************************************************)
ListenAndServe ==
  /\ http = "listen" /\ port = "free"
  /\ http' = "serving"
  /\ UNCHANGED <<addr, unit, stopping, script, main, sig, file, port, ended, found, faults>>

\* Mutant of CannotServe: the error is logged, and the goroutine ends.
CannotServeLogged ==
  /\ http' = "off"
  /\ UNCHANGED <<addr, unit, stopping, script, main, sig, file, port, ended, found>>

\* log.Fatalf, from a goroutine that did not make the socket.
CannotServe == End("exit1", file)

PortIsTaken ==
  /\ http = "listen" /\ port = "taken"
  /\ CannotServe
  /\ UNCHANGED faults

\* Accept fails for good.
HttpServeFails ==
  /\ http = "serving"
  /\ Fault /\ End("exit1", file)

(***************************************************************************)
(* handleStopSignals.                                                      *)
(***************************************************************************)
\* Mutant of Notify: the goroutine first removes what a crash may have left.
NotifyCleansUp ==
  /\ sig = "boot"
  /\ sig' = "notified" /\ file' = "none"
  /\ UNCHANGED <<addr, unit, stopping, script, main, http, port, ended, found, faults>>

Notify ==
  /\ sig = "boot"
  /\ sig' = "notified"
  /\ UNCHANGED <<addr, unit, stopping, script, main, http, file, port, ended, found, faults>>

\* The first SIGTERM or SIGINT; before Notify it kills the process.
Receive(next) ==
  IF sig = "notified"
  THEN sig' = "remove" /\ UNCHANGED <<addr, unit, last, main, http, file, port, ended, found>>
  ELSE EndInto(next, "signal", file)

\* Mutant of Removes: only a process that serves has a file to remove.
RemovesIfServing == addr = "unix" /\ main = "serving"

Removes == addr = "unix"

\* Remove, of a file that may not be there, or be another process's.
Remove ==
  /\ sig = "remove"
  /\ IF Removes /\ file = "none" THEN End("exit1", file)
     ELSE /\ sig' = "exit" /\ file' = IF Removes THEN "none" ELSE file
          /\ UNCHANGED <<addr, unit, stopping, script, main, http, port, ended, found>>
  /\ UNCHANGED faults

\* Mutant of Exit: the goroutine returns, and main goes on.
ExitReturns ==
  /\ sig = "exit" /\ sig' = "off"
  /\ UNCHANGED <<addr, unit, stopping, script, main, http, file, port, ended, found, faults>>

Exit ==
  /\ sig = "exit"
  /\ End("exit0", file)
  /\ UNCHANGED faults

(***************************************************************************)
(* systemd, and the world around the process.                              *)
(***************************************************************************)
\* Type=simple: the script is run as soon as there is a process.
Fork ==
  /\ unit' = "active" /\ post' = "running" /\ main' = "boot" /\ found' = (file # "none")
  /\ UNCHANGED <<addr, stopping, last, sig, http, file, port, ended, faults>>

UnitStart   == unit = "inactive" /\ Fork
UnitRestart == unit = "restarting" /\ Fork

\* systemd's SIGTERM; KillMode=process sends it to the server alone.
Terminate(why, next) ==
  IF sig \in {"remove", "exit"}
  THEN stopping' = why /\ UNCHANGED <<addr, unit, last, process, file, port, ended, found>>
  ELSE Receive(next) /\ stopping' = IF sig = "notified" THEN why ELSE "no"

\* systemctl stop, which ends the script too.
UnitStop ==
  /\ unit = "active" /\ stopping # "stop"
  /\ Terminate("stop", "inactive") /\ post' = "off"
  /\ UNCHANGED faults

\* A stop that comes while systemd waits for the script or to restart the unit.
CancelRestart ==
  /\ unit \in {"restarting", "posting"} /\ unit' = "inactive" /\ post' = "off"
  /\ UNCHANGED <<addr, stopping, last, process, file, port, ended, found, faults>>

PostSucceeds ==
  /\ post = "running" /\ last = "ok"
  /\ post' = "off"
  /\ unit' = IF unit = "active" THEN "active"
             ELSE IF Restarts(ended) THEN "restarting" ELSE "inactive"
  /\ UNCHANGED <<addr, stopping, last, process, file, port, ended, found, faults>>

\* The script's status is that of its last line, and a failed ExecStartPost
\* makes systemd stop the process, if there still is one, and start again.
PostFails ==
  /\ post = "running" /\ last = "fails"
  /\ post' = "off"
  /\ IF unit = "active" THEN Terminate("failed", "restarting")
     ELSE /\ unit' = "restarting"
          /\ UNCHANGED <<addr, stopping, last, process, file, port, ended, found>>
  /\ UNCHANGED faults

\* A signal that is not systemd's.
StraySignal ==
  /\ Alive /\ sig \notin {"remove", "exit"}
  /\ Fault /\ Receive(After("signal")) /\ (sig = "notified" => UNCHANGED stopping)
  /\ UNCHANGED post

Crash == Alive /\ Fault /\ End("crash", file)

\* Somebody removes the file of a server that does not run.
CleanUp ==
  /\ unit = "inactive" /\ file = "stale"
  /\ file' = "none"
  /\ UNCHANGED <<addr, unit, stopping, script, process, port, ended, found, faults>>

OtherProgram ==
  /\ http # "serving"
  /\ port' = IF port = "free" THEN "taken" ELSE "free"
  /\ UNCHANGED <<addr, unit, stopping, script, process, file, ended, found, faults>>

\* Containers come and go, and with them the process table's last line.
OtherLastLine ==
  /\ last' = IF last = "ok" THEN "fails" ELSE "ok"
  /\ UNCHANGED <<addr, unit, stopping, post, process, file, port, ended, found, faults>>

-----------------------------------------------------------------------------
Goroutines ==
  \/ GoStopSignals \/ GoServeHttp \/ Listen \/ ListenFails
  \/ ListenAndServe \/ PortIsTaken
  \/ Notify \/ Remove \/ Exit

Next == \/ Goroutines \/ ServeFails \/ HttpServeFails \/ Crash \/ StraySignal
        \/ UnitStart \/ UnitStop \/ UnitRestart \/ CancelRestart
        \/ PostSucceeds \/ PostFails
        \/ CleanUp \/ OtherProgram \/ OtherLastLine

Spec == Init /\ [][Next]_vars

(***************************************************************************)
(* Goroutines that can go on do, the script comes to an end, and systemd   *)
(* restarts what it has to.  Nobody has to start or to stop the unit, or   *)
(* to clean up.                                                            *)
(***************************************************************************)
Fairness ==
  /\ WF_vars(GoStopSignals) /\ WF_vars(GoServeHttp)
  /\ WF_vars(Listen \/ ListenFails) /\ WF_vars(ListenAndServe \/ PortIsTaken)
  /\ WF_vars(Notify) /\ WF_vars(Remove) /\ WF_vars(Exit)
  /\ WF_vars(UnitRestart) /\ WF_vars(PostSucceeds \/ PostFails)

FairSpec == Spec /\ Fairness

-----------------------------------------------------------------------------
TypeOK ==
  /\ addr \in {"unix", "path"} /\ unit \in {"inactive", "active", "restarting", "posting"}
  /\ stopping \in {"no", "stop", "failed"} /\ found \in BOOLEAN
  /\ post \in {"off", "running"} /\ last \in {"ok", "fails"}
  /\ main \in {"off", "boot", "http", "listen", "serving"}
  /\ sig \in {"off", "boot", "notified", "remove", "exit"}
  /\ http \in {"off", "listen", "serving"}
  /\ file \in {"none", "own", "stale"} /\ port \in {"free", "taken"}
  /\ ended \in {"none", "exit0", "exit1", "signal", "crash"}
  /\ faults \in 0 .. MaxFaults

(***************************************************************************)
(* A server that was stopped and exited with status 0 leaves no file that  *)
(* would keep its successor from listening, if there was none when it was  *)
(* started: main, which may still be about to listen when the signal comes,*)
(* does not make one behind the Remove of handleStopSignals.               *)
(***************************************************************************)
CleanExit ==
  addr = "unix" /\ ended = "exit0" /\ ~found /\ ~Alive => file = "none"

(***************************************************************************)
(* Shims find a server that serves: the file is there and is that of its   *)
(* own socket, until handleStopSignals has removed it.                     *)
(***************************************************************************)
ShimsFindServer == main = "serving" /\ sig # "exit" => file = "own"

(***************************************************************************)
(* The inductive invariant: which places of the goroutines go together,    *)
(* whose the file is, and that a process that was started without a file   *)
(* has listened before handleStopSignals could remove one.                 *)
(***************************************************************************)
Places ==
  /\ main = "off" <=> unit # "active"
  /\ main = "off" => stopping = "no"
  /\ post = "running" => unit \in {"active", "posting"} /\ stopping = "no"
  /\ unit = "posting" => post = "running"
  /\ sig = "off" <=> main \in {"off", "boot"}
  /\ http = "off" <=> main \in {"off", "boot", "http"}

FileOwner ==
  /\ file = "own" => main = "serving"
  /\ Alive /\ ~found => file # "stale"
  /\ addr = "unix" /\ ~found /\ sig = "exit" => main = "serving" /\ file = "none"

IInv == TypeOK /\ Places /\ FileOwner /\ ShimsFindServer /\ CleanExit

(***************************************************************************)
(* A server that was told to stop ends, also one that did not come to      *)
(* listen, and whose file is not there to be removed.                      *)
(***************************************************************************)
StopEnds == sig = "remove" ~> main = "off"

(***************************************************************************)
(* A unit that nobody stops comes to serve shims and Envoy both, and never *)
(* stays with one half of it, once its port is free, no file is left and   *)
(* the last line of its resync script does not fail any more: also when a  *)
(* failing script took down a server that was already serving.             *)
(***************************************************************************)
ComesUp ==
  <>[](unit # "inactive" /\ port = "free" /\ file # "stale" /\ last = "ok") => <>[]Serving

(***************************************************************************)
(* What the unit has Restart=on-failure for: after the last crash, with    *)
(* its port free and a script that does not fail, the server is back,      *)
(* without anybody's help.                                                 *)
(***************************************************************************)
RestartRecovers ==
  <>[](unit # "inactive" /\ port = "free" /\ last = "ok") => <>[]Serving
=============================================================================
