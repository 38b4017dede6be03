---------------------------- MODULE ServerProofs ----------------------------
(***************************************************************************)
(* Theorems about ServerLifecycle, for any number of faults.               *)
(***************************************************************************)
EXTENDS ServerLifecycle, TLAPS

(***************************************************************************)
(* However a process ends (an exit status, a signal, a crash), the         *)
(* invariant holds after it, provided that a clean exit of one that was    *)
(* started without a file has left none.                                   *)
(***************************************************************************)
LEMMA EndStep ==
  ASSUME IInv, NEW next \in {"inactive", "restarting", "posting"},
         NEW how \in {"exit0", "exit1", "signal", "crash"},
         NEW left \in {"none", "own", "stale"}, EndInto(next, how, left),
         how = "exit0" /\ addr = "unix" /\ ~found => left = "none",
         post' \in {"off", "running"}, next = "posting" <=> post' = "running",
         faults' \in 0 .. MaxFaults
  PROVE  IInv'
<1>1. /\ main' = "off" /\ sig' = "off" /\ http' = "off" /\ stopping' = "no"
      /\ ended' = how /\ unit' = next
      /\ file' = (IF left = "own" THEN "stale" ELSE left)
      /\ addr' = addr /\ port' = port /\ found' = found /\ last' = last
  BY DEF EndInto
<1>2. TypeOK'
  BY <1>1 DEF IInv, TypeOK
<1>3. Places' /\ FileOwner' /\ ShimsFindServer'
  BY <1>1 DEF Places, FileOwner, ShimsFindServer, Alive
<1>4. CleanExit'
  BY <1>1 DEF CleanExit, Alive
<1> QED
  BY <1>2, <1>3, <1>4 DEF IInv

(***************************************************************************)
(* The same of an end in which the script goes on as it was: systemd waits *)
(* for it, if it is running, and else restarts the unit or leaves it.      *)
(***************************************************************************)
LEMMA OwnEndStep ==
  ASSUME IInv, NEW how \in {"exit0", "exit1", "signal", "crash"},
         NEW left \in {"none", "own", "stale"}, End(how, left),
         how = "exit0" /\ addr = "unix" /\ ~found => left = "none",
         faults' \in 0 .. MaxFaults
  PROVE  IInv'
<1>1. post \in {"off", "running"} /\ post' = post
  BY DEF End, IInv, TypeOK
<1>2. /\ After(how) \in {"inactive", "restarting", "posting"}
      /\ After(how) = "posting" <=> post = "running"
  BY DEF After
<1>3. EndInto(After(how), how, left)
  BY DEF End
<1> QED
  BY <1>1, <1>2, <1>3, EndStep

(***************************************************************************)
(* Every step of the goroutines, of systemd and of the world around keeps  *)
(* the invariant.                                                          *)
(***************************************************************************)
LEMMA InvStep ==
  ASSUME IInv, [Next]_vars
  PROVE  IInv'
<1> USE FaultsAssumption
<1> USE DEF IInv
<1>0. file \in {"none", "own", "stale"} /\ faults \in 0 .. MaxFaults
  BY DEF TypeOK
<1>f. ASSUME Fault PROVE faults' \in 0 .. MaxFaults
  BY <1>f, <1>0 DEF Fault
<1>1. CASE GoStopSignals
  BY <1>1 DEF GoStopSignals, script, TypeOK, Places, FileOwner, ShimsFindServer, CleanExit, Alive
<1>2. CASE GoServeHttp
  BY <1>2 DEF GoServeHttp, script, TypeOK, Places, FileOwner, ShimsFindServer, CleanExit, Alive
<1>3. CASE Listen
  BY <1>3 DEF Listen, script, TypeOK, Places, FileOwner, ShimsFindServer, CleanExit, Alive
<1>4. CASE ListenFails
  BY <1>4, <1>0, OwnEndStep DEF ListenFails
<1>5. CASE ServeFails
  BY <1>5, <1>0, <1>f, OwnEndStep DEF ServeFails
<1>6. CASE ListenAndServe
  BY <1>6 DEF ListenAndServe, script, TypeOK, Places, FileOwner, ShimsFindServer, CleanExit, Alive
<1>7. CASE PortIsTaken
  BY <1>7, <1>0, OwnEndStep DEF PortIsTaken, CannotServe
<1>8. CASE HttpServeFails
  BY <1>8, <1>0, <1>f, OwnEndStep DEF HttpServeFails
<1>9. CASE Notify
  BY <1>9 DEF Notify, script, TypeOK, Places, FileOwner, ShimsFindServer, CleanExit, Alive
<1>10. CASE Remove
  <2>1. CASE Removes /\ file = "none"
    BY <1>10, <2>1, <1>0, OwnEndStep DEF Remove
  <2>2. CASE ~(Removes /\ file = "none")
    BY <1>10, <2>2 DEF Remove, Removes, script, TypeOK, Places, FileOwner, ShimsFindServer,
                       CleanExit, Alive
  <2> QED
    BY <2>1, <2>2
<1>11. CASE Exit
  \* Without a file at its start, the process has listened and removed its own.
  <2>1. addr = "unix" /\ ~found => file = "none"
    BY <1>11 DEF Exit, FileOwner
  <2> QED
    BY <1>11, <2>1, <1>0, OwnEndStep DEF Exit
<1>12. CASE Crash
  BY <1>12, <1>0, <1>f, OwnEndStep DEF Crash
<1>13. CASE StraySignal
  <2>1. CASE sig = "notified"
    BY <1>13, <2>1, <1>f DEF StraySignal, Receive, TypeOK, Places, FileOwner,
                             ShimsFindServer, CleanExit, Alive
  <2>2. CASE sig # "notified"
    <3>1. End("signal", file) /\ faults' \in 0 .. MaxFaults
      BY <1>13, <2>2, <1>f DEF StraySignal, Receive, End
    <3> QED
      BY <3>1, <1>0, OwnEndStep
  <2> QED
    BY <2>1, <2>2
<1>t. ASSUME NEW why \in {"stop", "failed"}, NEW next \in {"inactive", "restarting"},
             unit = "active", Terminate(why, next), post' = "off", faults' = faults
      PROVE  IInv'
  <2>1. CASE sig \in {"remove", "exit"}
    BY <1>t, <2>1 DEF Terminate, process, TypeOK, Places, FileOwner, ShimsFindServer,
                      CleanExit, Alive
  <2>2. CASE sig = "notified"
    BY <1>t, <2>2 DEF Terminate, Receive, TypeOK, Places, FileOwner, ShimsFindServer,
                      CleanExit, Alive
  <2>3. CASE sig \notin {"remove", "exit", "notified"}
    <3>1. EndInto(next, "signal", file)
      BY <1>t, <2>3 DEF Terminate, Receive
    <3> QED
      BY <1>t, <3>1, <1>0, EndStep
  <2> QED
    BY <2>1, <2>2, <2>3
<1>14. CASE UnitStop
  BY <1>14, <1>t DEF UnitStop
<1>20. CASE PostSucceeds
  BY <1>20 DEF PostSucceeds, process, TypeOK, Places, FileOwner, ShimsFindServer,
               CleanExit, Alive
<1>21. CASE PostFails
  <2>1. CASE unit = "active"
    BY <1>21, <2>1, <1>t DEF PostFails
  <2>2. CASE unit # "active"
    BY <1>21, <2>2 DEF PostFails, process, TypeOK, Places, FileOwner, ShimsFindServer,
                       CleanExit, Alive
  <2> QED
    BY <2>1, <2>2
<1>15. CASE UnitStart \/ UnitRestart
  BY <1>15 DEF UnitStart, UnitRestart, Fork, TypeOK, Places, FileOwner, ShimsFindServer,
               CleanExit, Alive
<1>16. CASE CancelRestart
  BY <1>16 DEF CancelRestart, process, TypeOK, Places, FileOwner, ShimsFindServer,
               CleanExit, Alive
<1>17. CASE CleanUp
  BY <1>17 DEF CleanUp, process, script, TypeOK, Places, FileOwner, ShimsFindServer, CleanExit, Alive
<1>18. CASE OtherProgram
  BY <1>18 DEF OtherProgram, process, script, TypeOK, Places, FileOwner, ShimsFindServer,
               CleanExit, Alive
<1>22. CASE OtherLastLine
  BY <1>22 DEF OtherLastLine, process, TypeOK, Places, FileOwner, ShimsFindServer,
               CleanExit, Alive
<1>19. CASE UNCHANGED vars
  BY <1>19 DEF vars, script, TypeOK, Places, FileOwner, ShimsFindServer, CleanExit, Alive
<1> QED
  BY <1>1, <1>2, <1>3, <1>4, <1>5, <1>6, <1>7, <1>8, <1>9, <1>10, <1>11, <1>12, <1>13,
     <1>14, <1>15, <1>16, <1>17, <1>18, <1>19, <1>20, <1>21, <1>22 DEF Next, Goroutines

(***************************************************************************)
(* The places of the server's goroutines, the owner of its socket's file   *)
(* and what a stop leaves stay as IInv says, however often it crashes.     *)
(***************************************************************************)
THEOREM ServerInvariant == Spec => []IInv
<1>1. Init => IInv
  <2> SUFFICES ASSUME Init PROVE IInv
    OBVIOUS
  <2>1. faults \in 0 .. MaxFaults
    BY FaultsAssumption DEF Init
  <2>2. TypeOK
    BY <2>1 DEF Init, TypeOK
  <2>3. Places /\ FileOwner /\ ShimsFindServer /\ CleanExit
    BY DEF Init, Places, FileOwner, ShimsFindServer, CleanExit, Alive
  <2> QED
    BY <2>2, <2>3 DEF IInv
<1> QED
  BY <1>1, InvStep, PTL DEF Spec

(***************************************************************************)
(* A stop with status 0 of a server that was started without a socket file *)
(* leaves none, however its goroutines race: the next start can listen.    *)
(***************************************************************************)
THEOREM ExitIsClean == Spec => []CleanExit
<1>1. IInv => CleanExit
  BY DEF IInv
<1> QED
  BY <1>1, ServerInvariant, PTL

(***************************************************************************)
(* Until it removes the file itself, a server that serves is the one that  *)
(* the shims find behind the socket's file.                                *)
(***************************************************************************)
THEOREM ServerIsFound == Spec => []ShimsFindServer
<1>1. IInv => ShimsFindServer
  BY DEF IInv
<1> QED
  BY <1>1, ServerInvariant, PTL
=============================================================================
