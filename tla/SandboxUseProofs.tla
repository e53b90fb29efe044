--------------------------- MODULE SandboxUseProofs ---------------------------
(***************************************************************************)
(* Proofs about SandboxUse for any of the providers, any number of faults  *)
(* and any number of attempts: a creation hands out a good sandbox, a      *)
(* command's result is honest and the command is over when the call is,    *)
(* and a controlled workload implements WorkloadContract.                  *)
(***************************************************************************)
EXTENDS SandboxUse, TLAPS

\* A step may use up one fault of the bound.
OneFault == faults' = faults \/ (faults < MaxFaults /\ faults' = faults + 1)

\* The creation: which provider is at which step, that a sandbox which is about to be
\* returned has started, and that no cleanup runs behind a sandbox that was returned.
CreationInv ==
  /\ Creation!CreationTypeOK
  /\ outcome = "pending" <=> call # "done"
  /\ call \in {"sweeping", "retry", "finding", "waiting", "notifying"} => Creation!OnDaytona
  /\ call \in {"checking", "cleaning"} => provider = "docker"
  /\ call = "notifying" => box \in {"started", "stopped"}
  /\ call = "checking" => box = "started"
  /\ provider = "modal" /\ call = "creating" /\ creation = "taken" => box = "started"
  /\ reclaim # "none" => call \in {"cleaning", "done"} /\ outcome # "handle"
  /\ outcome = "handle" => creation = "none"
  /\ Creation!HandleIsGood

Early == {"ready", "starting", "describing", "connecting", "typing"}
PtySteps == {"describing", "connecting", "typing", "polling", "probing", "joining"}

\* What ended the PTY: the command, which left its status, a fault, or the call.
Excused == marked \/ faults > 0 \/ step = "done"

\* Where the command's run and its status can be.
RunInv ==
  /\ step \notin {"cleaning", "done"} => result = "pending"
  /\ step \in Early => runs = 0
  /\ runs <= 1
  /\ (runs = 0) <=> (program = "none")
  /\ program = "unmarked" => provider = "docker"
  /\ program = "killed" => host # "up" \/ pty = "closed" \/ step = "done"
  /\ host # "up" => faults > 0
  /\ marked => provider = "daytona" /\ program \in {"success", "failure"}

\* Daytona's PTY.
PtyInv ==
  /\ step \in PtySteps \cup {"reading"} \/ pty # "none" => provider = "daytona"
  /\ step = "ready" => pty = "none"
  /\ step \in PtySteps => pty # "none"
  /\ step \in PtySteps \ {"describing", "connecting"} => wire # "none" /\ tries < MaxAttempts
  /\ pty = "closed" \/ wire = "broken" => Excused
  /\ step = "starting" /\ pty # "none" => faults > 0
  /\ step = "probing" /\ sawEnd => wire \in {"ended", "broken"}
  /\ step = "reading" => marked
  /\ provider = "daytona" /\ (program # "none" \/ step \in {"connecting", "typing"}) => owns
  /\ provider = "daytona" /\ program = "running" => pty = "open"

\* The stream of the others.
StreamInv ==
  /\ step \in {"streaming", "checking"} => provider # "daytona"
  /\ provider # "daytona" /\ sawEnd => program \in Command!Ended
  /\ step = "checking" => program \in Command!Ended

CommandInv ==
  /\ Command!CommandTypeOK
  /\ RunInv /\ PtyInv /\ StreamInv
  /\ Command!CommandIsHonest /\ Command!NoCommandLeft

\* Process groups: who may still start an agent's process, and which status file
\* proves that nobody will.
GroupInv ==
  provider # "daytona" =>
    /\ session = "none"
    /\ leader = "none" => launch # "ok" /\ ~ pgid
    /\ leader # "none" => launch # "pending"
    /\ listener => leader \notin {"none", "setup", "published", "ready"}
    /\ stopper = "polling" => pgid
    /\ leader \in {"none", "setup", "published", "ready"} => agent = {}
    /\ episode /\ leader = "draining" => "root" \notin agent
    /\ episode /\ status = "prelaunch" => leader \in {"published", "dead"} /\ agent = {}
    /\ episode /\ status \in Results => leader \in {"recorded", "dead"} /\ agent = {}
    /\ confirmed => leader = "dead" /\ agent = {}
    /\ stopper = "ok" => confirmed
    /\ watch # "pending" => launch = "ok"
    /\ waiting \in Results => confirmed /\ watch = "ended"
    /\ killing = "ok" => confirmed

\* Cgroups: an agent starts only in a cgroup that nobody makes again, and a closed
\* session is never opened again.
CgroupInv ==
  provider = "daytona" =>
    /\ owned => launching # "group" /\ group # "absent"
    /\ launching \in {"marker", "session", "command", "done"} => owned
    /\ finish \in {"stopping", "releasing", "closing", "awaiting", "ok"} => owned
    /\ finish \in {"releasing", "closing", "awaiting", "ok"} => confirmed
    /\ confirmed => owned /\ group = "removed" /\ agent = {}
    /\ launching \in {"session", "command", "done"} => requested
    /\ session # "none" => requested
    /\ close \in {"checking", "ok"} => Cgroup!CreationDone
    /\ close = "ok" => session # "present"
    /\ waiting = "closing" \/ killing = "closing" => confirmed
    /\ waiting \in Results \/ killing = "ok" => confirmed /\ close = "ok"

\* Why a wait that closes its session knows how the agent ended: the shell outlives the
\* child's join, and the release comes after its mark.
EndInv ==
  provider = "daytona" =>
    /\ (child = "none") <=> (shell = "none")
    /\ child # "none" => owned /\ launching \in {"done", "failed"}
    /\ child = "joined" => "root" \in agent \/ ended # "none"
    /\ child = "gone" => group = "removed"
    /\ shell \in {"marked", "ended"} => child \in {"joined", "gone"} /\ "root" \notin agent
    /\ finish \in {"observing", "stopping"} => /\ close = "none"
                                               /\ owned => group = "present"
    /\ finish = "stopping" => stop \/ run # "running" \/ shell \in {"marked", "ended"}
    /\ shell = "ended" \/ run = "exited" => released
    /\ released => finish \in {"ok", "failed"}
    /\ finish = "releasing" \/ released \/ waiting = "closing" => ended # "none"

UseInv ==
  /\ UseTypeOK
  /\ CreationInv /\ CommandInv /\ GroupInv /\ CgroupInv /\ EndInv
  /\ use # "command" => Command!CommandInit
-----------------------------------------------------------------------------
(* The creation *)

LEMMA CreationStep ==
  ASSUME provider \in AllProviders, CreationInv, Creation!CreationNext
  PROVE  CreationInv' /\ provider' = provider /\ OneFault
<1> USE UseAssumption DEF CreationInv, OneFault, AllProviders, Creation!CreationTypeOK,
     Creation!HandleIsGood, Creation!OnDaytona
<1>1. CASE Creation!Begin
  BY <1>1 DEF Creation!Begin, Creation!Same
<1>2. CASE Creation!Send
  BY <1>2 DEF Creation!Send, Creation!Same
<1>3. CASE Creation!Created
  BY <1>3 DEF Creation!Created, Creation!Same, Creation!GoTo
<1>4. CASE Creation!CreateFalters
  <2>1. late' \in BOOLEAN /\ announced' \in BOOLEAN
    BY <1>4, Zenon DEF Creation!CreateFalters
  <2> QED BY <1>4, <2>1 DEF Creation!CreateFalters, Creation!Same
<1>5. CASE Creation!NameConflict
  BY <1>5 DEF Creation!NameConflict, Creation!Same, Creation!GoTo
<1>6. CASE Creation!Sweep
  BY <1>6 DEF Creation!Sweep, Creation!Same, Creation!GoTo, Creation!DeleteFailedOne
<1>7. CASE Creation!Retry
  BY <1>7 DEF Creation!Retry, Creation!Same, Creation!Raise
<1>8. CASE Creation!Find
  BY <1>8 DEF Creation!Find, Creation!Same, Creation!Raise, Creation!GoTo,
     Creation!DeleteFailedOne
<1>9. CASE Creation!Wait
  BY <1>9 DEF Creation!Wait, Creation!Same, Creation!Raise, Creation!GoTo
<1>10. CASE Creation!Notify
  <2>1. late' \in BOOLEAN /\ announced' \in BOOLEAN
    BY <1>10, Zenon DEF Creation!Notify, Creation!Return
  <2> QED BY <1>10, <2>1 DEF Creation!Notify, Creation!Same, Creation!Return
<1>11. CASE Creation!Allocated
  <2>1. late' \in BOOLEAN /\ announced' \in BOOLEAN
    BY <1>11, Zenon DEF Creation!Allocated, Creation!Return
  <2> QED BY <1>11, <2>1 DEF Creation!Allocated, Creation!Same, Creation!Return
<1>12. CASE Creation!Terminate
  BY <1>12 DEF Creation!Terminate, Creation!Same, Creation!callVars
<1>13. CASE Creation!CloseClient
  BY <1>13 DEF Creation!CloseClient, Creation!Same, Creation!callVars
<1>14. CASE Creation!Ran
  BY <1>14 DEF Creation!Ran, Creation!Same, Creation!GoTo
<1>15. CASE Creation!Checked
  <2>1. late' \in BOOLEAN /\ announced' \in BOOLEAN
    BY <1>15, Zenon DEF Creation!Checked, Creation!Return
  <2> QED BY <1>15, <2>1 DEF Creation!Checked, Creation!Same, Creation!Return
<1>16. CASE Creation!RunEnded
  BY <1>16 DEF Creation!RunEnded, Creation!Same, Creation!callVars
<1>17. CASE Creation!DeleteByName
  BY <1>17 DEF Creation!DeleteByName, Creation!Same, Creation!Raise
<1>18. CASE Creation!CleanUp
  BY <1>18 DEF Creation!CleanUp, Creation!Same
<1>19. CASE Creation!Accept
  BY <1>19 DEF Creation!Accept, Creation!Same
<1>20. CASE Creation!AcceptLate
  <2>1. late' \in BOOLEAN /\ announced' \in BOOLEAN
    BY <1>20, Zenon DEF Creation!AcceptLate
  <2> QED BY <1>20, <2>1 DEF Creation!AcceptLate, Creation!Same
<1>21. CASE Creation!Start
  BY <1>21 DEF Creation!Start, Creation!Same, Creation!callVars
<1>22. CASE Creation!StartFails
  BY <1>22 DEF Creation!StartFails, Creation!Fails, Creation!callVars
<1>23. CASE Creation!Stop
  BY <1>23 DEF Creation!Stop, Creation!Fails, Creation!callVars
<1>24. CASE Creation!Destroy
  BY <1>24 DEF Creation!Destroy, Creation!Same, Creation!callVars
<1>25. CASE Creation!Reject
  BY <1>25 DEF Creation!Reject, Creation!Same, Creation!Raise
<1>26. CASE Creation!ResolveVolumesFails
  BY <1>26 DEF Creation!ResolveVolumesFails, Creation!Fails, Creation!Raise, Creation!GoTo
<1>27. CASE Creation!ConnectFails
  BY <1>27 DEF Creation!ConnectFails, Creation!Fails, Creation!Raise
<1>28. CASE Creation!PullFails
  BY <1>28 DEF Creation!PullFails, Creation!Same, Creation!Raise
<1>29. CASE Creation!CreateRefused
  BY <1>29 DEF Creation!CreateRefused, Creation!Fails, Creation!Raise
<1>30. CASE Creation!LookupFails
  BY <1>30 DEF Creation!LookupFails, Creation!Fails, Creation!Raise, Creation!GoTo,
     Creation!DeleteFailedOne
<1>31. CASE Creation!Abandon
  BY <1>31 DEF Creation!Abandon, Creation!Same, Creation!Raise
<1>32. CASE Creation!AllocationFails
  BY <1>32 DEF Creation!AllocationFails, Creation!Fails, Creation!Raise, Creation!GoTo
<1>33. CASE Creation!HandOver
  BY <1>33 DEF Creation!HandOver, Creation!Same, Creation!Raise
<1>34. CASE Creation!TerminateFails
  BY <1>34 DEF Creation!TerminateFails, Creation!Fails, Creation!callVars
<1>35. CASE Creation!Close
  BY <1>35 DEF Creation!Close, Creation!Same, Creation!callVars
<1>36. CASE Creation!RunFails
  BY <1>36 DEF Creation!RunFails, Creation!Fails
<1>37. CASE Creation!RunOutlasts
  BY <1>37 DEF Creation!RunOutlasts, Creation!Fails
<1>38. CASE Creation!DeleteFails
  BY <1>38 DEF Creation!DeleteFails, Creation!Fails, Creation!Raise
<1> QED BY <1>1, <1>2, <1>3, <1>4, <1>5, <1>6, <1>7, <1>8, <1>9, <1>10, <1>11, <1>12, <1>13,
     <1>14, <1>15, <1>16, <1>17, <1>18, <1>19, <1>20, <1>21, <1>22, <1>23, <1>24, <1>25, <1>26,
     <1>27, <1>28, <1>29, <1>30, <1>31, <1>32, <1>33, <1>34, <1>35, <1>36, <1>37, <1>38
  DEF Creation!CreationNext, Creation!CallSteps, Creation!DaytonaSteps, Creation!ModalSteps,
     Creation!DockerSteps
-----------------------------------------------------------------------------
(* The command *)

LEMMA CommandStep ==
  ASSUME provider \in AllProviders, faults \in Nat, CommandInv, Command!CommandNext
  PROVE  CommandInv' /\ provider' = provider /\ OneFault
<1> USE UseAssumption
    DEF CommandInv, RunInv, PtyInv, StreamInv, Excused, Early, PtySteps, OneFault, AllProviders,
        Command!CommandTypeOK, Command!CommandIsHonest, Command!NoCommandLeft, Command!Live,
        Command!Ended
<1>1. CASE Command!Begin
  BY <1>1 DEF Command!Begin, Command!Same, Command!GoTo, Command!sandboxVars
<1>2. CASE Command!OpenPty
  BY <1>2 DEF Command!OpenPty, Command!Same, Command!GoTo
<1>3. CASE Command!OpenConflicts
  BY <1>3 DEF Command!OpenConflicts, Command!Same, Command!GoTo, Command!Finish,
     Command!sandboxVars
<1>4. CASE Command!Describe
  BY <1>4 DEF Command!Describe, Command!Same, Command!GoTo, Command!sandboxVars
<1>5. CASE Command!Connect
  BY <1>5 DEF Command!Connect, Command!Attach, Command!Same, Command!GoTo, Command!sandboxVars
<1>6. CASE Command!Type
  BY <1>6 DEF Command!Type, Command!Same, Command!GoTo, Command!Finish, Command!Run,
     Command!sandboxVars
<1>7. CASE Command!Poll
  <2>1. sawEnd' \in BOOLEAN /\ (sawEnd' => wire # "attached")
    BY <1>7, Zenon DEF Command!Poll
  <2>2. /\ step = "polling" /\ step' = "probing"
        /\ UNCHANGED <<provider, faults, host, program, runs, held, pty, marked, wire, tries, ambiguous,
                       owns, result, spared>>
    BY <1>7 DEF Command!Poll, Command!Same, Command!GoTo, Command!sandboxVars
  <2> QED BY <2>1, <2>2
<1>8. CASE Command!Probe
  BY <1>8 DEF Command!Probe, Command!Same, Command!GoTo, Command!Finish, Command!sandboxVars
<1>9. CASE Command!Join
  BY <1>9 DEF Command!Join, Command!Attach, Command!Same, Command!GoTo, Command!sandboxVars
<1>10. CASE Command!Read
  BY <1>10 DEF Command!Read, Command!Same, Command!Finish, Command!sandboxVars
<1>11. CASE Command!FindsHostGone
  BY <1>11 DEF Command!FindsHostGone, Command!Same, Command!Finish, Command!sandboxVars,
     Command!DaytonaCalls
<1>12. CASE Command!ClosePty
  BY <1>12 DEF Command!ClosePty, Command!Same, Command!GoTo
<1>13. CASE Command!Start
  BY <1>13 DEF Command!Start, Command!Same, Command!GoTo, Command!Run
<1>14. CASE Command!StartFindsHostGone
  BY <1>14 DEF Command!StartFindsHostGone, Command!Same, Command!Finish, Command!sandboxVars
<1>15. CASE Command!SeeExit
  BY <1>15 DEF Command!SeeExit, Command!Same, Command!GoTo, Command!sandboxVars
<1>16. CASE Command!EndOfOutput
  BY <1>16 DEF Command!EndOfOutput, Command!Same, Command!GoTo, Command!sandboxVars
<1>17. CASE Command!StopDraining
  BY <1>17 DEF Command!StopDraining, Command!Same, Command!GoTo, Command!sandboxVars,
     Command!Drained
<1>18. CASE Command!StreamFindsHostGone
  BY <1>18 DEF Command!StreamFindsHostGone, Command!Same, Command!Finish, Command!sandboxVars
<1>19. CASE Command!Ask
  BY <1>19 DEF Command!Ask, Command!Same, Command!GoTo, Command!Finish, Command!sandboxVars
<1>20. CASE Command!ModalDone
  BY <1>20 DEF Command!ModalDone, Command!Same, Command!GoTo, Command!sandboxVars
<1>21. CASE Command!KillGroup
  BY <1>21 DEF Command!KillGroup, Command!Same, Command!MustKill
<1>22. CASE Command!MarkPid
  BY <1>22 DEF Command!MarkPid, Command!Quiet, Command!Same, Command!callVars
<1>23. CASE Command!MarkStatus
  BY <1>23 DEF Command!MarkStatus, Command!Quiet, Command!Same, Command!callVars
<1>24. CASE Command!ShellExits
  BY <1>24 DEF Command!ShellExits, Command!Quiet, Command!Same, Command!callVars
<1>25. CASE Command!HostDown
  BY <1>25 DEF Command!HostDown, Command!Quiet, Command!Same, Command!callVars
<1>26. CASE Command!Exit
  BY <1>26 DEF Command!Exit, Command!Quiet, Command!Same, Command!callVars
<1>27. CASE Command!Release
  BY <1>27 DEF Command!Release, Command!Quiet, Command!Same, Command!callVars
<1>28. CASE Command!ShellDies
  BY <1>28 DEF Command!ShellDies, Command!Fails, Command!callVars
<1>29. CASE Command!HostStops
  BY <1>29 DEF Command!HostStops, Command!Fails, Command!callVars
<1>30. CASE Command!WireEnds
  BY <1>30 DEF Command!WireEnds, Command!Same, Command!sandboxVars
<1>31. CASE Command!OpenFalters
  <2>1. ambiguous' \in BOOLEAN
    BY <1>31, Zenon DEF Command!OpenFalters
  <2>2. /\ provider = "daytona" /\ step = "starting" /\ Command!Fails
        /\ pty' \in {pty, IF pty = "none" THEN "open" ELSE pty} \/ pty' = pty
        /\ IF tries < MaxAttempts THEN tries' = tries + 1 /\ Command!GoTo(step)
                                  ELSE tries' = tries /\ Command!Finish("error")
        /\ UNCHANGED <<provider, host, program, runs, held, marked, wire, owns, sawEnd>>
    BY <1>31, Zenon DEF Command!OpenFalters
  <2> QED BY <2>1, <2>2 DEF Command!Fails, Command!GoTo, Command!Finish
<1>32. CASE Command!TypeFails
  BY <1>32 DEF Command!TypeFails, Command!Fails, Command!Finish, Command!Run, Command!sandboxVars
<1>33. CASE Command!ProbeFails
  BY <1>33 DEF Command!ProbeFails, Command!Fails, Command!GoTo, Command!Finish,
     Command!sandboxVars
<1>34. CASE Command!CallFails
  BY <1>34 DEF Command!CallFails, Command!Fails, Command!Finish, Command!sandboxVars
<1>35. CASE Command!StartFails
  BY <1>35 DEF Command!StartFails, Command!Fails, Command!GoTo, Command!Finish, Command!Run,
     Command!sandboxVars, Command!MayRetryStart
<1>36. CASE Command!StreamFails
  BY <1>36 DEF Command!StreamFails, Command!Fails, Command!Finish, Command!sandboxVars
<1>37. CASE Command!TimesOut
  BY <1>37 DEF Command!TimesOut, Command!Same, Command!Finish, Command!sandboxVars
<1>38. CASE Command!CleanupFails
  BY <1>38 DEF Command!CleanupFails, Command!Fails, Command!sandboxVars
<1>39. CASE Command!Cancel
  BY <1>39 DEF Command!Cancel, Command!Same, Command!Finish, Command!sandboxVars
<1>40. CASE Command!Believe
  BY <1>40 DEF Command!Believe, Command!Same, Command!Finish, Command!sandboxVars,
     Command!Rechecks
<1> QED BY <1>1, <1>2, <1>3, <1>4, <1>5, <1>6, <1>7, <1>8, <1>9, <1>10, <1>11, <1>12, <1>13,
     <1>14, <1>15, <1>16, <1>17, <1>18, <1>19, <1>20, <1>21, <1>22, <1>23, <1>24, <1>25, <1>26,
     <1>27, <1>28, <1>29, <1>30, <1>31, <1>32, <1>33, <1>34, <1>35, <1>36, <1>37, <1>38, <1>39,
     <1>40
  DEF Command!CommandNext, Command!CallSteps, Command!DaytonaSteps, Command!ExecSteps,
     Command!SandboxSteps
-----------------------------------------------------------------------------
(* The workload in a process group *)

Returned == waiting \in Results \/ killing = "ok"

\* The stop script's proof, made when the owner is dead and no agent can be left.
LEMMA ProofKeeps ==
  ASSUME provider \in Providers \ {"daytona"}, WorkloadTypeOK, GroupTypeOK, GroupInv,
         Prove(status), Outside, UNCHANGED cgroupVars,
         UNCHANGED <<request, waiting, killing, faults, launch, watch, torn>>,
         leader = "dead", ~ episode \/ status # "none" => agent = {}
  PROVE  /\ WorkloadTypeOK' /\ GroupTypeOK' /\ GroupInv' /\ provider' = provider
         /\ confirmed => confirmed'
         /\ Returned => Returned'
<1>1. UNCHANGED <<provider, agent, ended, episode, leader, listener, pgid, status, session>>
  BY DEF Outside, agentVars, cgroupVars
<1>2. Returned => Returned'
  BY DEF Returned
<1>3. CASE episode /\ status = "none"
  <2>1. stopper' = "failed" /\ UNCHANGED <<confirmed, found, cleanup>>
    BY <1>3 DEF Prove
  <2> QED BY <1>1, <1>2, <2>1 DEF WorkloadTypeOK, GroupTypeOK, GroupInv, Results
<1>4. CASE ~ (episode /\ status = "none")
  <2>1. confirmed' /\ confirmed' \in BOOLEAN
    BY <1>4, Zenon DEF Prove
  <2>2. stopper' = "ok" /\ cleanup' = "running" /\ found' \in Results \cup {"none"}
    BY <1>4 DEF Prove
  <2>3. agent = {}
    BY <1>4
  <2> QED BY <1>1, <1>2, <2>1, <2>2, <2>3 DEF WorkloadTypeOK, GroupTypeOK, GroupInv, Results
<1> QED BY <1>3, <1>4

LEMMA GroupStep ==
  ASSUME provider \in Providers \ {"daytona"}, WorkloadTypeOK, GroupTypeOK, GroupInv,
         GroupNext, UNCHANGED cgroupVars
  PROVE  /\ WorkloadTypeOK' /\ GroupTypeOK' /\ GroupInv' /\ provider' = provider
         /\ confirmed => confirmed'
         /\ Returned => Returned'
<1> USE WorkloadAssumption
    DEF WorkloadTypeOK, GroupTypeOK, GroupInv, Results, Returned, cgroupVars
<1>1. CASE Publish
  BY <1>1 DEF Publish, Inside, callerVars, hostVars, agentVars
<1>2. CASE Prepare
  BY <1>2 DEF Prepare, Inside, callerVars, hostVars, agentVars
<1>3. CASE Spawn
  BY <1>3 DEF Spawn, Inside, callerVars, hostVars
<1>4. CASE SpawnFails
  BY <1>4 DEF SpawnFails, Fault, Inside, callerVars, hostVars, agentVars
<1>5. CASE Listen
  <2> HIDE DEF WorkloadTypeOK, GroupTypeOK, GroupInv, Returned
  <2>1. ~ listener' /\ listener' \in BOOLEAN /\ listener
    BY <1>5, Zenon DEF Listen
  <2>2. /\ leader' = "dead" /\ agent' = {} /\ ended' \in {ended, "killed"}
        /\ UNCHANGED <<provider, callerVars, episode, hostVars, pgid, status, request, faults>>
    BY <1>5 DEF Listen, SigKill, Inside
  <2> QED BY <2>1, <2>2 DEF callerVars, hostVars, WorkloadTypeOK, GroupTypeOK, GroupInv, Returned
<1>6. CASE Interrupt
  BY <1>6 DEF Interrupt, SigKill, Inside, callerVars, hostVars
<1>7. CASE NoticeExit
  BY <1>7 DEF NoticeExit, Inside, callerVars, hostVars, agentVars
<1>8. CASE Drain
  BY <1>8 DEF Drain, SigKill, Inside, callerVars, hostVars
<1>9. CASE Record
  BY <1>9 DEF Record, Inside, callerVars, hostVars, agentVars
<1>10. CASE EndGroup
  <2> HIDE DEF WorkloadTypeOK, GroupTypeOK, GroupInv, Returned
  <2>1. ~ listener' /\ listener' \in BOOLEAN
    BY <1>10, Zenon DEF EndGroup
  <2>2. /\ leader = "recorded" /\ leader' = "dead" /\ ended' \in {ended, "killed"}
        /\ agent' = IF episode THEN agent ELSE {}
        /\ UNCHANGED <<provider, callerVars, episode, hostVars, pgid, status, request, faults>>
    BY <1>10 DEF EndGroup, SigKill, Inside
  <2> QED BY <2>1, <2>2 DEF callerVars, hostVars, WorkloadTypeOK, GroupTypeOK, GroupInv, Returned
<1>11. CASE Crash
  BY <1>11 DEF Crash, Fault, Inside, callerVars, hostVars, agentVars
<1>12. CASE AgentSteps
  <2>1. /\ UNCHANGED <<provider, faults, callerVars, groupVars>>
        /\ agent' \subseteq {"root", "helper"} /\ ended' \in {ended, "own"}
        /\ agent = {} => agent' = {}
        /\ "root" \notin agent => "root" \notin agent'
    BY <1>12 DEF AgentSteps, Fork, RootExits, HelperExits
  <2> QED BY <2>1 DEF callerVars, groupVars, ownerVars, hostVars
<1>13. CASE Launch
  BY <1>13 DEF Launch, callerVars, agentVars
<1>14. CASE LaunchFails
  BY <1>14 DEF LaunchFails, Fault, agentVars
<1>15. CASE WatchEnds
  BY <1>15 DEF WatchEnds, callerVars, Outside, agentVars
<1>16. CASE WatchFails
  BY <1>16 DEF WatchFails, Fault, Outside, agentVars
<1>17. CASE ReadFails
  BY <1>17 DEF ReadFails, Fault, callerVars, Outside, agentVars
<1>18. CASE EnsureStopped
  BY <1>18 DEF EnsureStopped, callerVars, Outside, agentVars
<1>19. CASE Ask
  <2> HIDE DEF WorkloadTypeOK, GroupTypeOK, GroupInv, Returned
  <2>1. CASE pgid /\ InGroup
    <3>1. request' \in BOOLEAN
      BY <1>19, <2>1, Zenon DEF Ask
    <3>2. /\ stopper' = "polling"
          /\ UNCHANGED <<provider, agent, ended, confirmed, waiting, killing, faults, episode, leader,
                         listener, pgid, status, launch, watch, torn, found, cleanup>>
      BY <1>19, <2>1 DEF Ask, Outside, agentVars
    <3> QED BY <2>1, <3>1, <3>2 DEF WorkloadTypeOK, GroupTypeOK, GroupInv, Returned
  <2>2. CASE ~ pgid
    BY <1>19, <2>2 DEF Ask, Outside, agentVars, WorkloadTypeOK, GroupTypeOK, GroupInv, Returned
  <2>3. CASE pgid /\ ~ InGroup
    <3>1. Prove(status) /\ UNCHANGED <<request, waiting, killing, faults, launch, watch, torn>> /\ Outside
      BY <1>19, <2>3 DEF Ask
    <3>2. leader = "dead" /\ (~ episode \/ status # "none" => agent = {})
      BY <2>3 DEF InGroup, WorkloadTypeOK, GroupTypeOK, GroupInv, Returned
    <3> QED BY <3>1, <3>2, ProofKeeps
  <2> QED BY <2>1, <2>2, <2>3
<1>20. CASE Poll
  <2> HIDE DEF WorkloadTypeOK, GroupTypeOK, GroupInv, Returned
  <2>1. Prove(status) /\ UNCHANGED <<request, waiting, killing, faults, launch, watch, torn>> /\ Outside
    BY <1>20 DEF Poll
  <2>2. leader = "dead" /\ (~ episode \/ status # "none" => agent = {})
    BY <1>20 DEF Poll, InGroup, WorkloadTypeOK, GroupTypeOK, GroupInv, Returned
  <2> QED BY <2>1, <2>2, ProofKeeps
<1>21. CASE PollTimesOut
  BY <1>21 DEF PollTimesOut, callerVars, InGroup, Outside, agentVars
<1>22. CASE StopCallFails
  BY <1>22 DEF StopCallFails, Fault, callerVars, InGroup, Outside, agentVars
<1>23. CASE Cleanup
  BY <1>23 DEF Cleanup, callerVars, Outside, agentVars
<1>24. CASE CleanupFails
  BY <1>24 DEF CleanupFails, Fault, callerVars, Outside, agentVars
<1>25. CASE Wait
  BY <1>25 DEF Wait, hostVars, Outside, agentVars
<1>26. CASE WaitRaises
  BY <1>26 DEF WaitRaises, hostVars, Outside, agentVars
<1>27. CASE KillReturns
  BY <1>27 DEF KillReturns, hostVars, Outside, agentVars
<1>28. CASE KillRaises
  BY <1>28 DEF KillRaises, hostVars, Outside, agentVars
<1>29. CASE Kill /\ UNCHANGED groupVars
  BY <1>29 DEF Kill, groupVars, ownerVars, hostVars
<1> QED BY <1>1, <1>2, <1>3, <1>4, <1>5, <1>6, <1>7, <1>8, <1>9, <1>10, <1>11, <1>12, <1>13,
     <1>14, <1>15, <1>16, <1>17, <1>18, <1>19, <1>20, <1>21, <1>22, <1>23, <1>24, <1>25, <1>26,
     <1>27, <1>28, <1>29
  DEF GroupNext, OwnerSteps, HostSteps
-----------------------------------------------------------------------------
(* The workload in a cgroup *)

LEMMA CgroupStep ==
  ASSUME provider \in Providers, provider = "daytona", WorkloadTypeOK, Cgroup!CgroupTypeOK,
         CgroupInv, EndInv, Cgroup!CgroupNext
  PROVE  /\ WorkloadTypeOK' /\ Cgroup!CgroupTypeOK' /\ CgroupInv' /\ EndInv'
         /\ provider' = provider
         /\ confirmed => confirmed'
         /\ Returned => Returned'
<1> USE WorkloadAssumption
    DEF WorkloadTypeOK, Cgroup!CgroupTypeOK, CgroupInv, EndInv, Results, Returned,
        Cgroup!Results, Cgroup!CreationDone, callerVars
<1>1. CASE Cgroup!MakeGroup
  BY <1>1 DEF Cgroup!MakeGroup, Cgroup!taskVars, Cgroup!Rest, Cgroup!callerVars
<1>2. CASE Cgroup!MakeMarkers
  <2> HIDE DEF WorkloadTypeOK, Cgroup!CgroupTypeOK, CgroupInv, EndInv, Returned
  <2>1. requested' \in BOOLEAN /\ (requested => requested') /\ (~ stop => requested')
    BY <1>2, Zenon DEF Cgroup!MakeMarkers, Cgroup!CgroupTypeOK
  <2>2. /\ launching = "marker"
        /\ \/ launching' = "failed" /\ run' = "failed" /\ stop
           \/ launching' = "session" /\ run' = run /\ ~ stop
        /\ UNCHANGED <<provider, agent, ended, confirmed, waiting, killing, faults, owned, group,
                       session, child, shell, released, stop, finish, close>>
    BY <1>2 DEF Cgroup!MakeMarkers, Cgroup!nativeVars, Cgroup!Rest, Cgroup!Fails,
       Cgroup!callerVars
  <2> QED BY <2>1, <2>2 DEF WorkloadTypeOK, Cgroup!CgroupTypeOK, CgroupInv, EndInv, Returned
<1>3. CASE Cgroup!CreateSession
  BY <1>3 DEF Cgroup!CreateSession, Cgroup!Rest, Cgroup!callerVars, Cgroup!Fails
<1>4. CASE Cgroup!Execute
  BY <1>4 DEF Cgroup!Execute, Cgroup!taskVars, Cgroup!Rest, Cgroup!callerVars
<1>5. CASE Cgroup!Watch
  BY <1>5 DEF Cgroup!Watch, Cgroup!launchVars, Cgroup!nativeVars, Cgroup!Rest, Cgroup!callerVars
<1>6. CASE Cgroup!Observe
  BY <1>6 DEF Cgroup!Observe, Cgroup!launchVars, Cgroup!nativeVars, Cgroup!Rest,
     Cgroup!callerVars
<1>7. CASE Cgroup!StopGroup
  BY <1>7 DEF Cgroup!StopGroup, Cgroup!SigKill, Cgroup!launchVars
<1>8. CASE Cgroup!Release
  <2> HIDE DEF WorkloadTypeOK, Cgroup!CgroupTypeOK, CgroupInv, EndInv, Returned
  <2>1. released' \in BOOLEAN /\ finish = "releasing"
    BY <1>8, Zenon DEF Cgroup!Release
  <2>2. /\ finish' \in {"ok", "failed"} /\ (faults' = faults \/ Cgroup!Fault)
        /\ UNCHANGED <<provider, agent, ended, confirmed, waiting, killing, launching, owned,
                       requested, group, session, child, shell, stop, run, close>>
    BY <1>8 DEF Cgroup!Release, Cgroup!launchVars, Cgroup!Rest, Cgroup!callerVars
  <2> QED BY <2>1, <2>2 DEF Cgroup!Fault, WorkloadTypeOK, Cgroup!CgroupTypeOK, CgroupInv,
       EndInv, Returned
<1>9. CASE Cgroup!FinishCloses
  BY <1>9 DEF Cgroup!FinishCloses, Cgroup!launchVars, Cgroup!nativeVars, Cgroup!Rest,
     Cgroup!callerVars, Cgroup!EnsureClosed
<1>10. CASE Cgroup!DeleteSession
  BY <1>10 DEF Cgroup!DeleteSession, Cgroup!Fault, Cgroup!launchVars, Cgroup!Rest,
     Cgroup!callerVars
<1>11. CASE Cgroup!LookUpSession
  BY <1>11 DEF Cgroup!LookUpSession, Cgroup!Fault, Cgroup!launchVars, Cgroup!nativeVars,
     Cgroup!CloseRaises
<1>12. CASE Cgroup!Wait
  BY <1>12 DEF Cgroup!Wait, Cgroup!launchVars, Cgroup!nativeVars, Cgroup!EnsureClosed
<1>13. CASE Cgroup!KillProceeds
  BY <1>13 DEF Cgroup!KillProceeds, Cgroup!launchVars, Cgroup!nativeVars, Cgroup!EnsureClosed
<1>14. CASE Cgroup!Join
  <2> HIDE DEF WorkloadTypeOK, Cgroup!CgroupTypeOK, CgroupInv, EndInv, Returned
  <2>1. CASE group = "present"
    <3>1. /\ child = "started" /\ child' = "joined" /\ agent' = {"root"}
          /\ UNCHANGED <<provider, ended, confirmed, waiting, killing, faults, launching, owned,
                         requested, group, session, shell, released, stop, run, finish, close>>
      BY <1>14, <2>1 DEF Cgroup!Join, Cgroup!launchVars, Cgroup!taskVars, Cgroup!callerVars
    <3> QED BY <2>1, <3>1 DEF WorkloadTypeOK, Cgroup!CgroupTypeOK, CgroupInv, EndInv, Returned
  <2>2. CASE group # "present"
    <3>1. /\ child = "started" /\ child' = "gone"
          /\ UNCHANGED <<provider, agent, ended, confirmed, waiting, killing, faults, launching,
                         owned, requested, group, session, shell, released, stop, run, finish, close>>
      BY <1>14, <2>2 DEF Cgroup!Join, Cgroup!launchVars, Cgroup!taskVars, Cgroup!callerVars
    <3> QED BY <2>2, <3>1 DEF WorkloadTypeOK, Cgroup!CgroupTypeOK, CgroupInv, EndInv, Returned
  <2> QED BY <2>1, <2>2
<1>15. CASE Cgroup!ShellSteps
  BY <1>15 DEF Cgroup!ShellSteps, Cgroup!launchVars, Cgroup!taskVars, Cgroup!Rest,
     Cgroup!callerVars
<1>16. CASE Cgroup!RequestStop
  BY <1>16 DEF Cgroup!RequestStop, Cgroup!Kill, Cgroup!launchVars, Cgroup!nativeVars
<1>17. CASE Cgroup!LaunchStepFails
  BY <1>17 DEF Cgroup!LaunchStepFails, Cgroup!Fault, Cgroup!Rest, Cgroup!callerVars, Cgroup!Fails
<1>18. CASE Cgroup!StopGroupFails
  <2> HIDE DEF WorkloadTypeOK, Cgroup!CgroupTypeOK, CgroupInv, EndInv, Returned
  <2>1. /\ finish = "stopping" /\ finish' = "failed" /\ Cgroup!Fault
        /\ UNCHANGED <<provider, confirmed, waiting, killing, launching, owned, requested, session,
                       child, shell, released, stop, run, close>>
    BY <1>18 DEF Cgroup!StopGroupFails, Cgroup!launchVars, Cgroup!callerVars
  <2>2. CASE UNCHANGED <<agent, ended, group>>
    BY <2>1, <2>2 DEF Cgroup!Fault, WorkloadTypeOK, Cgroup!CgroupTypeOK, CgroupInv, EndInv,
       Returned
  <2>3. CASE Cgroup!SigKill(agent) /\ group' = "removed"
    <3>1. agent' = {} /\ ended' = IF "root" \in agent THEN "killed" ELSE ended
      BY <2>3 DEF Cgroup!SigKill
    <3> QED BY <2>1, <2>3, <3>1 DEF Cgroup!Fault, WorkloadTypeOK, Cgroup!CgroupTypeOK,
         CgroupInv, EndInv, Returned
  <2> QED BY <1>18, <2>2, <2>3 DEF Cgroup!StopGroupFails
<1>19. CASE Cgroup!SandboxLost
  BY <1>19 DEF Cgroup!SandboxLost, Cgroup!Fault, Cgroup!SigKill, Cgroup!launchVars
<1>20. CASE (Cgroup!Fork \/ Cgroup!RootExits \/ Cgroup!HelperExits) /\ UNCHANGED Cgroup!cgroupVars
  <2>1. /\ UNCHANGED <<provider, faults, confirmed, waiting, killing, launching, owned, requested,
                       group, session, child, shell, released, stop, run, finish, close>>
        /\ agent' \subseteq {"root", "helper"}
        /\ agent = {} => agent' = {}
        /\ "root" \in agent' => "root" \in agent
        /\ \/ ended' = "own"
           \/ ended' = ended /\ ("root" \in agent => "root" \in agent')
    BY <1>20 DEF Cgroup!Fork, Cgroup!RootExits, Cgroup!HelperExits, Cgroup!cgroupVars,
       Cgroup!launchVars, Cgroup!nativeVars, Cgroup!taskVars, Cgroup!callerVars
  <2> QED BY <2>1
<1> QED BY <1>1, <1>2, <1>3, <1>4, <1>5, <1>6, <1>7, <1>8, <1>9, <1>10, <1>11, <1>12, <1>13,
     <1>14, <1>15, <1>16, <1>17, <1>18, <1>19, <1>20
  DEF Cgroup!CgroupNext, Cgroup!Tasks
-----------------------------------------------------------------------------
(* The uses together *)

\* Before its first step a command keeps its invariant whatever happens to the faults.
LEMMA ReadyCommand ==
  ASSUME faults \in Nat, Command!CommandInit
  PROVE  CommandInv
<1>1. /\ ~ marked /\ ~ sawEnd
      /\ marked \in BOOLEAN /\ ambiguous \in BOOLEAN /\ owns \in BOOLEAN /\ sawEnd \in BOOLEAN
  BY Zenon DEF Command!CommandInit
<1>2. /\ host = "up" /\ program = "none" /\ runs = 0 /\ held = "no" /\ pty = "none"
      /\ wire = "none" /\ step = "ready" /\ tries = 0 /\ result = "pending" /\ spared = "no"
  BY DEF Command!CommandInit
<1> QED
  BY <1>1, <1>2, UseAssumption
  DEF CommandInv, RunInv, PtyInv, StreamInv, Excused, Early, PtySteps,
      Command!CommandTypeOK, Command!CommandIsHonest, Command!NoCommandLeft, Command!Live,
      Command!Ended

\* What a step of one part leaves alone keeps its invariant.
LEMMA OwnRest ==
  ASSUME WorkloadTypeOK, GroupTypeOK, Cgroup!CgroupTypeOK, GroupInv, CgroupInv, EndInv,
         provider' = provider, faults' \in 0 .. MaxFaults, UNCHANGED ownVars
  PROVE  /\ WorkloadTypeOK' /\ GroupTypeOK' /\ Cgroup!CgroupTypeOK'
         /\ GroupInv' /\ CgroupInv' /\ EndInv'
         /\ confirmed' = confirmed /\ Returned' = Returned
<1> USE DEF ownVars, callerVars, groupVars, ownerVars, hostVars, cgroupVars
<1>1. WorkloadTypeOK' /\ GroupTypeOK'
  BY DEF WorkloadTypeOK, GroupTypeOK
<1>2. Cgroup!CgroupTypeOK'
  BY DEF Cgroup!CgroupTypeOK
<1>3. GroupInv'
  BY DEF GroupInv
<1>4. CgroupInv' /\ EndInv'
  BY DEF CgroupInv, EndInv, Cgroup!CreationDone
<1>5. confirmed' = confirmed /\ Returned' = Returned
  BY DEF Returned
<1> QED BY <1>1, <1>2, <1>3, <1>4, <1>5

LEMMA CreationRest ==
  ASSUME CreationInv, provider' = provider, UNCHANGED creationVars
  PROVE  CreationInv'
BY DEF CreationInv, creationVars, Creation!CreationTypeOK, Creation!HandleIsGood,
       Creation!OnDaytona

LEMMA CommandRest ==
  ASSUME Command!CommandInit, UNCHANGED commandVars
  PROVE  Command!CommandInit'
BY DEF commandVars, Command!CommandInit

\* Every step keeps the invariant, a confirmation and a return.
UseKept == UseInv' /\ (confirmed => confirmed') /\ (Returned => Returned')

LEMMA CreatingStep ==
  ASSUME UseInv, Creating(Creation!CreationNext)
  PROVE  UseKept
<1>1. /\ use = "none" /\ use' = use /\ Creation!CreationNext
      /\ UNCHANGED <<ownVars, commandVars>>
  BY DEF Creating
<1>2. /\ provider \in Providers /\ provider \in AllProviders
      /\ faults \in 0 .. MaxFaults /\ MaxFaults \in Nat
      /\ WorkloadTypeOK /\ GroupTypeOK /\ Cgroup!CgroupTypeOK
  BY WorkloadAssumption DEF UseInv, UseTypeOK, TypeOK, WorkloadTypeOK
<1>3. CreationInv' /\ provider' = provider /\ OneFault
  BY <1>1, <1>2, CreationStep DEF UseInv
<1>4. faults' \in 0 .. MaxFaults /\ faults' \in Nat
  BY <1>2, <1>3 DEF OneFault
<1>5. Command!CommandInit'
  BY <1>1, CommandRest DEF UseInv
<1>6. CommandInv'
  <2>1. (faults \in Nat /\ Command!CommandInit => CommandInv)'
    BY ReadyCommand, PTL
  <2> QED BY <1>4, <1>5, <2>1
<1>7. /\ WorkloadTypeOK' /\ GroupTypeOK' /\ Cgroup!CgroupTypeOK'
      /\ GroupInv' /\ CgroupInv' /\ EndInv'
      /\ confirmed' = confirmed /\ Returned' = Returned
  BY <1>1, <1>2, <1>3, <1>4, OwnRest DEF UseInv
<1>8. UseTypeOK'
  BY <1>1, <1>3, <1>6, <1>7 DEF UseTypeOK, TypeOK, CreationInv, CommandInv
<1> QED BY <1>3, <1>5, <1>6, <1>7, <1>8 DEF UseKept, UseInv

LEMMA BeginStep ==
  ASSUME UseInv, Begin
  PROVE  UseKept
<1>1. use' \in {"command", "workload"} /\ UNCHANGED <<vars, creationVars, commandVars>>
  BY DEF Begin
<1>2. /\ provider' = provider /\ faults' = faults /\ UNCHANGED ownVars
      /\ UNCHANGED creationVars /\ UNCHANGED commandVars
  BY <1>1 DEF vars, workloadVars, ownVars, callerVars
<1>3. /\ use = "none" /\ Command!CommandInit
      /\ faults \in 0 .. MaxFaults /\ MaxFaults \in Nat
      /\ WorkloadTypeOK /\ GroupTypeOK /\ Cgroup!CgroupTypeOK
  BY WorkloadAssumption DEF Begin, UseInv, UseTypeOK, TypeOK, WorkloadTypeOK
<1>4. CreationInv'
  BY <1>2, CreationRest DEF UseInv
<1>5. Command!CommandInit'
  BY <1>2, <1>3, CommandRest
<1>6. CommandInv'
  <2>1. (faults \in Nat /\ Command!CommandInit => CommandInv)'
    BY ReadyCommand, PTL
  <2>2. faults' \in Nat
    BY <1>2, <1>3
  <2> QED BY <1>5, <2>1, <2>2
<1>7. /\ WorkloadTypeOK' /\ GroupTypeOK' /\ Cgroup!CgroupTypeOK'
      /\ GroupInv' /\ CgroupInv' /\ EndInv'
      /\ confirmed' = confirmed /\ Returned' = Returned
  BY <1>2, <1>3, OwnRest DEF UseInv
<1>8. UseTypeOK'
  BY <1>1, <1>4, <1>6, <1>7 DEF UseTypeOK, TypeOK, CreationInv, CommandInv
<1> QED BY <1>4, <1>5, <1>6, <1>7, <1>8 DEF UseKept, UseInv

LEMMA CommandingStep ==
  ASSUME UseInv, Commanding(Command!CommandNext)
  PROVE  UseKept
<1>1. /\ use = "command" /\ use' = use /\ Command!CommandNext
      /\ UNCHANGED ownVars /\ UNCHANGED creationVars
  BY DEF Commanding
<1>2. /\ provider \in Providers /\ provider \in AllProviders
      /\ faults \in 0 .. MaxFaults /\ MaxFaults \in Nat /\ faults \in Nat
      /\ WorkloadTypeOK /\ GroupTypeOK /\ Cgroup!CgroupTypeOK
  BY WorkloadAssumption DEF UseInv, UseTypeOK, TypeOK, WorkloadTypeOK
<1>3. CommandInv' /\ provider' = provider /\ OneFault
  BY <1>1, <1>2, CommandStep DEF UseInv
<1>4. faults' \in 0 .. MaxFaults
  BY <1>2, <1>3 DEF OneFault
<1>5. CreationInv'
  BY <1>1, <1>3, CreationRest DEF UseInv
<1>6. /\ WorkloadTypeOK' /\ GroupTypeOK' /\ Cgroup!CgroupTypeOK'
      /\ GroupInv' /\ CgroupInv' /\ EndInv'
      /\ confirmed' = confirmed /\ Returned' = Returned
  BY <1>1, <1>2, <1>3, <1>4, OwnRest DEF UseInv
<1>7. UseTypeOK'
  BY <1>1, <1>3, <1>5, <1>6 DEF UseTypeOK, TypeOK, CreationInv, CommandInv
<1> QED BY <1>1, <1>3, <1>5, <1>6, <1>7 DEF UseKept, UseInv

LEMMA WorkingStep ==
  ASSUME UseInv, Working(Next)
  PROVE  UseKept
<1>1. /\ use = "workload" /\ use' = use /\ Next
      /\ UNCHANGED creationVars /\ UNCHANGED commandVars
  BY DEF Working
<1>2. /\ provider \in Providers /\ MaxFaults \in Nat
      /\ WorkloadTypeOK /\ GroupTypeOK /\ Cgroup!CgroupTypeOK
      /\ CreationInv /\ GroupInv /\ CgroupInv /\ EndInv /\ Command!CommandInit
  BY <1>1, WorkloadAssumption DEF UseInv, UseTypeOK, TypeOK, WorkloadTypeOK
<1>3. /\ WorkloadTypeOK' /\ GroupTypeOK' /\ Cgroup!CgroupTypeOK'
      /\ GroupInv' /\ CgroupInv' /\ EndInv' /\ provider' = provider
      /\ (confirmed => confirmed') /\ (Returned => Returned')
  <2>1. CASE provider = "daytona" /\ Cgroup!CgroupNext /\ UNCHANGED groupVars
    <3>1. /\ WorkloadTypeOK' /\ Cgroup!CgroupTypeOK' /\ CgroupInv' /\ EndInv'
          /\ provider' = provider
          /\ (confirmed => confirmed') /\ (Returned => Returned')
      BY <1>2, <2>1, CgroupStep
    <3>2. GroupTypeOK'
      BY <1>2, <2>1 DEF GroupTypeOK, groupVars, ownerVars, hostVars
    <3>3. GroupInv'
      BY <2>1, <3>1 DEF GroupInv
    <3> QED BY <3>1, <3>2, <3>3
  <2>2. CASE provider # "daytona" /\ GroupNext /\ UNCHANGED cgroupVars
    <3>1. /\ WorkloadTypeOK' /\ GroupTypeOK' /\ GroupInv' /\ provider' = provider
          /\ (confirmed => confirmed') /\ (Returned => Returned')
      BY <1>2, <2>2, GroupStep
    <3>2. Cgroup!CgroupTypeOK'
      BY <1>2, <2>2 DEF Cgroup!CgroupTypeOK, cgroupVars
    <3>3. CgroupInv' /\ EndInv'
      BY <2>2, <3>1 DEF CgroupInv, EndInv
    <3> QED BY <3>1, <3>2, <3>3
  <2> QED BY <1>1, <2>1, <2>2 DEF Next
<1>4. CreationInv' /\ Command!CommandInit'
  BY <1>1, <1>2, <1>3, CreationRest, CommandRest
<1>5. CommandInv'
  <2>1. (faults \in Nat /\ Command!CommandInit => CommandInv)'
    BY ReadyCommand, PTL
  <2>2. faults' \in Nat
    BY <1>2, <1>3 DEF WorkloadTypeOK
  <2> QED BY <1>4, <2>1, <2>2
<1>6. UseTypeOK'
  BY <1>1, <1>3, <1>4, <1>5 DEF UseTypeOK, TypeOK, CreationInv, CommandInv
<1> QED BY <1>3, <1>4, <1>5, <1>6 DEF UseKept, UseInv

LEMMA IdleStep ==
  ASSUME UseInv, UNCHANGED useVars
  PROVE  UseKept
<1>1. /\ provider' = provider /\ faults' = faults /\ use' = use
      /\ UNCHANGED ownVars /\ UNCHANGED creationVars /\ UNCHANGED commandVars
  BY DEF useVars, vars, workloadVars, ownVars, callerVars
<1>2. /\ WorkloadTypeOK /\ GroupTypeOK /\ Cgroup!CgroupTypeOK
      /\ faults \in 0 .. MaxFaults
      /\ CreationInv /\ CommandInv /\ GroupInv /\ CgroupInv /\ EndInv
  BY DEF UseInv, UseTypeOK, TypeOK, WorkloadTypeOK
<1>3. CreationInv'
  BY <1>1, <1>2, CreationRest
<1>4. CommandInv'
  BY <1>1, <1>2
  DEF commandVars, CommandInv, RunInv, PtyInv, StreamInv, Excused, Early, PtySteps,
      Command!CommandTypeOK, Command!CommandIsHonest, Command!NoCommandLeft, Command!Live,
      Command!Ended
<1>5. use' # "command" => Command!CommandInit'
  BY <1>1, CommandRest DEF UseInv
<1>6. /\ WorkloadTypeOK' /\ GroupTypeOK' /\ Cgroup!CgroupTypeOK'
      /\ GroupInv' /\ CgroupInv' /\ EndInv'
      /\ confirmed' = confirmed /\ Returned' = Returned
  BY <1>1, <1>2, OwnRest
<1>7. UseTypeOK'
  BY <1>1, <1>3, <1>4, <1>6 DEF UseInv, UseTypeOK, TypeOK, CreationInv, CommandInv
<1> QED BY <1>3, <1>4, <1>5, <1>6, <1>7 DEF UseKept, UseInv

LEMMA UseStep == UseInv /\ [UseNext]_useVars => UseKept
BY CreatingStep, BeginStep, CommandingStep, WorkingStep, IdleStep DEF UseNext

LEMMA UseStarts == UseInit => UseInv
<1> SUFFICES ASSUME UseInit PROVE UseInv
  OBVIOUS
<1>1. /\ use = "none" /\ WorkloadInit /\ GroupInit /\ Cgroup!CgroupInit
      /\ Creation!CreationInit /\ Command!CommandInit
  BY DEF UseInit, Init
<1>2. WorkloadTypeOK /\ GroupTypeOK
  <2>1. /\ confirmed \in BOOLEAN /\ episode \in BOOLEAN /\ listener \in BOOLEAN
        /\ pgid \in BOOLEAN /\ request \in BOOLEAN /\ torn \in BOOLEAN
    BY <1>1, Zenon DEF WorkloadInit, GroupInit
  <2>2. WorkloadTypeOK
    BY <1>1, <2>1, WorkloadAssumption DEF WorkloadInit, WorkloadTypeOK, Results
  <2>3. GroupTypeOK
    BY <1>1, <2>1 DEF GroupInit, GroupTypeOK, Results
  <2> QED BY <2>2, <2>3
<1>3. Cgroup!CgroupTypeOK
  BY <1>1 DEF Cgroup!CgroupInit, Cgroup!CgroupTypeOK
<1>4. GroupInv
  BY <1>1 DEF WorkloadInit, GroupInit, Cgroup!CgroupInit, GroupInv, Results
<1>5. CgroupInv /\ EndInv
  BY <1>1 DEF WorkloadInit, Cgroup!CgroupInit, CgroupInv, EndInv, Results, Cgroup!CreationDone
<1>6. CreationInv
  <2>1. late \in BOOLEAN /\ announced \in BOOLEAN
    BY <1>1, Zenon DEF Creation!CreationInit
  <2>2. /\ box = "none" /\ creation = "none" /\ call = "none" /\ attempt = 0
        /\ outcome = "pending" /\ cause = "none" /\ reclaim = "none" /\ client = "open"
    BY <1>1 DEF Creation!CreationInit
  <2> QED BY <2>1, <2>2, UseAssumption DEF CreationInv, Creation!CreationTypeOK,
       Creation!HandleIsGood
<1>7. CommandInv
  BY <1>1, ReadyCommand DEF WorkloadInit
<1>8. UseTypeOK
  BY <1>1, <1>2, <1>3, <1>6, <1>7 DEF UseTypeOK, TypeOK, CreationInv, CommandInv
<1> QED BY <1>1, <1>4, <1>5, <1>6, <1>7, <1>8 DEF UseInv

LEMMA UseInvHolds == UseSpec => []UseInv
<1>1. UseInv /\ [UseNext]_useVars => UseInv'
  BY UseStep DEF UseKept
<1> QED BY <1>1, UseStarts, PTL DEF UseSpec

\* Every value of the creation, the command and the workload is well typed, for any
\* providers, faults and attempts.
THEOREM UseTyped == UseSpec => []UseTypeOK
<1>1. UseInv => UseTypeOK
  BY DEF UseInv
<1> QED BY <1>1, UseInvHolds, PTL

\* A caller gets only a sandbox that was announced (Daytona) and that the call has
\* neither deleted nor seen fail, whatever answers were lost: create_sandbox.
THEOREM GoodHandles == UseSpec => []HandleIsGood
<1>1. UseInv => HandleIsGood
  BY DEF UseInv, CreationInv, HandleIsGood
<1> QED BY <1>1, UseInvHolds, PTL

\* A command runs at most once.  Its status is its own, but for a killed command whose
\* sandbox answered every question as running; dropped connections alone make no error
\* of it, until they have used up the reconnections: Sandbox.command.
THEOREM HonestCommands == UseSpec => []CommandIsHonest
<1>1. UseInv => CommandIsHonest
  BY DEF UseInv, CommandInv, CommandIsHonest
<1> QED BY <1>1, UseInvHolds, PTL

\* No command outlives its call, but where Modal or a failed cleanup leaves it.
THEOREM CommandsEnd == UseSpec => []NoCommandLeft
<1>1. UseInv => NoCommandLeft
  BY DEF UseInv, CommandInv, NoCommandLeft
<1> QED BY <1>1, UseInvHolds, PTL
-----------------------------------------------------------------------------
(* The workload's promise *)

\* What the invariant says of WorkloadContract's variables.
LEMMA Promised ==
  ASSUME UseInv
  PROVE  /\ confirmed \in BOOLEAN
         /\ confirmed => agent = {}
         /\ Returned => confirmed /\ session # "present"
<1>1. confirmed \in BOOLEAN /\ GroupInv /\ CgroupInv
  BY DEF UseInv, UseTypeOK, TypeOK, WorkloadTypeOK
<1>2. CASE provider = "daytona"
  BY <1>1, <1>2 DEF CgroupInv, Returned
<1>3. CASE provider # "daytona"
  BY <1>1, <1>3 DEF GroupInv, Returned
<1> QED BY <1>2, <1>3

PromiseVars == <<agent # {}, confirmed, session = "present", Returned>>

LEMMA PromiseStep ==
  ASSUME UseInv, [UseNext]_useVars
  PROVE  [(Promise!Work \/ Promise!Absence) /\ Promise!Calls]_PromiseVars
<1>1. UseInv' /\ (confirmed => confirmed') /\ (Returned => Returned')
  BY UseStep DEF UseKept
<1>2. /\ confirmed \in BOOLEAN /\ confirmed' \in BOOLEAN
      /\ confirmed' => agent' = {}
      /\ Returned' => confirmed' /\ session' # "present"
  <2>1. (UseInv => /\ confirmed \in BOOLEAN
                   /\ confirmed => agent = {}
                   /\ Returned => confirmed /\ session # "present")'
    BY Promised, PTL
  <2> QED BY <1>1, <2>1, Promised
<1>3. Promise!Calls
  BY <1>1, <1>2 DEF Promise!Calls, Returned
<1>4. CASE confirmed'
  BY <1>2, <1>3, <1>4 DEF Promise!Absence
<1>5. CASE ~ confirmed'
  BY <1>1, <1>2, <1>3, <1>5 DEF Promise!Work
<1> QED BY <1>4, <1>5

LEMMA PromiseStarts == UseInit => Promise!ContractInit
<1> SUFFICES ASSUME UseInit PROVE Promise!ContractInit
  OBVIOUS
<1>1. agent = {} /\ confirmed = FALSE /\ session = "none" /\ waiting = "pending" /\ killing = "none"
  BY DEF UseInit, Init, WorkloadInit, Cgroup!CgroupInit
<1> QED BY <1>1 DEF Promise!ContractInit, Results

\* Process group or cgroup, and whatever was killed, lost or still on its way: absence
\* that was confirmed is real and final, and a wait or kill that returned left neither
\* a process nor a session behind.
THEOREM WorkloadsKeepPromise == UseSpec => ImplementsContract
<1>1. UseInv /\ [UseNext]_useVars
        => [(Promise!Work \/ Promise!Absence) /\ Promise!Calls]_PromiseVars
  BY PromiseStep
<1> QED BY <1>1, UseInvHolds, PromiseStarts, PTL
  DEF UseSpec, ImplementsContract, Promise!Contract, PromiseVars, Returned
=============================================================================
