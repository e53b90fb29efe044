---------------------------- MODULE GroupWorkload ----------------------------
(***************************************************************************)
(* Controlled workloads in a process group: Docker, Modal and Compose.     *)
(* The command runs under an owner, the leader of a new process group: a   *)
(* shell for an ordinary command, a Python subreaper for an episode        *)
(* (_process_group.py, episode_supervisor.py).  The host observes the      *)
(* owner's transport and stops the group with a script of its own that it  *)
(* executes beside it.  The script finds the group by the control files:   *)
(* the pgid file, the stop FIFO, the status file.                          *)
(***************************************************************************)
EXTENDS Workload

VARIABLES
  episode,     \* the owner is the episode supervisor
  launch,      \* the call that starts the owner
  leader,      \* the owner: setup (no pgid yet), published, ready (episode: about
               \* to spawn), launched, draining (episode), recorded, dead
  listener,    \* the shell owner's FIFO listener
  pgid,        \* the pgid file exists
  status,      \* the status file
  request,     \* the FIFO holds a stop
  watch,       \* the host's task on the transport's end; cancelled: Docker only
  torn,        \* reading the output failed
  stopper,     \* the host's one stop task: asking, polling, settled
  found,       \* the status the stop script printed
  cleanup      \* the removal of the control files

ownerVars == <<episode, leader, listener, pgid, status, request>>
hostVars == <<launch, watch, torn, stopper, found, cleanup>>
groupVars == <<ownerVars, hostVars>>
agentVars == <<agent, ended>>

GroupTypeOK ==
  /\ episode \in BOOLEAN /\ listener \in BOOLEAN /\ pgid \in BOOLEAN
  /\ request \in BOOLEAN /\ torn \in BOOLEAN
  /\ launch \in {"pending", "ok", "failed"}
  /\ leader \in {"none", "setup", "published", "ready", "launched", "draining",
                 "recorded", "dead"}
  /\ status \in Results \cup {"none", "prelaunch"}
  /\ watch \in {"pending", "ended", "failed", "cancelled"}
  /\ stopper \in {"none", "asking", "polling", "ok", "failed"}
  /\ found \in Results \cup {"none"}
  /\ cleanup \in {"none", "running", "done", "failed"}

\* controlled_episode_workload and controlled_workload construct the workload,
\* whose tasks start at once.
GroupInit ==
  /\ episode \in BOOLEAN
  /\ launch = "pending" /\ leader = "none" /\ listener = FALSE
  /\ pgid = FALSE /\ status = "none" /\ request = FALSE
  /\ watch = "pending" /\ torn = FALSE
  /\ stopper = "none" /\ found = "none" /\ cleanup = "none"

\* The steps of the owner and of the agent leave the rest alone.
Inside == UNCHANGED <<provider, callerVars, episode, hostVars>>

\* The process-group table, as the stop script's alive reads it.
InGroup == \/ leader \notin {"none", "dead"}
           \/ ~ episode /\ (listener \/ agent # {})
-----------------------------------------------------------------------------
(* The owner *)

Publish ==
  /\ leader = "setup"
  /\ leader' = "published" /\ pgid' = TRUE
  /\ status' = IF episode THEN "prelaunch" ELSE "none"
  /\ Inside /\ UNCHANGED <<agentVars, listener, request, faults>>

\* The supervisor unlinks PRELAUNCH before it may spawn.
Prepare ==
  /\ episode /\ leader = "published"
  /\ leader' = "ready" /\ status' = "none"
  /\ Inside /\ UNCHANGED <<agentVars, listener, pgid, request, faults>>

Spawn ==
  /\ leader = IF episode THEN "ready" ELSE "published"
  /\ leader' = "launched" /\ agent' = {"root"} /\ listener' = ~ episode
  /\ Inside /\ UNCHANGED <<ended, pgid, status, request, faults>>

\* Popen fails: the owner reports 127, a status of the command's own.
SpawnFails ==
  /\ episode /\ leader = "ready" /\ Fault
  /\ leader' = "recorded" /\ status' = "own"
  /\ Inside /\ UNCHANGED <<agentVars, listener, pgid, request>>

\* The shell's listener reads a stop: kill -KILL 0, which spares nobody.
Listen ==
  /\ listener /\ request
  /\ SigKill(agent)
  /\ listener' = FALSE /\ leader' = "dead"
  /\ Inside /\ UNCHANGED <<pgid, status, request, faults>>

\* The supervisor sees its child's exit first, and a stop otherwise.
Interrupt ==
  /\ episode /\ leader = "launched" /\ "root" \in agent /\ request
  /\ leader' = "draining"
  /\ SigKill({"root"})
  /\ Inside /\ UNCHANGED <<listener, pgid, status, request, faults>>

NoticeExit ==
  /\ episode /\ leader = "launched" /\ "root" \notin agent
  /\ leader' = "draining"
  /\ Inside /\ UNCHANGED <<agentVars, listener, pgid, status, request, faults>>

Drain ==
  /\ leader = "draining" /\ agent # {}
  /\ SigKill(agent)
  /\ Inside /\ UNCHANGED <<leader, listener, pgid, status, request, faults>>

\* Mutant: the supervisor publishes its status before it drained.
RecordFirst ==
  /\ leader \in {"launched", "draining"} /\ "root" \notin agent
  /\ leader' = "recorded" /\ status' = ended
  /\ Inside /\ UNCHANGED <<agentVars, listener, pgid, request, faults>>

Record ==
  /\ IF episode THEN leader = "draining" /\ agent = {}
                ELSE leader = "launched" /\ "root" \notin agent
  /\ leader' = "recorded" /\ status' = ended
  /\ Inside /\ UNCHANGED <<agentVars, listener, pgid, request, faults>>

\* The owner kills its group, itself with it; an episode's children have groups
\* of their own.
EndGroup ==
  /\ leader = "recorded"
  /\ leader' = "dead" /\ listener' = FALSE
  /\ SigKill(IF episode THEN {} ELSE agent)
  /\ Inside /\ UNCHANGED <<pgid, status, request, faults>>

\* The owner fails in its preparation or dies; its processes live on.
Crash ==
  /\ leader \notin {"none", "dead"} /\ Fault
  /\ leader' = "dead"
  /\ Inside /\ UNCHANGED <<agentVars, listener, pgid, status, request>>

OwnerSteps == \/ Publish \/ Prepare \/ Spawn \/ Listen \/ Interrupt \/ NoticeExit
              \/ Drain \/ Record \/ EndGroup
AgentSteps == (Fork \/ RootExits \/ HelperExits) /\ UNCHANGED groupVars
-----------------------------------------------------------------------------
(* The host: launch, observation and stop *)

Outside == UNCHANGED <<provider, agentVars, episode, leader, listener, pgid, status>>

Launch ==
  /\ launch = "pending"
  /\ launch' = "ok" /\ leader' = "setup"
  /\ UNCHANGED <<provider, agentVars, callerVars, faults, episode, listener, pgid, status,
                 request, watch, torn, stopper, found, cleanup>>

\* The reply may be lost after the owner started; it is never started again.
LaunchFails ==
  /\ launch = "pending" /\ Fault
  /\ launch' = "failed" /\ leader' \in {"none", "setup"}
  /\ waiting' = "error"
  /\ UNCHANGED <<provider, agentVars, confirmed, killing, episode, listener, pgid, status,
                 request, watch, torn, stopper, found, cleanup>>

\* The transport's process lives as long as the owner.
WatchEnds ==
  /\ launch = "ok" /\ watch = "pending" /\ leader = "dead"
  /\ watch' = "ended"
  /\ Outside /\ UNCHANGED <<callerVars, faults, request, launch, torn, stopper, found, cleanup>>

\* Observing it fails: wait raises at once and stops nothing.
WatchFails ==
  /\ launch = "ok" /\ watch = "pending" /\ Fault
  /\ watch' = "failed"
  /\ waiting' = "error"
  /\ Outside /\ UNCHANGED <<confirmed, killing, request, launch, torn, stopper, found, cleanup>>

\* Reading the output fails: Docker gives up the watch and stops the group.  For
\* Compose the outer workload reads, and its wait fails: WatchFails.
ReadFails ==
  /\ provider # "compose" /\ launch = "ok" /\ ~ torn /\ waiting = "pending" /\ Fault
  /\ torn' = TRUE
  /\ watch' = IF provider = "docker" /\ watch = "pending" THEN "cancelled" ELSE watch
  /\ Outside /\ UNCHANGED <<callerVars, request, launch, stopper, found, cleanup>>

\* _ensure_stopped: one stop task, for the natural end and for every kill.
EnsureStopped ==
  /\ launch = "ok" /\ stopper = "none"
  /\ \/ killing = "called"
     \/ waiting = "pending" /\ watch \in {"ended", "cancelled"}
  /\ stopper' = "asking"
  /\ Outside /\ UNCHANGED <<callerVars, faults, request, launch, watch, torn, found, cleanup>>

\* Mutant: an episode without a status counts as stopped.
TrustNoStatus(statusWas) ==
  /\ confirmed' = TRUE /\ stopper' = "ok" /\ cleanup' = "running"
  /\ found' = IF statusWas \in Results THEN statusWas ELSE "none"

\* The script's proof once the group is gone.  An episode that left no status may
\* have left descendants: exit 76.
Prove(statusWas) ==
  IF episode /\ statusWas = "none"
    THEN stopper' = "failed" /\ UNCHANGED <<confirmed, found, cleanup>>
    ELSE /\ confirmed' = TRUE /\ stopper' = "ok" /\ cleanup' = "running"
         /\ found' = IF statusWas \in Results THEN statusWas ELSE "none"

\* Mutant: only a published group ends the asking.
AskUntilPublished == FALSE

\* What _stop takes for the transport's end, when no pgid was published: a task
\* that is done, but for Docker only one that found the end.
NoMarkerWillCome ==
  \/ watch = "ended"
  \/ provider # "docker" /\ watch = "failed"

\* The stop script: 75 without a pgid, and _stop asks again; a live group gets the
\* request, a dead one is proved gone.
Ask ==
  /\ stopper = "asking"
  /\ \/ pgid /\ InGroup /\ stopper' = "polling" /\ request' = TRUE
        /\ UNCHANGED <<confirmed, found, cleanup>>
     \/ pgid /\ ~ InGroup /\ Prove(status) /\ UNCHANGED request
     \/ ~ pgid /\ NoMarkerWillCome /\ stopper' = "failed"
        /\ UNCHANGED <<confirmed, found, cleanup, request>>
  /\ Outside /\ UNCHANGED <<waiting, killing, faults, launch, watch, torn>>

Poll ==
  /\ stopper = "polling" /\ ~ InGroup
  /\ Prove(status)
  /\ Outside /\ UNCHANGED <<waiting, killing, faults, request, launch, watch, torn>>

\* Twenty polls of an ordinary group, or the ten seconds Compose gives the script.
PollTimesOut ==
  /\ stopper = "polling" /\ InGroup
  /\ ~ episode \/ provider = "compose"
  /\ stopper' = "failed"
  /\ Outside /\ UNCHANGED <<callerVars, faults, request, launch, watch, torn, found, cleanup>>

\* The call that executes the script fails, the script maybe not.
StopCallFails ==
  /\ stopper \in {"asking", "polling"} /\ Fault
  /\ stopper' = "failed"
  /\ request' \in {request, request \/ (pgid /\ InGroup)}
  /\ Outside /\ UNCHANGED <<callerVars, launch, watch, torn, found, cleanup>>

\* The files are removed after the transport has ended and the output is read.
Cleanup ==
  /\ cleanup = "running"
  /\ watch # "pending"
  /\ cleanup' = "done"
  /\ Outside /\ UNCHANGED <<callerVars, faults, request, launch, watch, torn, stopper, found>>

CleanupFails ==
  /\ cleanup = "running" /\ watch # "pending" /\ Fault
  /\ cleanup' = "failed"
  /\ Outside /\ UNCHANGED <<callerVars, request, launch, watch, torn, stopper, found>>
-----------------------------------------------------------------------------
(* The caller *)

\* wait: the status the script found, or else that of the transport, which was
\* killed with the owner.
Wait ==
  /\ waiting = "pending" /\ watch = "ended" /\ stopper = "ok" /\ cleanup = "done"
  /\ ~ torn
  /\ waiting' = IF found = "none" THEN "killed" ELSE found
  /\ Outside /\ UNCHANGED <<confirmed, killing, faults, request, hostVars>>

WaitRaises ==
  /\ waiting = "pending"
  /\ \/ stopper = "failed" /\ watch \in {"ended", "cancelled"}
     \/ stopper = "ok" /\ watch \in {"ended", "cancelled"}
        /\ (cleanup = "failed" \/ torn)
  /\ waiting' = "error"
  /\ Outside /\ UNCHANGED <<confirmed, killing, faults, request, hostVars>>

\* Compose's kill also waits for its transport's result, and for the outer
\* workload's kill.
KillReturns ==
  /\ killing = "called"
  /\ stopper = "ok"
  /\ provider = "compose" => watch = "ended"
  /\ killing' = "ok"
  /\ Outside /\ UNCHANGED <<confirmed, waiting, faults, request, hostVars>>

KillRaises ==
  /\ killing = "called"
  /\ \/ launch = "failed"
     \/ stopper = "failed"
     \/ stopper = "ok" /\ provider = "compose" /\ watch = "failed"
  /\ killing' = "error"
  /\ Outside /\ UNCHANGED <<confirmed, waiting, faults, request, hostVars>>

HostSteps == \/ Launch \/ WatchEnds \/ EnsureStopped \/ Ask \/ Poll \/ Cleanup
             \/ Wait \/ WaitRaises \/ KillReturns \/ KillRaises

GroupNext ==
  \/ AgentSteps
  \/ Kill /\ UNCHANGED groupVars
  \/ OwnerSteps
  \/ SpawnFails \/ Crash
  \/ HostSteps
  \/ LaunchFails \/ WatchFails \/ ReadFails \/ PollTimesOut \/ StopCallFails \/ CleanupFails

=============================================================================
