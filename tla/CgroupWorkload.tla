---------------------------- MODULE CgroupWorkload ----------------------------
(***************************************************************************)
(* Controlled workloads on Daytona (daytona._DaytonaControlledWorkload): a *)
(* command of a native session whose child moves itself into a cgroup of   *)
(* its own.  Three tasks share the work: one launches and then watches the *)
(* command, one waits for its end or a stop and removes the cgroup, one    *)
(* closes the session and is started again after a failure.                *)
(*                                                                         *)
(* A call that fails may have had its effect or not, but has it before the *)
(* failure is seen, never later.                                           *)
(***************************************************************************)
EXTENDS Workload

VARIABLES
  launching,   \* _launch: the call it makes next; done, or failed
  group,       \* the cgroup's directory
  owned,       \* _group_created
  session,     \* the native session; lost with the sandbox
  requested,   \* _session_requested
  child,       \* the command's child: started outside the cgroup, joined, gone
  shell,       \* the session command: waiting for its child, marked (complete
               \* marker written), ended; killed with the session
  released,    \* the release file
  stop,        \* _stop_requested
  run,         \* _run_task
  finish,      \* _finish_task
  close        \* _close_task; "ok" is _closed

launchVars == <<launching, owned, requested>>
nativeVars == <<group, session, child, shell, released>>
taskVars == <<stop, run, finish, close>>
cgroupVars == <<launchVars, nativeVars, taskVars>>

CgroupTypeOK ==
  /\ launching \in {"group", "marker", "session", "command", "done", "failed"}
  /\ group \in {"absent", "present", "removed"}
  /\ owned \in BOOLEAN /\ requested \in BOOLEAN /\ released \in BOOLEAN /\ stop \in BOOLEAN
  /\ session \in {"none", "present", "absent", "lost"}
  /\ child \in {"none", "started", "joined", "gone"}
  /\ shell \in {"none", "waiting", "marked", "ended", "killed"}
  /\ run \in {"running", "exited", "failed"}
  /\ finish \in {"observing", "stopping", "releasing", "closing", "awaiting", "ok", "failed"}
  /\ close \in {"none", "waiting", "checking", "ok", "failed"}

CgroupInit ==
  /\ launching = "group" /\ group = "absent" /\ owned = FALSE
  /\ session = "none" /\ requested = FALSE
  /\ child = "none" /\ shell = "none" /\ released = FALSE
  /\ stop = FALSE /\ run = "running" /\ finish = "observing" /\ close = "none"

CreationDone == launching \in {"done", "failed"}
Rest == UNCHANGED <<provider, agent, ended, callerVars>>
-----------------------------------------------------------------------------
(* _launch.  After every call but the first a stop is looked at. *)

Fails == launching' = "failed" /\ run' = "failed"

MakeGroup ==
  /\ launching = "group"
  /\ group' = "present" /\ owned' = TRUE /\ launching' = "marker"
  /\ Rest /\ UNCHANGED <<faults, requested, session, child, shell, released, taskVars>>

MakeMarkers ==
  /\ launching = "marker"
  /\ IF stop THEN Fails /\ UNCHANGED requested
             ELSE launching' = "session" /\ requested' = TRUE /\ UNCHANGED run
  /\ Rest /\ UNCHANGED <<faults, owned, nativeVars, stop, finish, close>>

CreateSession ==
  /\ launching = "session"
  /\ session' = "present"
  /\ IF stop THEN Fails ELSE launching' = "command" /\ UNCHANGED run
  /\ Rest /\ UNCHANGED <<faults, owned, requested, group, child, shell, released, stop,
                         finish, close>>

Execute ==
  /\ launching = "command"
  /\ child' = "started" /\ shell' = "waiting" /\ launching' = "done"
  /\ Rest /\ UNCHANGED <<faults, owned, requested, group, session, released, taskVars>>

\* A call of the launch fails, with or without its effect; none is repeated but
\* the idempotent ones inside the control call.
LaunchStepFails ==
  /\ launching \notin {"done", "failed"} /\ Fault
  /\ Fails
  /\ group' \in {group, IF launching = "group" THEN "present" ELSE group}
  /\ session' \in {session, IF launching = "session" THEN "present" ELSE session}
  /\ \/ UNCHANGED <<child, shell>>
     \/ launching = "command" /\ child' = "started" /\ shell' = "waiting"
  /\ Rest /\ UNCHANGED <<owned, requested, released, stop, finish, close>>
-----------------------------------------------------------------------------
(* The session command in the sandbox *)

\* echo $$ > cgroup.procs || exit 1: without the cgroup the agent never starts.
Join ==
  /\ child = "started"
  /\ IF group = "present" THEN child' = "joined" /\ agent' = {"root"}
                          ELSE child' = "gone" /\ UNCHANGED agent
  /\ UNCHANGED <<provider, ended, callerVars, faults, launchVars, group, session, shell,
                 released, taskVars>>

\* The shell outside the cgroup waits for its child, marks and waits for release.
ShellSteps ==
  /\ \/ shell = "waiting" /\ shell' = "marked"
        /\ child \in {"joined", "gone"} /\ "root" \notin agent
     \/ shell = "marked" /\ released /\ shell' = "ended"
  /\ Rest /\ UNCHANGED <<faults, launchVars, group, session, child, released, taskVars>>

\* The sandbox stops or is removed: everything in it ends, every call fails.
SandboxLost ==
  /\ session # "lost" /\ launching = "done" /\ Fault
  /\ SigKill(agent)
  /\ run' = IF run = "running" THEN "failed" ELSE run
  /\ finish' = IF finish = "ok" THEN "ok" ELSE "failed"
  /\ close' = IF close = "ok" THEN "ok" ELSE "failed"
  /\ group' = "removed" /\ session' = "lost" /\ child' = "gone" /\ shell' = "killed"
  /\ waiting' = IF waiting \in Results THEN waiting ELSE "error"
  /\ killing' = IF killing \in {"called", "closing"} THEN "error" ELSE killing
  /\ UNCHANGED <<provider, confirmed, launchVars, released, stop>>
-----------------------------------------------------------------------------
(* _run after the launch: the watcher *)

Watch ==
  /\ launching = "done" /\ run = "running"
  /\ \/ close # "ok" /\ shell = "ended" /\ session = "present" /\ run' = "exited"
     \/ close = "ok" /\ run' = "failed"
  /\ Rest /\ UNCHANGED <<faults, launchVars, nativeVars, stop, finish, close>>
-----------------------------------------------------------------------------
(* _finish: the end of the command or a stop, the cgroup, then the session *)

Observe ==
  /\ finish = "observing"
  /\ IF owned THEN /\ stop \/ run # "running" \/ shell \in {"marked", "ended"}
                   /\ finish' = "stopping"
              ELSE /\ run # "running"
                   /\ finish' = "failed"
  /\ Rest /\ UNCHANGED <<faults, launchVars, nativeVars, stop, run, close>>

\* Mutant: the cgroup is killed and left in place.
StopGroupInPlace ==
  /\ finish = "stopping"
  /\ SigKill(agent) /\ group' = group
  /\ confirmed' = TRUE
  /\ finish' = IF stop \/ run # "running" THEN "closing" ELSE "releasing"
  /\ UNCHANGED <<provider, waiting, killing, faults, launchVars, session, child, shell,
                 released, stop, run, close>>

\* cgroup.kill and rmdir: who has not joined yet never will.
StopGroup ==
  /\ finish = "stopping"
  /\ SigKill(agent) /\ group' = "removed"
  /\ confirmed' = TRUE
  /\ finish' = IF stop \/ run # "running" THEN "closing" ELSE "releasing"
  /\ UNCHANGED <<provider, waiting, killing, faults, launchVars, session, child, shell,
                 released, stop, run, close>>

StopGroupFails ==
  /\ finish = "stopping" /\ Fault
  /\ \/ SigKill(agent) /\ group' = "removed"
     \/ UNCHANGED <<agent, ended, group>>
  /\ finish' = "failed"
  /\ UNCHANGED <<provider, callerVars, launchVars, session, child, shell, released, stop,
                 run, close>>

Release ==
  /\ finish = "releasing"
  /\ \/ released' = TRUE /\ finish' = "ok" /\ UNCHANGED faults
     \/ Fault /\ released' \in BOOLEAN /\ finish' = "failed"
  /\ Rest /\ UNCHANGED <<launchVars, group, session, child, shell, stop, run, close>>
-----------------------------------------------------------------------------
(* _ensure_closed and _close: one close task, a new one after a failure *)

EnsureClosed == close' = IF close \in {"none", "failed"} THEN "waiting" ELSE close

FinishCloses ==
  /\ \/ finish = "closing" /\ EnsureClosed /\ finish' = "awaiting"
     \/ finish = "awaiting" /\ close = "ok" /\ finish' = "ok" /\ UNCHANGED close
  /\ Rest /\ UNCHANGED <<faults, launchVars, nativeVars, stop, run>>

\* Who awaits the failed task gets its error.
CloseRaises ==
  /\ close' = "failed"
  /\ finish' = IF finish = "awaiting" THEN "failed" ELSE finish
  /\ waiting' = IF waiting = "closing" THEN "error" ELSE waiting
  /\ killing' = IF killing = "closing" THEN "error" ELSE killing

\* Mutant: a delete whose reply was lost counts as done.
TrustDelete ==
  /\ close = "waiting" /\ CreationDone /\ session # "lost"
  /\ close' = "ok"
  /\ \/ ~ requested /\ UNCHANGED <<session, shell, faults>>
     \/ requested /\ session' = "absent" /\ UNCHANGED <<shell, faults>>
     \/ requested /\ Fault /\ UNCHANGED <<session, shell>>
  /\ Rest /\ UNCHANGED <<launchVars, group, child, released, stop, run, finish>>

\* The session is deleted, and its shell with it, or the reply is lost; a child
\* that runs outside the session's shell is left alone.
DeleteSession ==
  /\ close = "waiting" /\ CreationDone /\ session # "lost"
  /\ \/ ~ requested /\ close' = "ok" /\ UNCHANGED <<session, shell, faults>>
     \/ /\ requested /\ close' = "checking" /\ session' = "absent"
        /\ shell' = IF shell = "none" THEN "none" ELSE "killed"
        /\ UNCHANGED faults
     \/ requested /\ close' = "checking" /\ Fault /\ UNCHANGED <<session, shell>>
  /\ Rest /\ UNCHANGED <<launchVars, group, child, released, stop, run, finish>>

\* Only the lookup decides.
LookUpSession ==
  /\ \/ close = "checking" /\ session \in {"none", "absent"} /\ close' = "ok"
        /\ UNCHANGED <<finish, waiting, killing, faults>>
     \/ close = "checking" /\ session = "present" /\ CloseRaises /\ UNCHANGED faults
     \/ close = "checking" /\ Fault /\ CloseRaises
     \/ close = "waiting" /\ session = "lost" /\ CloseRaises /\ UNCHANGED faults
  /\ UNCHANGED <<provider, agent, ended, confirmed, launchVars, nativeVars, stop, run>>
-----------------------------------------------------------------------------
(* The caller *)

Wait ==
  /\ \/ /\ waiting = "pending"
        /\ \/ finish = "failed"
           \/ finish = "ok" /\ run = "failed"
        /\ waiting' = "error" /\ UNCHANGED close
     \/ waiting = "pending" /\ finish = "ok" /\ run = "exited"
        /\ waiting' = "closing" /\ EnsureClosed
     \/ waiting = "closing" /\ close = "ok"
        /\ waiting' = ended /\ UNCHANGED close
  /\ UNCHANGED <<provider, agent, ended, confirmed, killing, faults, launchVars, nativeVars,
                 stop, run, finish>>

RequestStop == Kill /\ stop' = TRUE
               /\ UNCHANGED <<launchVars, nativeVars, run, finish, close>>

\* kill forgives a failed _finish if the cgroup was seen gone, and closes again.
KillProceeds ==
  /\ \/ killing = "called" /\ finish = "failed" /\ ~ confirmed
        /\ killing' = "error" /\ UNCHANGED close
     \/ /\ killing = "called"
        /\ \/ finish = "ok"
           \/ finish = "failed" /\ confirmed
        /\ killing' = "closing" /\ EnsureClosed
     \/ killing = "closing" /\ close = "ok"
        /\ killing' = "ok" /\ UNCHANGED close
  /\ UNCHANGED <<provider, agent, ended, confirmed, waiting, faults, launchVars, nativeVars,
                 stop, run, finish>>

Tasks == \/ MakeGroup \/ MakeMarkers \/ CreateSession \/ Execute
         \/ Watch \/ Observe \/ StopGroup \/ Release
         \/ FinishCloses \/ DeleteSession \/ LookUpSession \/ Wait \/ KillProceeds

CgroupNext ==
  \/ (Fork \/ RootExits \/ HelperExits) /\ UNCHANGED cgroupVars
  \/ Tasks \/ Join \/ ShellSteps \/ RequestStop
  \/ LaunchStepFails \/ StopGroupFails \/ SandboxLost

=============================================================================
