---------------------------- MODULE SandboxCommand ----------------------------
(***************************************************************************)
(* One call of Sandbox.command, seen from both ends.  Daytona types the    *)
(* command into a PTY, whose shell leaves the status in a file, and        *)
(* rejoins the PTY when the connection ends without one.  Modal executes   *)
(* it and streams its output.  Docker executes it in a session of its own, *)
(* whose id is in a pid file.                                              *)
(***************************************************************************)
EXTENDS Naturals

CONSTANTS
  MaxFaults,   \* bound: calls, shells and sandboxes that fail
  MaxAttempts  \* bound: attempts of a retried call, reconnections (6 and 30), and
               \* questions whether the sandbox has stopped (Docker 10, Modal 6)

VARIABLES
  provider, faults,
  host,        \* the sandbox; stopping: its processes are killed, it reads as running
  program,     \* the command; unmarked: in Docker, before its pid file
  runs,        \* how often it was started
  held,        \* a process it left keeps the output open, and may write to it
  pty,         \* Daytona's PTY session
  marked,      \* Daytona's status file
  wire,        \* the connection to the PTY; broken: it ended with an exit code
  step,        \* where the call is
  tries,       \* attempts of the creation or the start, then reconnections or questions
  ambiguous,   \* saw_ambiguous_create
  owns,        \* owns_session
  sawEnd,      \* the wait on the PTY, or on Modal's process, was seen to be over
  result,      \* what the call came to
  spared       \* the cleanup could not stop the command

sandboxVars == <<host, program, runs, held, pty, marked>>
callVars == <<wire, step, tries, ambiguous, owns, sawEnd, result, spared>>
commandVars == <<sandboxVars, callVars>>

Live == {"unmarked", "running"}
Ended == {"success", "failure", "killed"}

CommandTypeOK ==
  /\ host \in {"up", "stopping", "down"}
  /\ program \in Live \cup Ended \cup {"none"}
  /\ runs \in 0 .. MaxAttempts + 1
  /\ held \in {"no", "silent", "chatty"}
  /\ pty \in {"none", "open", "closed"} /\ wire \in {"none", "attached", "ended", "broken"}
  /\ step \in {"ready", "starting", "describing", "connecting", "typing", "polling", "probing",
               "joining", "reading", "streaming", "checking", "cleaning", "done"}
  /\ tries \in 0 .. MaxAttempts
  /\ marked \in BOOLEAN /\ ambiguous \in BOOLEAN /\ owns \in BOOLEAN /\ sawEnd \in BOOLEAN
  /\ result \in {"pending", "ok", "exit", "timeout", "lost", "error", "unjoined", "cancelled"}
  /\ spared \in {"no", "failed", "unmarked"}

CommandInit ==
  /\ host = "up" /\ program = "none" /\ runs = 0 /\ held = "no"
  /\ pty = "none" /\ marked = FALSE /\ wire = "none"
  /\ step = "ready" /\ tries = 0 /\ ambiguous = FALSE /\ owns = FALSE /\ sawEnd = FALSE
  /\ result = "pending" /\ spared = "no"

Fails == faults < MaxFaults /\ faults' = faults + 1
Same == UNCHANGED <<provider, faults>>
Quiet == UNCHANGED callVars /\ Same

\* The call goes on; it ends, through its finally blocks.
GoTo(next) == step' = next /\ UNCHANGED <<result, spared>>
Finish(how) == step' = "cleaning" /\ result' = how /\ UNCHANGED spared

\* The command is started.
Run(state) == program' = state /\ runs' = runs + 1 /\ UNCHANGED <<host, held, pty, marked>>

Begin == /\ step = "ready"
         /\ GoTo("starting") /\ tries' = 1
         /\ UNCHANGED <<sandboxVars, wire, ambiguous, owns, sawEnd>> /\ Same
-----------------------------------------------------------------------------
(* The sandbox *)

\* The script writes $$ to the pid file before it becomes the command.
MarkPid == /\ program = "unmarked"
           /\ program' = "running"
           /\ UNCHANGED <<host, runs, held, pty, marked>> /\ Quiet

Exit == /\ program = "running"
        /\ program' \in {"success", "failure"}
        /\ held' \in {"no", "silent", "chatty"}
        /\ UNCHANGED <<host, runs, pty, marked>> /\ Quiet

Release == /\ held # "no"
           /\ held' = "no"
           /\ UNCHANGED <<host, program, runs, pty, marked>> /\ Quiet

\* The PTY's shell publishes the status, then exits.
MarkStatus == /\ pty = "open" /\ program \in {"success", "failure"} /\ ~ marked
              /\ marked' = TRUE
              /\ UNCHANGED <<host, program, runs, held, pty>> /\ Quiet

ShellExits == /\ pty = "open" /\ marked
              /\ pty' = "closed"
              /\ UNCHANGED <<host, program, runs, held, marked>> /\ Quiet

ShellDies == /\ pty = "open" /\ Fails
             /\ pty' = "closed"
             /\ program' = IF program = "running" THEN "killed" ELSE program
             /\ UNCHANGED <<provider, host, runs, held, marked, callVars>>

HostStops == /\ host = "up" /\ Fails
             /\ host' = "stopping" /\ held' = "no"
             /\ program' = IF program \in Live THEN "killed" ELSE program
             /\ pty' = IF pty = "open" THEN "closed" ELSE pty
             /\ UNCHANGED <<provider, runs, marked, callVars>>

HostDown == /\ host = "stopping"
            /\ host' = "down"
            /\ UNCHANGED <<program, runs, held, pty, marked>> /\ Quiet

SandboxSteps == MarkPid \/ MarkStatus \/ ShellExits \/ HostDown
-----------------------------------------------------------------------------
(* Daytona: opening the PTY *)

Attach(next) == /\ GoTo(next) /\ wire' = "attached"
                /\ UNCHANGED <<sandboxVars, ambiguous, sawEnd>> /\ Same

OpenPty == /\ provider = "daytona" /\ step = "starting" /\ host = "up" /\ pty = "none"
           /\ pty' = "open" /\ owns' = TRUE /\ wire' = "attached"
           /\ GoTo("typing") /\ tries' = 0
           /\ UNCHANGED <<host, program, runs, held, marked, ambiguous, sawEnd>> /\ Same

\* The attempt fails, perhaps after it opened the session.  An error of Daytona's
\* that may hide this is remembered; _bounded's own timeout is not, and a rate
\* limit hides nothing.
OpenFalters ==
  /\ provider = "daytona" /\ step = "starting" /\ host = "up" /\ Fails
  /\ \/ pty' \in {pty, IF pty = "none" THEN "open" ELSE pty} /\ ambiguous' \in {ambiguous, TRUE}
     \/ UNCHANGED <<pty, ambiguous>>
  /\ IF tries < MaxAttempts THEN tries' = tries + 1 /\ GoTo(step)
                            ELSE tries' = tries /\ Finish("error")
  /\ UNCHANGED <<provider, host, program, runs, held, marked, wire, owns, sawEnd>>

\* The retry meets the session: it is this call's only after an ambiguous failure.
OpenConflicts == /\ provider = "daytona" /\ step = "starting" /\ host = "up" /\ pty # "none"
                 /\ IF ambiguous THEN GoTo("describing") ELSE Finish("error")
                 /\ UNCHANGED <<sandboxVars, wire, tries, ambiguous, owns, sawEnd>> /\ Same

\* The session's environment holds the marker of the attempt.
Describe == /\ step = "describing" /\ pty = "open"
            /\ owns' = TRUE
            /\ GoTo("connecting")
            /\ UNCHANGED <<sandboxVars, wire, tries, ambiguous, sawEnd>> /\ Same

Connect == /\ step = "connecting" /\ pty = "open"
           /\ Attach("typing") /\ tries' = 0 /\ UNCHANGED owns

\* The command is typed once; when that fails it may have arrived.
Type == /\ step = "typing" /\ host = "up"
        /\ IF pty = "open" /\ wire = "attached"
             THEN Run("running") /\ GoTo("polling")
             ELSE UNCHANGED sandboxVars /\ Finish("error")
        /\ UNCHANGED <<wire, tries, ambiguous, owns, sawEnd>> /\ Same

TypeFails == /\ step = "typing" /\ host = "up" /\ Fails
             /\ \/ pty = "open" /\ Run("running")
                \/ UNCHANGED sandboxVars
             /\ Finish("error")
             /\ UNCHANGED <<provider, wire, tries, ambiguous, owns, sawEnd>>
-----------------------------------------------------------------------------
(* Daytona: waiting for the status file *)

\* The connection drops, which is no fault: it may at any time.  Or it ends with the
\* shell, and perhaps with its exit code.
WireEnds == /\ wire = "attached"
            /\ \/ wire' = "ended"
               \/ pty = "closed" /\ ~ marked /\ wire' = "broken"
            /\ UNCHANGED <<sandboxVars, step, tries, ambiguous, owns, sawEnd, result, spared>> /\ Same

WireCloses == pty = "closed" /\ WireEnds

\* asyncio.wait on the connection's end, thirty seconds at most.
Poll == /\ step = "polling"
        /\ sawEnd' = (wire # "attached")
        /\ GoTo("probing")
        /\ UNCHANGED <<sandboxVars, wire, tries, ambiguous, owns>> /\ Same

\* Mutant: the end of the connection without a status is the end of the call.
ProbeNoRejoin ==
  /\ step = "probing" /\ host = "up"
  /\ \/ marked /\ GoTo("reading")
     \/ ~ marked /\ ~ sawEnd /\ GoTo("polling")
     \/ ~ marked /\ sawEnd /\ Finish("error")
  /\ UNCHANGED <<sandboxVars, wire, tries, ambiguous, owns, sawEnd>> /\ Same

Probe ==
  /\ step = "probing" /\ host = "up"
  /\ \/ marked /\ GoTo("reading") /\ UNCHANGED tries
     \/ ~ marked /\ ~ sawEnd /\ GoTo("polling") /\ UNCHANGED tries
     \/ /\ ~ marked /\ sawEnd
        /\ tries' = tries + 1
        /\ IF tries' = MaxAttempts \/ wire = "broken" THEN Finish("error") ELSE GoTo("joining")
  /\ UNCHANGED <<sandboxVars, wire, ambiguous, owns, sawEnd>> /\ Same

\* The probe fails with all its retries; only a status found by a second one counts.
ProbeFails == /\ step = "probing" /\ host = "up" /\ Fails
              /\ \/ marked /\ GoTo("reading")
                 \/ Finish("error")
              /\ UNCHANGED <<provider, sandboxVars, wire, tries, ambiguous, owns, sawEnd>>

Join == /\ step = "joining" /\ pty = "open"
        /\ Attach("polling") /\ UNCHANGED <<tries, owns>>

Read == /\ step = "reading" /\ host = "up"
        /\ Finish(IF program = "success" THEN "ok" ELSE "exit")
        /\ UNCHANGED <<sandboxVars, wire, tries, ambiguous, owns, sawEnd>> /\ Same

DaytonaCalls == {"starting", "describing", "connecting", "typing", "joining", "probing", "reading"}

\* A call fails for good, or does not find the session any more.  The session that is
\* to be rejoined may have ended since the probe, with the command.
CallFails == /\ step \in {"starting", "describing", "connecting", "joining", "reading"}
             /\ host = "up"
             /\ \/ Fails
                \/ step \notin {"starting", "reading"} /\ pty # "open" /\ UNCHANGED faults
             /\ Finish(IF step = "joining" THEN "unjoined" ELSE "error")
             /\ UNCHANGED <<provider, sandboxVars, wire, tries, ambiguous, owns, sawEnd>>

\* A stopped sandbox is told from a removed one.
FindsHostGone == /\ provider = "daytona" /\ step \in DaytonaCalls /\ host # "up"
                 /\ \E how \in {"lost", "error"} : Finish(how)
                 /\ UNCHANGED <<sandboxVars, wire, tries, ambiguous, owns, sawEnd>> /\ Same

\* The session is killed and its files removed, if it is this call's.
ClosePty == /\ provider = "daytona" /\ step = "cleaning"
            /\ GoTo("done")
            /\ IF owns /\ pty = "open"
                 THEN pty' = "closed" /\ program' = IF program \in Live THEN "killed" ELSE program
                 ELSE UNCHANGED <<pty, program>>
            /\ UNCHANGED <<host, runs, held, marked, wire, tries, ambiguous, owns, sawEnd>> /\ Same

DaytonaSteps ==
  \/ OpenPty \/ OpenConflicts \/ Describe \/ Connect \/ Type \/ Poll \/ Probe \/ Join
  \/ Read \/ FindsHostGone \/ ClosePty
  \/ CallFails /\ UNCHANGED faults
-----------------------------------------------------------------------------
(* Modal and Docker *)

Start == /\ provider # "daytona" /\ step = "starting" /\ host = "up"
         /\ Run(IF provider = "docker" THEN "unmarked" ELSE "running")
         /\ GoTo("streaming") /\ tries' = 0
         /\ UNCHANGED <<wire, ambiguous, owns, sawEnd>> /\ Same

StartFindsHostGone == /\ provider # "daytona" /\ step = "starting" /\ host # "up"
                      /\ Finish(IF host = "down" THEN "lost" ELSE "error")
                      /\ UNCHANGED <<sandboxVars, wire, tries, ambiguous, owns, sawEnd>> /\ Same

\* Mutant: any connection error of Modal's start is retried.
RetryAnyStart(started) == provider = "modal" /\ tries < MaxAttempts

\* Modal's start is retried when it cannot have begun; never after a lost reply.
MayRetryStart(started) == provider = "modal" /\ tries < MaxAttempts /\ ~ started

StartFails ==
  /\ provider # "daytona" /\ step = "starting" /\ host = "up" /\ Fails
  /\ \E started \in {FALSE, provider = "modal"} :
       /\ IF started THEN Run("running") ELSE UNCHANGED sandboxVars
       /\ \/ MayRetryStart(started) /\ tries' = tries + 1 /\ GoTo(step)
          \/ Finish("error") /\ UNCHANGED tries
  /\ UNCHANGED <<provider, wire, ambiguous, owns, sawEnd>>

SeeExit == /\ provider = "modal" /\ step = "streaming" /\ program \in Ended /\ ~ sawEnd
           /\ sawEnd' = TRUE
           /\ GoTo(step)
           /\ UNCHANGED <<sandboxVars, wire, tries, ambiguous, owns>> /\ Same

\* The output ends when the last process that holds it has.
EndOfOutput == /\ step = "streaming" /\ program \in Ended /\ held = "no"
               /\ GoTo("checking")
               /\ UNCHANGED <<sandboxVars, wire, tries, ambiguous, owns, sawEnd>> /\ Same

\* Mutant: the stream waits for the end of the output.
NeverDrained == FALSE

\* Modal: ten seconds without output after the exit.
Drained == sawEnd /\ held # "chatty"

StopDraining == /\ step = "streaming" /\ Drained
                /\ GoTo("checking")
                /\ UNCHANGED <<sandboxVars, wire, tries, ambiguous, owns, sawEnd>> /\ Same

StreamFindsHostGone == /\ provider = "modal" /\ step = "streaming" /\ ~ sawEnd /\ host = "down"
                       /\ Finish("lost")
                       /\ UNCHANGED <<sandboxVars, wire, tries, ambiguous, owns, sawEnd>> /\ Same

StreamFails == /\ step \in {"streaming", "checking"} /\ Fails
               /\ Finish("error")
               /\ UNCHANGED <<provider, sandboxVars, wire, tries, ambiguous, owns, sawEnd>>

\* Docker's deadline is the host's; the others' is timeout(1) in the sandbox.
TimesOut == /\ provider = "docker" /\ step \in {"starting", "streaming"}
            /\ Finish("timeout")
            /\ UNCHANGED <<sandboxVars, wire, tries, ambiguous, owns, sawEnd>> /\ Same

\* Mutant: the exit code is believed at once.
RechecksNever == FALSE

\* Modal asks about the sandbox after any failure, Docker after a kill.
Rechecks == \/ program = "killed"
            \/ provider = "modal" /\ program = "failure"

\* A question, a fixed time after the one before.  Docker's come after 137, which may
\* also be the command's own status.
Ask == /\ step = "checking" /\ program # "success" /\ tries < MaxAttempts
       /\ \/ host = "down" /\ Finish("lost") /\ UNCHANGED tries
          \/ host # "down" /\ tries' = tries + 1 /\ GoTo(step)
       /\ UNCHANGED <<sandboxVars, wire, ambiguous, owns, sawEnd>> /\ Same

\* There is nothing to ask, or every answer was that the sandbox runs: the status is
\* taken for the command's own.
Believe == /\ step = "checking"
           /\ \/ tries = MaxAttempts
              \/ tries = 0 /\ ~ Rechecks
           /\ Finish(IF program = "success" THEN "ok" ELSE "exit")
           /\ UNCHANGED <<sandboxVars, wire, tries, ambiguous, owns, sawEnd>> /\ Same

\* Modal's process is left alone.
ModalDone == /\ provider = "modal" /\ step = "cleaning"
             /\ GoTo("done")
             /\ UNCHANGED <<sandboxVars, wire, tries, ambiguous, owns, sawEnd>> /\ Same

\* Mutant: the group is killed after a finished command, not after an unfinished one.
MustKillFinished == result \in {"ok", "exit"}

\* _cleanup_command(terminate=not finished)
MustKill == result \notin {"ok", "exit"}

\* The group is found by the pid file.
KillGroup ==
  /\ provider = "docker" /\ step = "cleaning"
  /\ step' = "done" /\ UNCHANGED result
  /\ spared' = IF MustKill /\ program = "unmarked" THEN "unmarked" ELSE spared
  /\ IF MustKill /\ program # "unmarked"
       THEN program' = (IF program = "running" THEN "killed" ELSE program) /\ held' = "no"
       ELSE UNCHANGED <<program, held>>
  /\ UNCHANGED <<host, runs, pty, marked, wire, tries, ambiguous, owns, sawEnd>> /\ Same

CleanupFails == /\ provider # "modal" /\ step = "cleaning" /\ Fails
                /\ step' = "done" /\ spared' = "failed"
                /\ UNCHANGED <<provider, sandboxVars, wire, tries, ambiguous, owns, sawEnd, result>>

ExecSteps == \/ Start \/ StartFindsHostGone \/ SeeExit \/ EndOfOutput \/ StopDraining
             \/ StreamFindsHostGone \/ Ask \/ Believe \/ ModalDone \/ KillGroup
-----------------------------------------------------------------------------
\* The caller is cancelled or closes the generator.
Cancel == /\ step \notin {"ready", "cleaning", "done"}
          /\ Finish("cancelled")
          /\ UNCHANGED <<sandboxVars, wire, tries, ambiguous, owns, sawEnd>> /\ Same

CallSteps == Begin \/ DaytonaSteps \/ ExecSteps

CommandNext ==
  \/ CallSteps
  \/ SandboxSteps
  \/ Exit \/ Release \/ ShellDies \/ HostStops \/ WireEnds
  \/ OpenFalters \/ TypeFails \/ ProbeFails \/ CallFails
  \/ StartFails \/ StreamFails \/ TimesOut \/ CleanupFails
  \/ Cancel
-----------------------------------------------------------------------------
(* Properties *)

\* The command runs at most once.  A status is the one it ended with by itself, except
\* that Docker and Modal believe a killed command's once all their questions have found
\* a stopped sandbox still running; a loss is told only of a sandbox that stopped.  A
\* call that reached its command fails only when something other than the connection
\* did, or every reconnection was used up; a failed rejoin may lose a status that is on
\* file: modal.py:277, docker.py:137, 209, daytona.py:844, 1002.
CommandIsHonest ==
  /\ runs <= 1
  /\ result = "ok" => program = "success"
  /\ result = "exit" => \/ program = "failure"
                        \/ /\ program = "killed" /\ provider # "daytona"
                           /\ tries = MaxAttempts
  /\ result = "lost" => host # "up"
  /\ result = "error" => (faults > 0 \/ runs = 0 \/ tries = MaxAttempts)
  /\ result = "unjoined" => (faults > 0 \/ marked)

\* When the call is over its command is too: Docker kills the group, Daytona the
\* session it owns, unless that fails or Docker's command had no pid file yet.
\* Modal promises nothing.
NoCommandLeft ==
  step = "done" => \/ program \notin Live
                   \/ provider = "modal"
                   \/ spared # "no"

\* A call whose command is over, or never starts, ends; Docker waits for the holders
\* of its output, Modal while they write.
CommandSettles ==
  (/\ step \notin {"ready", "done"}
   /\ program \notin Live
   /\ provider = "docker" => held = "no"
   /\ provider = "modal" => held # "chatty") ~> (step = "done" \/ program \in Live)
=============================================================================
