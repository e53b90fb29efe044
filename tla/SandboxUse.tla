------------------------------ MODULE SandboxUse ------------------------------
(***************************************************************************)
(* What a benchmark does with a sandbox: it creates one, then runs a       *)
(* command or a controlled workload in it.                                 *)
(***************************************************************************)
EXTENDS ControlledWorkload

CONSTANT MaxAttempts  \* bound: attempts of a retried provider call

ASSUME UseAssumption == MaxAttempts \in Nat \ {0}

VARIABLES box, creation, late, call, attempt, announced, outcome, cause, reclaim, client
VARIABLES host, program, runs, held, pty, marked, wire, step, tries, ambiguous, owns,
          sawEnd, result, spared
VARIABLE use  \* what the sandbox is used for

Creation == INSTANCE SandboxCreation
Command == INSTANCE SandboxCommand

creationVars == <<box, creation, late, call, attempt, announced, outcome, cause, reclaim, client>>
commandVars == <<host, program, runs, held, pty, marked, wire, step, tries, ambiguous, owns,
                 sawEnd, result, spared>>
ownVars == <<agent, ended, callerVars, groupVars, cgroupVars>>
useVars == <<vars, creationVars, commandVars, use>>

UseTypeOK == /\ TypeOK /\ Creation!CreationTypeOK /\ Command!CommandTypeOK
             /\ use \in {"none", "command", "workload"}

UseInit == Init /\ Creation!CreationInit /\ Command!CommandInit /\ use = "none"

\* A sandbox that has stopped since is of no use.  A Compose command is a command of
\* the outer sandbox.
Begin == /\ use = "none" /\ outcome = "handle" /\ box = "started"
         /\ use' \in IF provider = "compose" THEN {"workload"} ELSE {"command", "workload"}
         /\ UNCHANGED <<vars, creationVars, commandVars>>

Creating(A) == use = "none" /\ A /\ UNCHANGED <<ownVars, commandVars, use>>
Commanding(A) == use = "command" /\ A /\ UNCHANGED <<ownVars, creationVars, use>>
Working(A) == use = "workload" /\ A /\ UNCHANGED <<creationVars, commandVars, use>>

UseNext == \/ Creating(Creation!CreationNext)
           \/ Begin
           \/ Commanding(Command!CommandNext)
           \/ Working(Next)

\* The calls go on, and so do the provider's side of them, the shells, the tasks
\* and the owners.
UseSpec ==
  /\ UseInit /\ [][UseNext]_useVars
  /\ WF_useVars(Creating(Creation!CallSteps))
  /\ WF_useVars(Creating(Creation!ProviderAnswers))
  /\ WF_useVars(Commanding(Command!CallSteps))
  /\ WF_useVars(Commanding(Command!SandboxSteps))
  /\ WF_useVars(Commanding(Command!WireCloses))
  /\ WF_useVars(Working(provider = "daytona" /\ Cgroup!Tasks /\ UNCHANGED groupVars))
  /\ WF_useVars(Working(provider = "daytona" /\ Cgroup!ShellSteps /\ UNCHANGED groupVars))
  /\ WF_useVars(Working(provider # "daytona" /\ OwnerSteps /\ UNCHANGED cgroupVars))
  /\ WF_useVars(Working(provider # "daytona" /\ HostSteps /\ UNCHANGED cgroupVars))
-----------------------------------------------------------------------------
(* Properties *)

\* The sandbox a caller gets was announced (Daytona) and is none that the call
\* deleted or had seen fail: daytona.py create_sandbox.
HandleIsGood == Creation!HandleIsGood

\* The command runs at most once; a status is its own, but where a stopped sandbox read
\* as running for as long as Docker or Modal asks; a dropped connection by itself makes
\* no error of a status, but where the rejoin fails: modal.py:277, docker.py:137, 209,
\* daytona.py:844, 1002.
CommandIsHonest == Command!CommandIsHonest

\* When the call is over its command is too, but where Modal or a failed cleanup leaves
\* it: README.md on Docker's commands, daytona.py:884.
NoCommandLeft == Command!NoCommandLeft

\* A creation comes to an end, and one that fails leaves no sandbox but what
\* SandboxCreation's MayStay allows; a call whose command is over, or never starts,
\* ends; a kill confirms or raises, as KillSettles says: README.md on late Modal cleanup,
\* daytona.py:1956, docker.py:585, modal.py:315, docker.py:441.
CallsSettle == Creation!CreationSettles /\ Command!CommandSettles /\ KillSettles
=============================================================================
