-------------------------- MODULE ControlledWorkload --------------------------
(***************************************************************************)
(* A controlled workload on any of the providers: a cgroup on Daytona, a   *)
(* process group on the others, and the promise both make.                 *)
(***************************************************************************)
EXTENDS GroupWorkload

VARIABLES launching, group, owned, session, requested, child, shell, released, stop,
          run, finish, close

Cgroup == INSTANCE CgroupWorkload
Promise == INSTANCE WorkloadContract WITH
  running <- agent # {}, open <- session = "present",
  returned <- waiting \in Results \/ killing = "ok"

cgroupVars == <<launching, group, owned, session, requested, child, shell, released,
                stop, run, finish, close>>
vars == <<workloadVars, groupVars, cgroupVars>>

TypeOK == WorkloadTypeOK /\ GroupTypeOK /\ Cgroup!CgroupTypeOK

\* generation_containment: a Daytona sandbox has cgroups and needs no supervisor.
Init == /\ WorkloadInit /\ GroupInit /\ Cgroup!CgroupInit
        /\ provider = "daytona" => ~ episode

Next == \/ provider = "daytona" /\ Cgroup!CgroupNext /\ UNCHANGED groupVars
        \/ provider # "daytona" /\ GroupNext /\ UNCHANGED cgroupVars

Spec == Init /\ [][Next]_vars

\* The tasks, the owner and the sandbox's shell run on when they can.
FairSpec == /\ Spec
            /\ WF_vars(provider = "daytona" /\ Cgroup!Tasks /\ UNCHANGED groupVars)
            /\ WF_vars(provider = "daytona" /\ Cgroup!ShellSteps /\ UNCHANGED groupVars)
            /\ WF_vars(provider # "daytona" /\ OwnerSteps /\ UNCHANGED cgroupVars)
            /\ WF_vars(provider # "daytona" /\ HostSteps /\ UNCHANGED cgroupVars)
-----------------------------------------------------------------------------
(* Properties *)

\* The workload keeps WorkloadContract's promise: absence that was confirmed is
\* real and final, whatever was killed, lost or still on its way, and a wait or
\* kill that returned left nothing behind.
ImplementsContract == Promise!Contract

\* Docker's host never learns that the transport has ended, and no process group
\* was or will be published: the stop task asks for ever.
Blind == /\ provider = "docker" /\ watch \in {"failed", "cancelled"}
         /\ leader = "dead" /\ ~ pgid

\* kill comes back with the stop confirmed, or raises: on every provider and after
\* every failure, but for a Blind Docker workload.
KillSettles == (killing = "called") ~> (killing \in {"ok", "error"} \/ Blind)

\* The README's promise of kill, without the exception.
KillAnswers == (killing = "called") ~> (killing \in {"ok", "error"})
=============================================================================
