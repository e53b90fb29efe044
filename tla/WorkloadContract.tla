--------------------------- MODULE WorkloadContract ---------------------------
(***************************************************************************)
(* The promise of types.ControlledWorkload that its caller builds on.  Once*)
(* agent_absence_confirmed_at is set it stays set, and no process of the   *)
(* agent runs then or later: charging a generation and collecting its      *)
(* output rest on it.  A wait or kill that returned confirmed the absence, *)
(* and leaves no session of the workload open.                             *)
(***************************************************************************)
VARIABLES running, confirmed, open, returned

ContractInit == ~ running /\ ~ confirmed /\ ~ open /\ ~ returned

\* The agent starts and ends processes.
Work == ~ confirmed /\ running' \in BOOLEAN /\ UNCHANGED confirmed

\* Its absence holds, now or still.
Absence == confirmed' = TRUE /\ ~ running'

\* A session is opened or closed, a call of wait or kill returns.
Calls == /\ open' \in BOOLEAN /\ returned' \in BOOLEAN
         /\ returned => returned'
         /\ returned' => confirmed' /\ ~ open'

Contract ==
  ContractInit /\ [][(Work \/ Absence) /\ Calls]_<<running, confirmed, open, returned>>
=============================================================================
