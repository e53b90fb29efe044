------------------------------- MODULE Workload -------------------------------
(***************************************************************************)
(* types.ControlledWorkload: a command of a benchmark's agent that runs in *)
(* a sandbox until it ends or its caller kills it, seen from both ends: the*)
(* agent's processes, and what the caller of wait and kill knows of them.  *)
(* CgroupWorkload and GroupWorkload say what lies between.  The caller     *)
(* waits from the start and may kill at any time, more than once.          *)
(***************************************************************************)
EXTENDS Naturals

CONSTANTS
  Providers,   \* the kinds of sandbox, among AllProviders
  MaxFaults    \* bound: provider calls, owner processes and sandboxes that fail

AllProviders == {"daytona", "docker", "modal", "compose"}

ASSUME WorkloadAssumption == Providers \subseteq AllProviders /\ MaxFaults \in Nat

VARIABLES
  provider,    \* the sandbox's kind
  agent,       \* the agent's live processes: its foreground command, a helper
  ended,       \* how the foreground command ended: by itself or killed
  confirmed,   \* agent_absence_confirmed_at is set
  waiting,     \* the wait call and its result, the agent's own status or another
  killing,     \* the kill call
  faults

callerVars == <<confirmed, waiting, killing>>
workloadVars == <<provider, agent, ended, callerVars, faults>>

Results == {"own", "killed"}

WorkloadTypeOK ==
  /\ provider \in Providers
  /\ agent \subseteq {"root", "helper"}
  /\ ended \in Results \cup {"none"}
  /\ confirmed \in BOOLEAN
  /\ waiting \in Results \cup {"pending", "closing", "error"}
  /\ killing \in {"none", "called", "closing", "ok", "error"}
  /\ faults \in 0 .. MaxFaults

WorkloadInit ==
  /\ provider \in Providers
  /\ agent = {} /\ ended = "none"
  /\ confirmed = FALSE /\ waiting = "pending" /\ killing = "none"
  /\ faults = 0

Fault == faults < MaxFaults /\ faults' = faults + 1

-----------------------------------------------------------------------------
(* The agent's processes *)

Fork == /\ agent # {}
        /\ agent' = agent \cup {"helper"}
        /\ UNCHANGED <<provider, ended, callerVars, faults>>

RootExits == /\ "root" \in agent
             /\ agent' = agent \ {"root"}
             /\ ended' = "own"
             /\ UNCHANGED <<provider, callerVars, faults>>

HelperExits == /\ "helper" \in agent
               /\ agent' = agent \ {"helper"}
               /\ UNCHANGED <<provider, ended, callerVars, faults>>

\* SIGKILL to some of them.
SigKill(processes) ==
  /\ agent' = agent \ processes
  /\ ended' = IF "root" \in agent \cap processes THEN "killed" ELSE ended

\* kill may be called again after it raised.
Kill == /\ killing \in {"none", "error"}
        /\ killing' = "called"
        /\ UNCHANGED <<provider, agent, ended, confirmed, waiting, faults>>
=============================================================================
