---------------------------- MODULE SandboxRecovery ----------------------------
(***************************************************************************)
(* BenchmarkServiceClient.run_with_sandbox_recovery: the bounded loop that *)
(* runs an operation again in a fresh sandbox after the provider lost its  *)
(* sandbox, or after a setup error the caller named, and the outage        *)
(* identity its attempts carry (client._SandboxRecoveryState).             *)
(*                                                                         *)
(* The operation and the on_retry callback are the caller's.  Both hold    *)
(* the attempt and may use its methods: retrieve_task, which installs the  *)
(* benchmark's policy, and mark_replacement_ready.  An attempt's object    *)
(* outlives it, so that an old one can be marked late.                     *)
(***************************************************************************)
EXTENDS Integers

CONSTANTS
  DefaultMax,   \* default_max_attempts
  Policies      \* max_sandbox_attempts a benchmark may declare; 0 for no policy

ASSUME RecoveryAssumption ==
  /\ DefaultMax \in 1 .. 20
  /\ Policies \subseteq {0} \cup (2 .. 20)
  /\ Policies # {}

Numbers == 1 .. 20
Outages == 0 .. 20      \* an outage is named by the attempt that was lost; 0: none
Causes == {"none", "loss", "error"}

VARIABLES
  policy,     \* what the task's payload says
  loaded,     \* state.task is cached
  recover,    \* recover_sandbox_loss
  cap,        \* max_attempts
  phase,      \* attempting, loading (in the handler of a loss), retrying, done
  number,     \* attempt_number
  errors,     \* consecutive_attempt_errors
  outage,     \* outage_id
  carried,    \* the outage_id each attempt was made with
  ended,      \* why each attempt is followed by another
  recorded,   \* outages the benchmark acknowledged
  outcome

vars == <<policy, loaded, recover, cap, phase, number, errors, outage, carried,
          ended, recorded, outcome>>

TypeOK ==
  /\ policy \in Policies
  /\ loaded \in BOOLEAN /\ recover \in BOOLEAN
  /\ cap \in Numbers
  /\ phase \in {"attempting", "loading", "retrying", "done"}
  /\ number \in Numbers
  /\ errors \in 0 .. DefaultMax - 1
  /\ outage \in Outages
  /\ carried \in [Numbers -> Outages]
  /\ ended \in [Numbers -> Causes]
  /\ recorded \subseteq Outages \ {0}
  /\ outcome \in {"none", "returned", "raised", "assertion"}

Init ==
  /\ policy \in Policies
  /\ loaded = FALSE /\ recover = FALSE
  /\ cap = DefaultMax
  /\ phase = "attempting" /\ number = 1
  /\ errors = 0
  /\ outage = 0
  /\ carried = [n \in Numbers |-> 0]
  /\ ended = [n \in Numbers |-> "none"]
  /\ recorded = {}
  /\ outcome = "none"

taskVars == <<policy, loaded, recover, cap>>
outageVars == <<outage, carried, recorded>>

\* The effect of the first retrieve_task.
Load ==
  /\ loaded' = TRUE
  /\ recover' = (policy # 0)
  /\ cap' = IF policy = 0 THEN cap ELSE policy

Done(how) == phase' = "done" /\ outcome' = how
-----------------------------------------------------------------------------
(* What the operation and the callback do *)

Retrieve ==
  /\ phase \in {"attempting", "retrying"} /\ ~ loaded
  /\ Load
  /\ UNCHANGED <<policy, phase, number, errors, outageVars, ended, outcome>>

\* Mutant: the acknowledged outage stays in the state.
MarkReadyKept(k) ==
  /\ k <= number
  /\ carried[k] # 0 /\ carried[k] = outage
  /\ recorded' = recorded \cup {carried[k]}
  /\ UNCHANGED <<taskVars, phase, number, errors, outage, carried, ended, outcome>>

\* Attempt k's mark_replacement_ready: it counts only for the outage k carries.
MarkReady(k) ==
  /\ k <= number
  /\ carried[k] # 0 /\ carried[k] = outage
  /\ recorded' = recorded \cup {carried[k]}
  /\ outage' = 0
  /\ UNCHANGED <<taskVars, phase, number, errors, carried, ended, outcome>>

Succeed ==
  /\ phase = "attempting"
  /\ Done("returned")
  /\ UNCHANGED <<taskVars, number, errors, outageVars, ended>>
-----------------------------------------------------------------------------
(* The loop *)

\* Mutant: every loss is a new outage.
RecordEveryLoss == outage' = number

\* record_loss keeps the identity of an outage that is not acknowledged yet.
RecordLoss == outage' = IF outage = 0 THEN number ELSE outage

\* A provider-confirmed loss, with the policy in effect after retrieve_task.
Recover(mayRecover, limit) ==
  IF mayRecover /\ number < limit
    THEN /\ phase' = "retrying"
         /\ errors' = 0
         /\ RecordLoss
         /\ ended' = [ended EXCEPT ![number] = "loss"]
         /\ UNCHANGED outcome
    ELSE Done("raised") /\ UNCHANGED <<errors, outage, ended>>

\* SandboxNotFoundError: recovered only under a policy, which is loaded first.
Lose ==
  /\ phase = "attempting"
  /\ IF loaded
       THEN Recover(recover, cap)
       ELSE phase' = "loading" /\ UNCHANGED <<errors, outage, ended, outcome>>
  /\ UNCHANGED <<taskVars, number, carried, recorded>>

LoadForLoss ==
  /\ phase = "loading"
  /\ Load
  /\ Recover(recover', cap')
  /\ UNCHANGED <<policy, number, carried, recorded>>

\* The task cannot be retrieved; the retrieval's error is raised.
LoadFails ==
  /\ phase = "loading"
  /\ Done("raised")
  /\ UNCHANGED <<taskVars, number, errors, outageVars, ended>>

\* Mutant: setup errors are bounded by the overall cap only.
MayRetryCapped == number < cap

MayRetry == number < cap /\ errors < DefaultMax - 1

\* An error the caller declared retryable.
SetupFails ==
  /\ phase = "attempting"
  /\ IF MayRetry
       THEN /\ phase' = "retrying"
            /\ errors' = errors + 1
            /\ ended' = [ended EXCEPT ![number] = "error"]
            /\ UNCHANGED outcome
       ELSE Done("raised") /\ UNCHANGED <<errors, ended>>
  /\ UNCHANGED <<taskVars, number, outageVars>>

\* Any other error of the operation, or an error of the callback.
Fail ==
  /\ phase \in {"attempting", "retrying"}
  /\ Done("raised")
  /\ UNCHANGED <<taskVars, number, errors, outageVars, ended>>

\* Mutant: attempt_number is not counted up.
AgainUncounted ==
  /\ phase = "retrying"
  /\ phase' = "attempting"
  /\ carried' = [carried EXCEPT ![number] = outage]
  /\ UNCHANGED <<taskVars, number, errors, outage, recorded, ended, outcome>>

\* The callback and the delay are over: the loop's condition is evaluated again.
Again ==
  /\ phase = "retrying"
  /\ IF number < cap
       THEN /\ number' = number + 1
            /\ phase' = "attempting"
            /\ carried' = [carried EXCEPT ![number + 1] = outage]
            /\ UNCHANGED outcome
       ELSE Done("assertion") /\ UNCHANGED <<number, carried>>
  /\ UNCHANGED <<taskVars, errors, outage, recorded, ended>>

Next ==
  \/ Retrieve \/ (\E k \in Numbers : MarkReady(k))
  \/ Succeed \/ Lose \/ LoadForLoss \/ LoadFails \/ SetupFails \/ Fail \/ Again

Spec == Init /\ [][Next]_vars

\* The operation, the retrieval, the callback and the delay come to an end.
FairSpec ==
  /\ Spec
  /\ WF_vars(Succeed \/ Lose \/ SetupFails \/ Fail)
  /\ WF_vars(LoadForLoss \/ LoadFails)
  /\ WF_vars(Again)
-----------------------------------------------------------------------------
(* Properties *)

\* One interruption is one outage: an attempt that follows another carries the
\* same identity until the benchmark has acknowledged it, and the attempt after
\* a loss carries an identity unless the lost attempt's own was acknowledged in
\* between.  An identity names an attempt that was really lost.
OutageIdentityKept ==
  \A n \in Numbers : (n + 1 <= number) =>
    /\ (carried[n] # 0 /\ carried[n] \notin recorded) => carried[n + 1] = carried[n]
    /\ (ended[n] = "loss" /\ carried[n] \notin recorded) => carried[n + 1] # 0
    /\ carried[n + 1] # 0 => ended[carried[n + 1]] = "loss" /\ carried[n + 1] <= n

\* An outage that was acknowledged is over: it is never handed to a later
\* attempt again.
AcknowledgedOutageIsOver ==
  [][\A k \in Numbers : (k <= number' /\ k > number) => carried'[k] \notin recorded]_vars

\* A sandbox loss is retried only for a benchmark that opted in, and setup
\* errors are never retried DefaultMax times in a row.
RetriesHaveACause ==
  /\ \A n \in Numbers : n < number => ended[n] # "none"
  /\ (\E n \in Numbers : ended[n] = "loss") => policy # 0
  /\ \A n \in Numbers : n + DefaultMax <= number =>
       \E m \in n .. n + DefaultMax - 1 : ended[m] = "loss"

\* No attempt starts beyond the cap: the caller's until the task is known, the
\* benchmark's own from then on, also when the policy is learnt in the handler
\* of a loss or in the callback between two attempts.
AttemptsCapped ==
  [][number' # number =>
       number' <= IF loaded /\ policy # 0 THEN policy ELSE DefaultMax]_vars

\* The call comes to an end.
CallEnds == <>(phase = "done")

\* The code's own assertion at the end of the loop: it is left only by a result
\* or by the operation's exception.
LoopNeverFallsThrough == outcome # "assertion"
=============================================================================
