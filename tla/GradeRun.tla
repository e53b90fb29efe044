------------------------------- MODULE GradeRun -------------------------------
(***************************************************************************)
(* One sandbox grade of /v1/evaluate: grading.grade_instance_stream, which *)
(* prepares a sandbox, drives the benchmark's evaluate_instance and tears  *)
(* everything down, and collapse_stream, which folds its chunks into the   *)
(* response.                                                               *)
(*                                                                         *)
(* The benchmark's hooks and the sandbox provider are the environment:     *)
(* they answer, fail, hang, or ignore a cancellation.  The evaluation runs *)
(* in a task per chunk, so that it goes on while the engine does not look; *)
(* the teardown runs in a task of its own that a cancelled request awaits. *)
(* Time is an event: a bound that can expire does so at any moment.        *)
(***************************************************************************)
EXTENDS Naturals

VARIABLES
  phase,       \* where grade_instance_stream, then collapse_stream, is
  expired,     \* the preparation timeout has fired
  late,        \* the grade deadline has passed
  cancelled,   \* the request has been cancelled
  unwinding,   \* a CancelledError is on its way out of the engine
  held,        \* the engine's variable "sandbox" is set
  sandbox,     \* the provider's side: none, live, stray (no one has its id), gone
  task,        \* evaluation_task, with what the evaluation did in it
  stream,      \* the evaluate_instance generator
  terminal,    \* the terminal chunk the engine has decided on
  deletion,    \* the delete_sandbox call of the teardown
  answer       \* what collapse_stream returned or raised

vars == <<phase, expired, late, cancelled, unwinding, held, sandbox, task,
          stream, terminal, deletion, answer>>

Preparing == {"retrieve", "create", "prepare"}
Teardown == {"stopping", "closing", "deleting", "torn down"}
Phases == Preparing \cup Teardown \cup {"grading", "answered", "ended"}
\* What evaluate_instance can do with one request for a chunk.
Steps == {"message", "result", "error", "raised", "exhausted", "self-cancelled"}

TypeOK ==
  /\ phase \in Phases
  /\ expired \in BOOLEAN /\ late \in BOOLEAN /\ cancelled \in BOOLEAN
  /\ unwinding \in BOOLEAN /\ held \in BOOLEAN
  /\ sandbox \in {"none", "live", "stray", "gone"}
  /\ task \in {"none", "running", "abandoned"} \cup Steps
  /\ stream \in {"none", "open", "closed", "abandoned"}
  /\ terminal \in {"none", "result", "error", "timeout"}
  /\ deletion \in {"none", "done", "failed", "expired"}
  /\ answer \in {"none", "evaluated", "error", "cancelled"}

Init ==
  /\ phase = "retrieve"
  /\ expired = FALSE /\ late = FALSE /\ cancelled = FALSE
  /\ unwinding = FALSE /\ held = FALSE
  /\ sandbox = "none" /\ task = "none" /\ stream = "none"
  /\ terminal = "none" /\ deletion = "none" /\ answer = "none"
-----------------------------------------------------------------------------
(* Preparation *)

\* The awaited step succeeds; the last one starts the evaluation.
Prepared ==
  /\ phase \in Preparing
  /\ phase' = CASE phase = "retrieve" -> "create"
                [] phase = "create" -> "prepare"
                [] phase = "prepare" -> "grading"
  /\ held' = (held \/ phase = "create")
  /\ sandbox' = IF phase = "create" THEN "live" ELSE sandbox
  /\ IF phase = "prepare" THEN task' = "running" /\ stream' = "open"
                          ELSE UNCHANGED <<task, stream>>
  /\ UNCHANGED <<expired, late, cancelled, unwinding, terminal, deletion, answer>>

\* A create_sandbox that does not return may leave a sandbox without an owner.
MayStray == sandbox' \in IF phase = "create" THEN {"none", "stray"} ELSE {sandbox}

\* A hook or the provider raises an Exception.
PreparationFails ==
  /\ phase \in Preparing
  /\ phase' = "stopping"
  /\ terminal' = "error"
  /\ MayStray
  /\ UNCHANGED <<expired, late, cancelled, unwinding, held, task, stream, deletion, answer>>

\* The awaited step gives in to the timeout or to the request's cancellation,
\* which wins when both are pending.
PreparationInterrupted ==
  /\ phase \in Preparing
  /\ expired \/ cancelled
  /\ phase' = "stopping"
  /\ IF cancelled THEN unwinding' = TRUE /\ UNCHANGED terminal
                  ELSE terminal' = "timeout" /\ UNCHANGED unwinding
  /\ MayStray
  /\ UNCHANGED <<expired, late, cancelled, held, task, stream, deletion, answer>>

\* A hook raises CancelledError although nobody cancelled the request.
PreparationSelfCancels ==
  /\ phase \in Preparing
  /\ phase' = "stopping"
  /\ unwinding' = TRUE
  /\ MayStray
  /\ UNCHANGED <<expired, late, cancelled, held, task, stream, terminal, deletion, answer>>

PreparationExpires ==
  /\ phase \in Preparing /\ ~ expired
  /\ expired' = TRUE
  /\ UNCHANGED <<phase, late, cancelled, unwinding, held, sandbox, task, stream,
                 terminal, deletion, answer>>
-----------------------------------------------------------------------------
(* Evaluation *)

\* The evaluation ends its step: a chunk, an exception, or the end.  It may do
\* so after it was cancelled, or abandoned and no longer observed.
EvaluationSteps(s) ==
  /\ task = "running"
  /\ task' = s
  /\ UNCHANGED <<phase, expired, late, cancelled, unwinding, held, sandbox,
                 stream, terminal, deletion, answer>>

DeadlinePasses ==
  /\ phase = "grading" /\ ~ late
  /\ late' = TRUE
  /\ UNCHANGED <<phase, expired, cancelled, unwinding, held, sandbox, task,
                 stream, terminal, deletion, answer>>

\* Mutant: every chunk gets a fresh deadline.
ReceiveMessageAfresh ==
  /\ phase = "grading" /\ task = "message"
  /\ task' = "running" /\ late' = FALSE
  /\ UNCHANGED <<phase, expired, cancelled, unwinding, held, sandbox, stream,
                 terminal, deletion, answer>>

\* A message is passed on, and the next chunk is asked for unless the deadline
\* has passed.
ReceiveMessage ==
  /\ phase = "grading" /\ task = "message"
  /\ IF late
       THEN /\ phase' = "stopping" /\ task' = "none" /\ terminal' = "timeout"
       ELSE /\ task' = "running" /\ UNCHANGED <<phase, terminal>>
  /\ UNCHANGED <<expired, late, cancelled, unwinding, held, sandbox, stream,
                 deletion, answer>>

\* The evaluation ended: its terminal chunk, an exception, or no chunk at all.
ReceiveEnd ==
  /\ phase = "grading" /\ task \in {"result", "error", "raised", "exhausted"}
  /\ phase' = "stopping"
  /\ terminal' = IF task = "result" THEN "result" ELSE "error"
  /\ task' = "none"
  /\ UNCHANGED <<expired, late, cancelled, unwinding, held, sandbox, stream,
                 deletion, answer>>

\* evaluate_instance raised CancelledError itself: "except Exception" lets it by.
ReceiveCancellation ==
  /\ phase = "grading" /\ task = "self-cancelled"
  /\ phase' = "stopping"
  /\ unwinding' = TRUE
  /\ task' = "none"
  /\ UNCHANGED <<expired, late, cancelled, held, sandbox, stream, terminal,
                 deletion, answer>>

GradeTimesOut ==
  /\ phase = "grading" /\ task = "running" /\ late
  /\ phase' = "stopping"
  /\ terminal' = "timeout"
  /\ UNCHANGED <<expired, late, cancelled, unwinding, held, sandbox, task,
                 stream, deletion, answer>>

\* The wait for a chunk is cancelled with the request; the task stays.
GradeInterrupted ==
  /\ phase = "grading" /\ cancelled
  /\ phase' = "stopping"
  /\ unwinding' = TRUE
  /\ UNCHANGED <<expired, late, cancelled, held, sandbox, task, stream,
                 terminal, deletion, answer>>
-----------------------------------------------------------------------------
(* Teardown: _cleanup_grade_run in its own task *)

AfterClose == IF held THEN "deleting" ELSE "torn down"

\* Mutant: the stream is closed, and the sandbox deleted, under a running task.
StopAtOnce ==
  /\ phase = "stopping"
  /\ phase' = IF stream = "open" THEN "closing" ELSE AfterClose
  /\ UNCHANGED <<expired, late, cancelled, unwinding, held, sandbox, task, stream,
                 terminal, deletion, answer>>

\* _stop_pending_evaluation: the task has ended, its outcome is dropped.
Stopped ==
  /\ phase = "stopping" /\ task # "running"
  /\ task' = "none"
  /\ phase' = IF stream = "open" THEN "closing" ELSE AfterClose
  /\ UNCHANGED <<expired, late, cancelled, unwinding, held, sandbox, stream,
                 terminal, deletion, answer>>

\* The evaluation ignores its cancellation for the whole bound: it is left
\* running, and its generator is not closed.
StopExpires ==
  /\ phase = "stopping" /\ task = "running"
  /\ task' = "abandoned"
  /\ stream' = "abandoned"
  /\ phase' = AfterClose
  /\ UNCHANGED <<expired, late, cancelled, unwinding, held, sandbox, terminal,
                 deletion, answer>>

\* evaluation.aclose() returns, raises, or is abandoned at its bound.
Close(how) ==
  /\ phase = "closing"
  /\ stream' = how
  /\ phase' = AfterClose
  /\ UNCHANGED <<expired, late, cancelled, unwinding, held, sandbox, task,
                 terminal, deletion, answer>>

\* provider.delete_sandbox, bounded and best effort.
Delete(how) ==
  /\ phase = "deleting"
  /\ deletion' = how
  /\ sandbox' \in IF how = "done" THEN {"gone"} ELSE {"live", "gone"}
  /\ phase' = "torn down"
  /\ UNCHANGED <<expired, late, cancelled, unwinding, held, task, stream,
                 terminal, answer>>
-----------------------------------------------------------------------------
(* The answer *)

\* The engine resumes: it re-raises a cancellation, or yields its terminal
\* chunk, which collapse_stream folds.
Answer ==
  /\ phase = "torn down"
  /\ IF cancelled \/ unwinding
       THEN phase' = "ended" /\ answer' = "cancelled"
       ELSE /\ phase' = "answered"
            /\ answer' = IF terminal = "result" THEN "evaluated" ELSE "error"
  /\ UNCHANGED <<expired, late, cancelled, unwinding, held, sandbox, task, stream,
                 terminal, deletion>>

\* Mutant: an error of the close replaces the response.
ReturnCloseError ==
  /\ phase = "answered"
  /\ phase' = "ended"
  /\ answer' \in {"error", IF cancelled THEN "cancelled" ELSE answer}
  /\ UNCHANGED <<expired, late, cancelled, unwinding, held, sandbox, task, stream,
                 terminal, deletion>>

\* collapse_stream has closed the engine's stream.
Return ==
  /\ phase = "answered"
  /\ phase' = "ended"
  /\ answer' = IF cancelled THEN "cancelled" ELSE answer
  /\ UNCHANGED <<expired, late, cancelled, unwinding, held, sandbox, task, stream,
                 terminal, deletion>>

\* Mutant: the teardown is awaited without a shield, and dies with the request.
CancelTeardown ==
  /\ ~ cancelled /\ phase # "ended"
  /\ cancelled' = TRUE
  /\ IF phase \in Teardown THEN phase' = "ended" /\ answer' = "cancelled"
                           ELSE UNCHANGED <<phase, answer>>
  /\ UNCHANGED <<expired, late, unwinding, held, sandbox, task, stream, terminal, deletion>>

\* The request is cancelled.  During the teardown _finish_grade_cleanup only
\* remembers it.
Cancel ==
  /\ ~ cancelled /\ phase # "ended"
  /\ cancelled' = TRUE
  /\ UNCHANGED <<phase, expired, late, unwinding, held, sandbox, task, stream,
                 terminal, deletion, answer>>

\* The provider's side catches up: the deletion that was given up comes through,
\* or the sandbox's auto-stop reclaims it.
Reclaim ==
  /\ sandbox \in {"live", "stray"}
  /\ deletion \in {"failed", "expired"} \/ sandbox = "stray"
  /\ sandbox' = "gone"
  /\ UNCHANGED <<phase, expired, late, cancelled, unwinding, held, task, stream,
                 terminal, deletion, answer>>

Next ==
  \/ Prepared \/ PreparationFails \/ PreparationInterrupted
  \/ PreparationSelfCancels \/ PreparationExpires
  \/ (\E s \in Steps : EvaluationSteps(s)) \/ DeadlinePasses
  \/ ReceiveMessage \/ ReceiveEnd \/ ReceiveCancellation
  \/ GradeTimesOut \/ GradeInterrupted
  \/ Stopped \/ StopExpires
  \/ (\E how \in {"closed", "abandoned"} : Close(how))
  \/ (\E how \in {"done", "failed", "expired"} : Delete(how))
  \/ Answer \/ Return \/ Cancel \/ Reclaim

Spec == Init /\ [][Next]_vars
-----------------------------------------------------------------------------
(* Properties *)

\* When the request is over, a sandbox can be left only where the code gives it
\* up: its deletion was tried and did not come through, or its creation was
\* interrupted.  No exit path (failure, timeout, a cancellation during the
\* teardown) forgets a sandbox, so the request's admission slot is returned
\* only after the deletion was tried.
SandboxNotForgotten ==
  phase \in {"answered", "ended"} =>
    \/ ~ held /\ sandbox \in {"none", "stray", "gone"}
    \/ held /\ deletion # "none"

\* The sandbox is deleted, and the answer given, under a running evaluation only
\* if that was cancelled and ignored it for the whole bound.
EvaluationStoppedFirst ==
  phase \in {"closing", "deleting", "torn down", "answered", "ended"} =>
    task \in {"none", "abandoned"}

\* A request that is not cancelled is answered by what its evaluation yielded
\* within the deadline; a late result or an absent one is an error.
AnswerIsTheVerdict ==
  /\ answer = "evaluated" => terminal = "result"
  /\ phase = "ended" /\ ~ cancelled /\ terminal = "result" => answer = "evaluated"
  /\ phase = "ended" /\ answer = "cancelled" => cancelled \/ unwinding
=============================================================================
