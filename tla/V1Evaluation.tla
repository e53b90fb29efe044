----------------------------- MODULE V1Evaluation -----------------------------
(***************************************************************************)
(* One admitted request of /v1/evaluate, from its submission to its        *)
(* response (vals.app._v1_evaluate_in_scope): SubmissionArtifacts composed *)
(* with GradeRun.                                                          *)
(*                                                                         *)
(* A text or an artifact is graded in a sandbox by the engine of GradeRun, *)
(* which downloads the artifact in its preparation; or the benchmark       *)
(* evaluates the artifact in this process, from its bytes or from a file,  *)
(* and collapse_stream folds its chunks directly.  The variables of        *)
(* GradeRun that belong to collapse_stream serve both.  An evaluation in   *)
(* this process runs in the request's task and has no deadline.            *)
(***************************************************************************)
EXTENDS GradeRun

CONSTANTS Versions, Oversized, None, MaxUploads

ASSUME ArtifactAssumption ==
  /\ None \notin Versions
  /\ Oversized \subseteq Versions
  /\ MaxUploads \in Nat

VARIABLES
  mode,        \* the payload's type and the service's eval_mode
  stage,       \* where _v1_evaluate_in_scope is
  object, uploads, accepted, worker, body, copy, directory

artifactVars == <<object, uploads, accepted, worker, body, copy, directory>>
requestVars == <<mode, stage>>
engineVars == <<phase, expired, late, held, sandbox, task, deletion>>
allVars == <<vars, requestVars, artifactVars>>

Artifact == INSTANCE SubmissionArtifacts

Modes == {"text", "sandbox", "bytes", "file"}
InFile == mode = "file"

EvaluationTypeOK ==
  /\ Artifact!TypeOK
  /\ answer \in {"none", "evaluated", "error", "cancelled", "rejected"}
  /\ mode \in Modes
  /\ stage \in {"stat", "engine", "fetch", "evaluating", "closing", "leaving", "over"}

EvaluationInit ==
  /\ Init /\ Artifact!Init
  /\ mode \in Modes
  /\ stage = IF mode = "text" THEN "engine" ELSE "stat"

Over == stage = "over" \/ phase = "ended"

\* In the engine's preparation, until the artifact is there.
Downloading == mode = "sandbox" /\ phase = "prepare" /\ copy = None
-----------------------------------------------------------------------------
(* The thread of the request *)

\* A blocking call begins: no await lies between its place and its thread.
StartWork ==
  /\ \/ stage = "stat" /\ Artifact!Start("head", InFile)
     \/ stage = "fetch" /\ Artifact!Start("get", InFile)
     \/ stage = "engine" /\ Downloading /\ Artifact!Start("get", InFile)
     \/ stage = "leaving" /\ Artifact!Start("remove", InFile)
  /\ UNCHANGED <<vars, requestVars>>

\* The request has an answer ("rejected": an HTTP error) and leaves materialize's scope.
Leave(a) ==
  /\ answer' = a
  /\ stage' = IF InFile /\ stage # "stat" THEN "leaving" ELSE "over"

StatEnds(out) ==
  /\ stage = "stat"
  /\ Artifact!HeadEnds(out)
  /\ IF cancelled THEN Leave("cancelled")
     ELSE IF out # "ok" THEN Leave("rejected")
     ELSE /\ stage' = IF mode = "sandbox" THEN "engine" ELSE "fetch"
          /\ UNCHANGED answer
  /\ UNCHANGED <<engineVars, cancelled, unwinding, stream, terminal, mode>>

FetchEnds(out) ==
  /\ stage = "fetch"
  /\ Artifact!GetEnds(out) \/ Artifact!ReadEnds(out, InFile)
  /\ IF cancelled THEN Leave("cancelled") /\ UNCHANGED stream
     ELSE IF out # "ok" THEN Leave("rejected") /\ UNCHANGED stream
     ELSE stage' = "evaluating" /\ stream' = "open" /\ UNCHANGED answer
  /\ UNCHANGED <<engineVars, cancelled, unwinding, terminal, mode>>

\* The engine's download: a cancellation or a timeout that came meanwhile is raised
\* when the thread is done, and wins over its outcome.
DownloadEnds(out) ==
  /\ stage = "engine"
  /\ Artifact!GetEnds(out) \/ Artifact!ReadEnds(out, FALSE)
  /\ IF cancelled \/ expired THEN PreparationInterrupted
     ELSE IF out # "ok" THEN PreparationFails
     ELSE UNCHANGED vars
  /\ UNCHANGED requestVars

RemovalEnds ==
  /\ stage = "leaving"
  /\ Artifact!RemoveEnds
  /\ stage' = "over"
  /\ answer' \in IF cancelled THEN {answer, "cancelled"} ELSE {answer}
  /\ UNCHANGED <<engineVars, cancelled, unwinding, stream, terminal, mode>>

WorkGoesOn ==
  /\ Artifact!GetAnswers
  /\ UNCHANGED <<vars, requestVars>>
-----------------------------------------------------------------------------
(* An evaluation in this process, folded by collapse_stream *)

\* A terminal chunk, an exception, or no chunk at all.
EvaluationYields(kind) ==
  /\ stage = "evaluating"
  /\ terminal' = kind
  /\ stage' = "closing"
  /\ UNCHANGED <<engineVars, cancelled, unwinding, stream, answer, mode, artifactVars>>

\* It raises CancelledError, on the request's cancellation or by itself: nothing in
\* collapse_stream catches that.
EvaluationCancels ==
  /\ stage = "evaluating"
  /\ unwinding' = TRUE
  /\ stream' = "closed"
  /\ Leave("cancelled")
  /\ UNCHANGED <<engineVars, cancelled, terminal, mode, artifactVars>>

\* The stream's close ends, or is abandoned at its bound or by a cancellation.
StreamCloses(how) ==
  /\ stage = "closing"
  /\ stream' = how
  /\ unwinding' \in IF how = "abandoned" THEN {FALSE, cancelled} ELSE {FALSE}
  /\ Leave(IF unwinding' THEN "cancelled"
           ELSE IF terminal = "result" THEN "evaluated" ELSE "error")
  /\ UNCHANGED <<engineVars, cancelled, terminal, mode, artifactVars>>
-----------------------------------------------------------------------------
(* The engine in its place, the cancellation, the object *)

\* The steps of GradeRun; those that end a preparation wait for the download.
EngineSteps ==
  /\ stage = "engine"
  /\ \/ /\ ~ Downloading
        /\ \/ Prepared \/ PreparationFails \/ PreparationInterrupted
           \/ PreparationSelfCancels
     \/ PreparationExpires
     \/ (\E s \in Steps : EvaluationSteps(s)) \/ DeadlinePasses
     \/ ReceiveMessage \/ ReceiveEnd \/ ReceiveCancellation
     \/ GradeTimesOut \/ GradeInterrupted
     \/ Stopped \/ StopExpires
     \/ (\E how \in {"closed", "abandoned"} : Close(how))
     \/ (\E how \in {"done", "failed", "expired"} : Delete(how))
     \/ Answer \/ Return \/ Reclaim
  /\ UNCHANGED <<requestVars, artifactVars>>

\* Mutant: a cancelled caller does not wait for its thread.
CancelDetached ==
  /\ ~ Over /\ Cancel
  /\ stage' = IF worker # "none" THEN "over" ELSE stage
  /\ UNCHANGED <<mode, artifactVars>>

\* The request is cancelled; a thread's caller only remembers it.
CancelRequest ==
  /\ ~ Over /\ Cancel
  /\ UNCHANGED <<requestVars, artifactVars>>

ObjectChanges ==
  /\ \E v \in Versions \cup {None} : Artifact!Upload(v)
  /\ UNCHANGED <<vars, requestVars>>

EvaluationNext ==
  \/ StartWork \/ WorkGoesOn
  \/ \E out \in Artifact!Outcomes : StatEnds(out) \/ FetchEnds(out) \/ DownloadEnds(out)
  \/ RemovalEnds
  \/ \E kind \in {"result", "error"} : EvaluationYields(kind)
  \/ EvaluationCancels
  \/ \E how \in {"closed", "abandoned"} : StreamCloses(how)
  \/ EngineSteps \/ CancelRequest \/ ObjectChanges

EvaluationSpec == EvaluationInit /\ [][EvaluationNext]_allVars

Engine(action) == stage = "engine" /\ action /\ UNCHANGED <<requestVars, artifactVars>>
WorkEnds ==
  \/ WorkGoesOn \/ RemovalEnds
  \/ \E out \in Artifact!Outcomes : StatEnds(out) \/ FetchEnds(out) \/ DownloadEnds(out)

\* The store's client has timeouts, so that a thread ends.  The engine's own steps are
\* scheduled, its bounds expire, and the hooks it calls without a task of their own
\* (retrieve_task, create_sandbox, prepare_grading_sandbox) give in to a cancellation.
\* Nothing is assumed of an evaluation, its finalizer, or the deletion.
EvaluationFairness ==
  /\ WF_allVars(StartWork) /\ WF_allVars(WorkEnds) /\ WF_allVars(StreamCloses("abandoned"))
  /\ WF_allVars(Engine(PreparationExpires))
  /\ WF_allVars(Engine(~ Downloading /\ PreparationInterrupted))
  /\ WF_allVars(Engine(DeadlinePasses)) /\ WF_allVars(Engine(ReceiveMessage))
  /\ WF_allVars(Engine(ReceiveEnd)) /\ WF_allVars(Engine(ReceiveCancellation))
  /\ WF_allVars(Engine(GradeTimesOut)) /\ WF_allVars(Engine(Stopped \/ StopExpires))
  /\ WF_allVars(Engine(Close("abandoned"))) /\ WF_allVars(Engine(Delete("expired")))
  /\ WF_allVars(Engine(Answer)) /\ WF_allVars(Engine(Return))

EvaluationFairSpec == EvaluationSpec /\ EvaluationFairness
-----------------------------------------------------------------------------
(* Properties *)

\* Whatever is uploaded to the key after the admission, an evaluation is given, in the
\* sandbox, in memory or in the file, the whole of the version that was accepted and
\* sized; and the file is there for as long as the evaluation may read it, unless the
\* evaluation ignored its close.
GradesWhatWasAccepted ==
  /\ mode # "text" /\ (stream # "none" \/ phase = "grading") =>
       copy = accepted /\ accepted \in Versions \ Oversized
  /\ mode = "file" /\ stream = "open" => directory = "whole"

\* When the request is over, and its admission slot returned, no thread works for it
\* and its temporary directory is gone, on every path: a refusal, a changed object, a
\* broken body, a cancellation in the middle of a read or of the removal itself.
NothingLeftBehind ==
  Over => worker = "none" /\ directory \in {"none", "gone"}

\* What a caller of /v1/evaluate may rely on: GradingContract.tla.
EvaluationIs ==
  IF stream # "open" THEN stream
  ELSE IF stage = "closing" \/ (stage = "engine" /\ task = "none") THEN "ended" ELSE "running"
Contract == INSTANCE GradingContract WITH
  form <- mode, taken <- accepted, given <- IF stream = "none" THEN None ELSE copy,
  evaluation <- EvaluationIs, verdict <- IF terminal = "timeout" THEN "error" ELSE terminal,
  broken <- unwinding,
  folder <- IF directory \in {"none", "gone"} THEN directory ELSE "there",
  rented <- IF ~ held THEN "none" ELSE IF deletion = "none" THEN "held" ELSE "returned",
  over <- Over

\* In a sandbox or in this process, with every failure, timeout, late upload and
\* cancellation: one evaluation of what was taken in, one verdict, which a result is
\* only when the evaluation ended with it; it is the answer, unless the request or a hook
\* was cancelled; and sandbox and directory are given back in between, in this order.
KeepsGradingContract == Contract!ContractSpec

\* The request comes to its end, unless an evaluation in this process goes on: no
\* thread, timeout, close or deletion holds it for ever.
RequestSettles == []<>(Over \/ stage = "evaluating")
=============================================================================
