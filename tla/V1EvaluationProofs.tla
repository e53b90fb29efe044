-------------------------- MODULE V1EvaluationProofs --------------------------
(***************************************************************************)
(* Proofs about GradeRun and V1Evaluation, for any number of chunks, any   *)
(* set of versions of the object and any number of uploads: first the      *)
(* engine alone, on every path through the preparation, the evaluation and *)
(* the teardown, whatever the hooks and the provider do; then the request  *)
(* around it: what is graded is what was accepted, nothing of a request is *)
(* left behind, and the engine keeps its promises in its place.            *)
(***************************************************************************)
EXTENDS V1Evaluation, TLAPS

(***************************************************************************)
(* The engine.  Its invariant is stated without a type for answer, so that *)
(* it holds of the engine inside a request too.                            *)
(***************************************************************************)

Flags ==
  /\ expired \in BOOLEAN /\ late \in BOOLEAN /\ cancelled \in BOOLEAN
  /\ unwinding \in BOOLEAN /\ held \in BOOLEAN

Types ==
  /\ phase \in Phases
  /\ sandbox \in {"none", "live", "stray", "gone"}
  /\ task \in {"none", "running", "abandoned"} \cup Steps
  /\ stream \in {"none", "open", "closed", "abandoned"}
  /\ terminal \in {"none", "result", "error", "timeout"}
  /\ deletion \in {"none", "done", "failed", "expired"}

\* The engine knows the sandbox it made, and tries to delete it.
SandboxInv ==
  /\ ~ held => sandbox \in {"none", "stray", "gone"}
  /\ phase \in {"retrieve", "create"} => ~ held /\ sandbox = "none"
  /\ phase = "deleting" => held
  /\ held /\ phase \in {"torn down", "answered", "ended"} => deletion # "none"

\* A task exists from the first chunk until it has been stopped.
TaskInv ==
  /\ phase \in Preparing => task = "none" /\ stream = "none"
  /\ phase \in {"closing", "deleting", "torn down", "answered", "ended"} =>
       task \in {"none", "abandoned"}
  /\ stream = "none" => task = "none" /\ phase \notin {"grading", "closing"}

\* What is decided, and when.
VerdictInv ==
  /\ phase \in Preparing \cup {"grading"} => terminal = "none" /\ ~ unwinding
  /\ unwinding => terminal = "none"
  /\ phase \notin {"answered", "ended"} => answer = "none"
  /\ phase = "answered" =>
       /\ answer = IF terminal = "result" THEN "evaluated" ELSE "error"
       /\ ~ unwinding
  /\ phase = "ended" =>
       \/ answer = "cancelled" /\ (cancelled \/ unwinding)
       \/ answer = IF terminal = "result" THEN "evaluated" ELSE "error"

GInv == Flags /\ Types /\ SandboxInv /\ TaskInv /\ VerdictInv
-----------------------------------------------------------------------------
LEMMA InitGInv == Init => GInv
  BY DEF Init, GInv, Flags, Types, SandboxInv, TaskInv, VerdictInv, Preparing, Teardown, Phases

\* A step that ends the preparation or goes on with it.
LEMMA PreparationStep ==
  ASSUME GInv,
         \/ Prepared \/ PreparationFails \/ PreparationInterrupted
         \/ PreparationSelfCancels \/ PreparationExpires
  PROVE  GInv'
<1>0. Flags /\ Types /\ SandboxInv /\ TaskInv /\ VerdictInv
  BY DEF GInv
<1>1. CASE Prepared
  <2>0. Flags'
    BY <1>1, <1>0, Zenon DEF Prepared, Flags
  <2>1. Types'
    BY <1>1, <1>0 DEF Prepared, Types, Phases, Preparing, Teardown, Steps
  <2>2. SandboxInv'
    BY <1>1, <1>0 DEF Prepared, Types, SandboxInv, Preparing
  <2>3. TaskInv'
    BY <1>1, <1>0 DEF Prepared, Types, TaskInv, Preparing, Steps
  <2>4. VerdictInv'
    BY <1>1, <1>0 DEF Prepared, Types, VerdictInv, Preparing
  <2> QED
    BY <2>0, <2>1, <2>2, <2>3, <2>4 DEF GInv
<1>2. CASE PreparationFails
  <2>0. Flags'
    BY <1>2, <1>0, Zenon DEF PreparationFails, Flags
  <2>1. Types'
    BY <1>2, <1>0 DEF PreparationFails, Types, MayStray, Phases, Preparing, Teardown, Steps
  <2>2. SandboxInv'
    BY <1>2, <1>0 DEF PreparationFails, Types, SandboxInv, MayStray, Preparing
  <2>3. TaskInv'
    BY <1>2, <1>0 DEF PreparationFails, Types, TaskInv, MayStray, Preparing, Steps
  <2>4. VerdictInv'
    BY <1>2, <1>0 DEF PreparationFails, Types, VerdictInv, MayStray, Preparing
  <2> QED
    BY <2>0, <2>1, <2>2, <2>3, <2>4 DEF GInv
<1>3. CASE PreparationInterrupted
  <2>0. Flags'
    BY <1>3, <1>0, Zenon DEF PreparationInterrupted, Flags
  <2>1. Types'
    BY <1>3, <1>0 DEF PreparationInterrupted, Types, MayStray, Phases, Preparing, Teardown, Steps
  <2>2. SandboxInv'
    BY <1>3, <1>0 DEF PreparationInterrupted, Types, SandboxInv, MayStray, Preparing
  <2>3. TaskInv'
    BY <1>3, <1>0 DEF PreparationInterrupted, Types, TaskInv, MayStray, Preparing, Steps
  <2>4. VerdictInv'
    BY <1>3, <1>0 DEF PreparationInterrupted, Types, VerdictInv, MayStray, Preparing
  <2> QED
    BY <2>0, <2>1, <2>2, <2>3, <2>4 DEF GInv
<1>4. CASE PreparationSelfCancels
  <2>0. Flags'
    BY <1>4, <1>0, Zenon DEF PreparationSelfCancels, Flags
  <2>1. Types'
    BY <1>4, <1>0 DEF PreparationSelfCancels, Types, MayStray, Phases, Preparing, Teardown, Steps
  <2>2. SandboxInv'
    BY <1>4, <1>0 DEF PreparationSelfCancels, Types, SandboxInv, MayStray, Preparing
  <2>3. TaskInv'
    BY <1>4, <1>0 DEF PreparationSelfCancels, Types, TaskInv, MayStray, Preparing, Steps
  <2>4. VerdictInv'
    BY <1>4, <1>0 DEF PreparationSelfCancels, Types, VerdictInv, MayStray, Preparing
  <2> QED
    BY <2>0, <2>1, <2>2, <2>3, <2>4 DEF GInv
<1>5. CASE PreparationExpires
  <2>0. Flags'
    BY <1>5, <1>0, Zenon DEF PreparationExpires, Flags
  <2>1. Types'
    BY <1>5, <1>0 DEF PreparationExpires, Types
  <2>2. SandboxInv'
    BY <1>5, <1>0 DEF PreparationExpires, Types, SandboxInv, Preparing
  <2>3. TaskInv'
    BY <1>5, <1>0 DEF PreparationExpires, Types, TaskInv, Preparing, Steps
  <2>4. VerdictInv'
    BY <1>5, <1>0 DEF PreparationExpires, Types, VerdictInv, Preparing
  <2> QED
    BY <2>0, <2>1, <2>2, <2>3, <2>4 DEF GInv
<1> QED
  BY <1>1, <1>2, <1>3, <1>4, <1>5

\* The evaluation's own steps and what the engine makes of them.
LEMMA GradingStep ==
  ASSUME GInv,
         \/ (\E s \in Steps : EvaluationSteps(s)) \/ DeadlinePasses
         \/ ReceiveMessage \/ ReceiveEnd \/ ReceiveCancellation
         \/ GradeTimesOut \/ GradeInterrupted
  PROVE  GInv'
<1>0. Flags /\ Types /\ SandboxInv /\ TaskInv /\ VerdictInv
  BY DEF GInv
<1>1. ASSUME NEW s \in Steps, EvaluationSteps(s) PROVE GInv'
  <2>0. Flags'
    BY <1>1, <1>0, Zenon DEF EvaluationSteps, Flags
  <2>1. Types'
    BY <1>1, <1>0 DEF EvaluationSteps, Types
  <2>2. SandboxInv'
    BY <1>1, <1>0 DEF EvaluationSteps, Types, SandboxInv, Preparing
  <2>3. TaskInv'
    BY <1>1, <1>0 DEF EvaluationSteps, Types, TaskInv, Preparing, Steps
  <2>4. VerdictInv'
    BY <1>1, <1>0 DEF EvaluationSteps, Types, VerdictInv, Preparing
  <2> QED
    BY <2>0, <2>1, <2>2, <2>3, <2>4 DEF GInv
<1>2. CASE DeadlinePasses
  <2>0. Flags'
    BY <1>2, <1>0, Zenon DEF DeadlinePasses, Flags
  <2>1. Types'
    BY <1>2, <1>0 DEF DeadlinePasses, Types, Phases, Preparing, Teardown, Steps
  <2>2. SandboxInv'
    BY <1>2, <1>0 DEF DeadlinePasses, Types, SandboxInv, Preparing
  <2>3. TaskInv'
    BY <1>2, <1>0 DEF DeadlinePasses, Types, TaskInv, Preparing, Steps
  <2>4. VerdictInv'
    BY <1>2, <1>0 DEF DeadlinePasses, Types, VerdictInv, Preparing
  <2> QED
    BY <2>0, <2>1, <2>2, <2>3, <2>4 DEF GInv
<1>3. CASE ReceiveMessage
  <2>0. Flags'
    BY <1>3, <1>0, Zenon DEF ReceiveMessage, Flags
  <2>1. Types'
    BY <1>3, <1>0 DEF ReceiveMessage, Types, Phases, Preparing, Teardown, Steps
  <2>2. SandboxInv'
    BY <1>3, <1>0 DEF ReceiveMessage, Types, SandboxInv, Preparing
  <2>3. TaskInv'
    BY <1>3, <1>0 DEF ReceiveMessage, Types, TaskInv, Preparing, Steps
  <2>4. VerdictInv'
    BY <1>3, <1>0 DEF ReceiveMessage, Types, VerdictInv, Preparing
  <2> QED
    BY <2>0, <2>1, <2>2, <2>3, <2>4 DEF GInv
<1>4. CASE ReceiveEnd
  <2>0. Flags'
    BY <1>4, <1>0, Zenon DEF ReceiveEnd, Flags
  <2>1. Types'
    BY <1>4, <1>0 DEF ReceiveEnd, Types, Phases, Preparing, Teardown, Steps
  <2>2. SandboxInv'
    BY <1>4, <1>0 DEF ReceiveEnd, Types, SandboxInv, Preparing
  <2>3. TaskInv'
    BY <1>4, <1>0 DEF ReceiveEnd, Types, TaskInv, Preparing, Steps
  <2>4. VerdictInv'
    BY <1>4, <1>0 DEF ReceiveEnd, Types, VerdictInv, Preparing
  <2> QED
    BY <2>0, <2>1, <2>2, <2>3, <2>4 DEF GInv
<1>5. CASE ReceiveCancellation
  <2>0. Flags'
    BY <1>5, <1>0, Zenon DEF ReceiveCancellation, Flags
  <2>1. Types'
    BY <1>5, <1>0 DEF ReceiveCancellation, Types, Phases, Preparing, Teardown, Steps
  <2>2. SandboxInv'
    BY <1>5, <1>0 DEF ReceiveCancellation, Types, SandboxInv, Preparing
  <2>3. TaskInv'
    BY <1>5, <1>0 DEF ReceiveCancellation, Types, TaskInv, Preparing, Steps
  <2>4. VerdictInv'
    BY <1>5, <1>0 DEF ReceiveCancellation, Types, VerdictInv, Preparing
  <2> QED
    BY <2>0, <2>1, <2>2, <2>3, <2>4 DEF GInv
<1>6. CASE GradeTimesOut
  <2>0. Flags'
    BY <1>6, <1>0, Zenon DEF GradeTimesOut, Flags
  <2>1. Types'
    BY <1>6, <1>0 DEF GradeTimesOut, Types, Phases, Preparing, Teardown, Steps
  <2>2. SandboxInv'
    BY <1>6, <1>0 DEF GradeTimesOut, Types, SandboxInv, Preparing
  <2>3. TaskInv'
    BY <1>6, <1>0 DEF GradeTimesOut, Types, TaskInv, Preparing, Steps
  <2>4. VerdictInv'
    BY <1>6, <1>0 DEF GradeTimesOut, Types, VerdictInv, Preparing
  <2> QED
    BY <2>0, <2>1, <2>2, <2>3, <2>4 DEF GInv
<1>7. CASE GradeInterrupted
  <2>0. Flags'
    BY <1>7, <1>0, Zenon DEF GradeInterrupted, Flags
  <2>1. Types'
    BY <1>7, <1>0 DEF GradeInterrupted, Types, Phases, Preparing, Teardown, Steps
  <2>2. SandboxInv'
    BY <1>7, <1>0 DEF GradeInterrupted, Types, SandboxInv, Preparing
  <2>3. TaskInv'
    BY <1>7, <1>0 DEF GradeInterrupted, Types, TaskInv, Preparing, Steps
  <2>4. VerdictInv'
    BY <1>7, <1>0 DEF GradeInterrupted, Types, VerdictInv, Preparing
  <2> QED
    BY <2>0, <2>1, <2>2, <2>3, <2>4 DEF GInv
<1> QED
  BY <1>1, <1>2, <1>3, <1>4, <1>5, <1>6, <1>7

\* The teardown, the answer, a cancellation and the provider.
LEMMA TeardownStep ==
  ASSUME GInv,
         \/ Stopped \/ StopExpires
         \/ (\E how \in {"closed", "abandoned"} : Close(how))
         \/ (\E how \in {"done", "failed", "expired"} : Delete(how))
         \/ Answer \/ Return \/ Cancel \/ Reclaim
  PROVE  GInv'
<1>0. Flags /\ Types /\ SandboxInv /\ TaskInv /\ VerdictInv
  BY DEF GInv
<1>1. CASE Stopped
  <2>0. Flags'
    BY <1>1, <1>0, Zenon DEF Stopped, Flags
  <2>1. Types'
    BY <1>1, <1>0 DEF Stopped, Types, AfterClose, Phases, Preparing, Teardown, Steps
  <2>2. SandboxInv'
    BY <1>1, <1>0 DEF Stopped, Types, SandboxInv, AfterClose, Preparing
  <2>3. TaskInv'
    BY <1>1, <1>0 DEF Stopped, Types, TaskInv, AfterClose, Preparing, Steps
  <2>4. VerdictInv'
    BY <1>1, <1>0 DEF Stopped, Types, VerdictInv, AfterClose, Preparing
  <2> QED
    BY <2>0, <2>1, <2>2, <2>3, <2>4 DEF GInv
<1>2. CASE StopExpires
  <2>0. Flags'
    BY <1>2, <1>0, Zenon DEF StopExpires, Flags
  <2>1. Types'
    BY <1>2, <1>0 DEF StopExpires, Types, AfterClose, Phases, Preparing, Teardown, Steps
  <2>2. SandboxInv'
    BY <1>2, <1>0 DEF StopExpires, Types, SandboxInv, AfterClose, Preparing
  <2>3. TaskInv'
    BY <1>2, <1>0 DEF StopExpires, Types, TaskInv, AfterClose, Preparing, Steps
  <2>4. VerdictInv'
    BY <1>2, <1>0 DEF StopExpires, Types, VerdictInv, AfterClose, Preparing
  <2> QED
    BY <2>0, <2>1, <2>2, <2>3, <2>4 DEF GInv
<1>3. ASSUME NEW how \in {"closed", "abandoned"}, Close(how) PROVE GInv'
  <2>0. Flags'
    BY <1>3, <1>0, Zenon DEF Close, Flags
  <2>1. Types'
    BY <1>3, <1>0 DEF Close, Types, AfterClose, Phases, Preparing, Teardown, Steps
  <2>2. SandboxInv'
    BY <1>3, <1>0 DEF Close, Types, SandboxInv, AfterClose, Preparing
  <2>3. TaskInv'
    BY <1>3, <1>0 DEF Close, Types, TaskInv, AfterClose, Preparing, Steps
  <2>4. VerdictInv'
    BY <1>3, <1>0 DEF Close, Types, VerdictInv, AfterClose, Preparing
  <2> QED
    BY <2>0, <2>1, <2>2, <2>3, <2>4 DEF GInv
<1>4. ASSUME NEW how \in {"done", "failed", "expired"}, Delete(how) PROVE GInv'
  <2>0. Flags'
    BY <1>4, <1>0, Zenon DEF Delete, Flags
  <2>1. Types'
    BY <1>4, <1>0 DEF Delete, Types, Phases, Preparing, Teardown, Steps
  <2>2. SandboxInv'
    BY <1>4, <1>0 DEF Delete, Types, SandboxInv, Preparing
  <2>3. TaskInv'
    BY <1>4, <1>0 DEF Delete, Types, TaskInv, Preparing, Steps
  <2>4. VerdictInv'
    BY <1>4, <1>0 DEF Delete, Types, VerdictInv, Preparing
  <2> QED
    BY <2>0, <2>1, <2>2, <2>3, <2>4 DEF GInv
<1>5. CASE Answer
  <2>0. Flags'
    BY <1>5, <1>0, Zenon DEF Answer, Flags
  <2>1. Types'
    BY <1>5, <1>0 DEF Answer, Types, Phases, Preparing, Teardown, Steps
  <2>2. SandboxInv'
    BY <1>5, <1>0 DEF Answer, Types, SandboxInv, Preparing
  <2>3. TaskInv'
    BY <1>5, <1>0 DEF Answer, Types, TaskInv, Preparing, Steps
  <2>4. VerdictInv'
    BY <1>5, <1>0 DEF Answer, Types, VerdictInv, Preparing
  <2> QED
    BY <2>0, <2>1, <2>2, <2>3, <2>4 DEF GInv
<1>6. CASE Return
  <2>0. Flags'
    BY <1>6, <1>0, Zenon DEF Return, Flags
  <2>1. Types'
    BY <1>6, <1>0 DEF Return, Types, Phases, Preparing, Teardown, Steps
  <2>2. SandboxInv'
    BY <1>6, <1>0 DEF Return, Types, SandboxInv, Preparing
  <2>3. TaskInv'
    BY <1>6, <1>0 DEF Return, Types, TaskInv, Preparing, Steps
  <2>4. VerdictInv'
    BY <1>6, <1>0 DEF Return, Types, VerdictInv, Preparing
  <2> QED
    BY <2>0, <2>1, <2>2, <2>3, <2>4 DEF GInv
<1>7. CASE Cancel
  <2>0. Flags'
    BY <1>7, <1>0, Zenon DEF Cancel, Flags
  <2>1. Types'
    BY <1>7, <1>0 DEF Cancel, Types
  <2>2. SandboxInv'
    BY <1>7, <1>0 DEF Cancel, Types, SandboxInv, Preparing
  <2>3. TaskInv'
    BY <1>7, <1>0 DEF Cancel, Types, TaskInv, Preparing, Steps
  <2>4. VerdictInv'
    BY <1>7, <1>0 DEF Cancel, Types, VerdictInv, Preparing
  <2> QED
    BY <2>0, <2>1, <2>2, <2>3, <2>4 DEF GInv
<1>8. CASE Reclaim
  <2>0. Flags'
    BY <1>8, <1>0, Zenon DEF Reclaim, Flags
  <2>1. Types'
    BY <1>8, <1>0 DEF Reclaim, Types
  <2>2. SandboxInv'
    BY <1>8, <1>0 DEF Reclaim, Types, SandboxInv, Preparing
  <2>3. TaskInv'
    BY <1>8, <1>0 DEF Reclaim, Types, TaskInv, Preparing, Steps
  <2>4. VerdictInv'
    BY <1>8, <1>0 DEF Reclaim, Types, VerdictInv, Preparing
  <2> QED
    BY <2>0, <2>1, <2>2, <2>3, <2>4 DEF GInv
<1> QED
  BY <1>1, <1>2, <1>3, <1>4, <1>5, <1>6, <1>7, <1>8

LEMMA NextGInv == GInv /\ [Next]_vars => GInv'
<1>1. GInv /\ Next => GInv'
  BY PreparationStep, GradingStep, TeardownStep DEF Next
<1>2. GInv /\ UNCHANGED vars => GInv'
  <2> SUFFICES ASSUME GInv, UNCHANGED vars PROVE GInv'
    OBVIOUS
  <2>1. Flags'
    BY Zenon DEF GInv, Flags, vars
  <2>2. Types'
    BY DEF GInv, Types, vars
  <2>3. SandboxInv' /\ TaskInv' /\ VerdictInv'
    BY DEF GInv, SandboxInv, TaskInv, VerdictInv, vars
  <2> QED
    BY <2>1, <2>2, <2>3 DEF GInv
<1> QED
  BY <1>1, <1>2

LEMMA EngineProperties ==
  GInv => SandboxNotForgotten /\ EvaluationStoppedFirst /\ AnswerIsTheVerdict
  BY DEF GInv, Types, SandboxInv, TaskInv, VerdictInv, SandboxNotForgotten,
         EvaluationStoppedFirst, AnswerIsTheVerdict

\* Every exit of one sandbox grade (grade_instance_stream and its teardown) deletes the
\* sandbox it holds, stops the evaluation first and answers with its verdict.
THEOREM EngineCorrect ==
  Spec => [](SandboxNotForgotten /\ EvaluationStoppedFirst /\ AnswerIsTheVerdict)
  BY InitGInv, NextGInv, EngineProperties, PTL DEF Spec

\* The variables of GradeRun keep their types.
THEOREM EngineTyped == Spec => []TypeOK
<1>1. GInv => TypeOK
  BY DEF GInv, Flags, Types, VerdictInv, TypeOK
<1> QED
  BY <1>1, InitGInv, NextGInv, PTL DEF Spec
-----------------------------------------------------------------------------
(***************************************************************************)
(* The request.                                                            *)
(***************************************************************************)

InProcess == {"bytes", "file"}

RTypes ==
  /\ mode \in Modes
  /\ stage \in {"stat", "engine", "fetch", "evaluating", "closing", "leaving", "over"}

\* Where the engine is used, and what the other variables of GradeRun hold elsewhere.
EngineInv ==
  /\ stage = "engine" => GInv /\ mode \in {"text", "sandbox"}
  /\ stage # "engine" =>
       phase = "retrieve" /\ held = FALSE /\ sandbox = "none" /\ task = "none" /\ deletion = "none"
  /\ stage \in {"fetch", "evaluating", "closing"} => mode \in InProcess
  /\ stage = "leaving" => mode = "file"
  /\ mode = "text" => stage = "engine"

\* The engine's variables that a request outside the engine never touches.
Untouched == expired = FALSE /\ late = FALSE /\ cancelled \in BOOLEAN

FoldInv ==
  /\ stage # "engine" => Untouched
  /\ stage \in {"stat", "fetch"} =>
       terminal = "none" /\ unwinding = FALSE /\ stream = "none" /\ answer = "none"
  /\ stage \in {"evaluating", "closing"} =>
       stream = "open" /\ unwinding = FALSE /\ answer = "none"
  /\ stage = "evaluating" => terminal = "none"
  /\ stage = "closing" => terminal \in {"result", "error"}
  /\ stage \in {"leaving", "over"} =>
       stream # "open" /\ (answer = "evaluated" => terminal = "result")

Accepted == accepted \in Versions \ Oversized

\* The object, from its admission to the copy.
CopyInv ==
  /\ mode = "text" => accepted = None /\ copy = None
  /\ stage = "stat" => accepted = None /\ copy = None
  /\ stage \in {"fetch", "evaluating", "closing"} => Accepted
  /\ stage = "engine" /\ mode = "sandbox" => Accepted
  /\ worker = "read" => body = accepted
  /\ stage = "fetch" => copy = None
  /\ stage \in {"evaluating", "closing"} => copy = accepted
  /\ mode # "text" /\ stream # "none" => copy = accepted /\ Accepted
  /\ mode = "sandbox" /\ copy # None => copy = accepted
  /\ mode = "sandbox" /\ phase = "grading" => copy # None

\* A thread works only where its caller waits for it.
WorkInv ==
  /\ worker \in {"none", "head", "get", "read", "remove"}
  /\ worker = "head" => stage = "stat"
  /\ worker \in {"get", "read"} => stage = "fetch" \/ (stage = "engine" /\ Downloading)
  /\ worker = "remove" => stage = "leaving"
  /\ mode # "file" => directory = "none"
  /\ mode = "file" /\ stage = "stat" => directory = "none"
  /\ mode = "file" /\ stage \in {"evaluating", "closing"} => directory = "whole"
  /\ stage = "over" => directory \in {"none", "gone"}

EInv == RTypes /\ EngineInv /\ FoldInv /\ CopyInv /\ WorkInv
-----------------------------------------------------------------------------
LEMMA InitEInv == EvaluationInit => EInv
<1> SUFFICES ASSUME EvaluationInit PROVE EInv
  OBVIOUS
<1> USE DEF EvaluationInit
<1>1. GInv
  BY InitGInv
<1>2. RTypes /\ EngineInv
  BY <1>1 DEF RTypes, EngineInv, Modes, InProcess, Init
<1>3. FoldInv
  BY DEF FoldInv, Untouched, Init, Modes
<1>4. CopyInv
  BY DEF CopyInv, Init, Artifact!Init, Modes
<1>5. WorkInv
  BY DEF WorkInv, Artifact!Init, Modes
<1> QED
  BY <1>2, <1>3, <1>4, <1>5 DEF EInv

\* A thread that begins or goes on, and a change of the object, touch nothing else.
LEMMA ThreadStep ==
  ASSUME EInv, StartWork \/ WorkGoesOn \/ ObjectChanges
  PROVE  EInv'
<1>0. RTypes /\ EngineInv /\ FoldInv /\ CopyInv /\ WorkInv
  BY DEF EInv
<1>1. UNCHANGED <<vars, requestVars, accepted, copy>>
  BY DEF StartWork, WorkGoesOn, ObjectChanges, Artifact!Start, Artifact!GetAnswers,
         Artifact!Upload
<1>2. RTypes' /\ FoldInv'
  BY <1>0, <1>1 DEF RTypes, FoldInv, Untouched, vars, requestVars
<1>3. EngineInv'
  <2>1. GInv => GInv'
    BY <1>1, NextGInv
  <2> QED
    BY <2>1, <1>0, <1>1 DEF EngineInv, vars, requestVars
<1>4. CopyInv' /\ WorkInv'
  <2>1. CASE StartWork
    <3>1. PICK work \in {"head", "get", "remove"} :
            /\ worker = "none" /\ worker' = work
            /\ directory' = IF work = "get" /\ mode = "file" THEN "empty" ELSE directory
            /\ UNCHANGED body
            /\ work = "head" => stage = "stat"
            /\ work = "get" => stage = "fetch" \/ (stage = "engine" /\ Downloading)
            /\ work = "remove" => stage = "leaving"
      BY <2>1 DEF StartWork, Artifact!Start, InFile
    <3>2. CopyInv'
      BY <3>1, <1>0, <1>1 DEF CopyInv, Accepted, vars, requestVars
    <3>3. WorkInv'
      BY <3>1, <1>0, <1>1 DEF WorkInv, Downloading, EngineInv, vars, requestVars
    <3> QED
      BY <3>2, <3>3
  <2>2. CASE WorkGoesOn
    <3>1. /\ worker = "get" /\ object = accepted
          /\ worker' = "read" /\ body' = object /\ UNCHANGED directory
      BY <2>2 DEF WorkGoesOn, Artifact!GetAnswers
    <3>2. CopyInv'
      BY <3>1, <1>0, <1>1 DEF CopyInv, Accepted, vars, requestVars
    <3>3. WorkInv'
      BY <3>1, <1>0, <1>1 DEF WorkInv, Downloading, vars, requestVars
    <3> QED
      BY <3>2, <3>3
  <2>3. CASE ObjectChanges
    <3>1. UNCHANGED <<worker, body, directory>>
      BY <2>3 DEF ObjectChanges, Artifact!Upload
    <3>2. CopyInv'
      BY <3>1, <1>0, <1>1 DEF CopyInv, Accepted, vars, requestVars
    <3>3. WorkInv'
      BY <3>1, <1>0, <1>1 DEF WorkInv, Downloading, vars, requestVars
    <3> QED
      BY <3>2, <3>3
  <2> QED
    BY <2>1, <2>2, <2>3
<1> QED
  BY <1>2, <1>3, <1>4 DEF EInv

\* The engine begins with nothing done, except that it may already be cancelled.
NotBegun ==
  /\ phase = "retrieve" /\ held = FALSE /\ sandbox = "none" /\ task = "none"
  /\ deletion = "none" /\ Untouched /\ terminal = "none" /\ unwinding = FALSE
  /\ stream = "none" /\ answer = "none"
LEMMA EngineBegins == NotBegun => GInv
<1> SUFFICES ASSUME NotBegun PROVE GInv
  OBVIOUS
<1> USE DEF NotBegun
<1>1. Flags /\ Types
  BY DEF Untouched, Flags, Types, Phases, Preparing
<1>2. SandboxInv /\ TaskInv /\ VerdictInv
  BY DEF SandboxInv, TaskInv, VerdictInv, Preparing
<1> QED
  BY <1>1, <1>2 DEF GInv

\* The admission: what is accepted is not too large.
LEMMA StatStep ==
  ASSUME EInv, NEW out, StatEnds(out)
  PROVE  EInv'
<1>0. RTypes /\ EngineInv /\ FoldInv /\ CopyInv /\ WorkInv
  BY DEF EInv
<1>1. /\ UNCHANGED <<phase, expired, late, held, sandbox, task, deletion, cancelled,
                     unwinding, stream, terminal, mode, body, copy, directory>>
      /\ stage = "stat" /\ worker' = "none"
      /\ accepted' = accepted \/ (accepted' \in Versions \ Oversized)
      /\ \/ answer' \in {"cancelled", "rejected"} /\ stage' = "over"
         \/ /\ UNCHANGED answer /\ accepted' \in Versions \ Oversized
            /\ stage' = IF mode = "sandbox" THEN "engine" ELSE "fetch"
  BY DEF StatEnds, Artifact!HeadEnds, Leave, InFile, engineVars
<1>2. mode \in {"sandbox", "bytes", "file"}
  BY <1>0, <1>1 DEF RTypes, EngineInv, Modes
<1>3. RTypes'
  BY <1>0, <1>1 DEF RTypes
<1>4. FoldInv'
  BY <1>0, <1>1 DEF FoldInv, Untouched
<1>5. EngineInv'
  <2>1. CASE stage' = "engine"
    <3>1. GInv'
      <4>1. NotBegun'
        BY <1>0, <1>1, <2>1 DEF NotBegun, EngineInv, FoldInv, Untouched
      <4> QED
        BY <4>1, EngineBegins, PTL
    <3>2. mode = "sandbox"
      BY <1>1, <2>1
    <3> QED
      BY <2>1, <3>1, <3>2, <1>1 DEF EngineInv
  <2>2. CASE stage' # "engine"
    BY <1>0, <1>1, <1>2, <2>2 DEF EngineInv, InProcess
  <2> QED
    BY <2>1, <2>2
<1>6. CopyInv'
  BY <1>0, <1>1, <1>2 DEF CopyInv, Accepted, EngineInv, FoldInv
<1>7. WorkInv'
  BY <1>0, <1>1 DEF WorkInv
<1> QED
  BY <1>3, <1>4, <1>5, <1>6, <1>7 DEF EInv

\* What a read of the body gives is what was accepted.
LEMMA ReadGives ==
  ASSUME EInv, NEW out, NEW file \in BOOLEAN,
         Artifact!GetEnds(out) \/ Artifact!ReadEnds(out, file)
  PROVE  /\ worker' = "none" /\ UNCHANGED <<object, uploads, accepted, body>>
         /\ copy' \in {copy, accepted}
         /\ out = "ok" => copy' = accepted /\ (file => directory' = "whole")
         /\ worker \in {"get", "read"}
         /\ ~ file => UNCHANGED directory
<1>1. CASE Artifact!GetEnds(out)
  BY <1>1 DEF Artifact!GetEnds
<1>2. CASE Artifact!ReadEnds(out, file)
  <2>1. body = accepted /\ worker = "read"
    BY <1>2 DEF Artifact!ReadEnds, EInv, CopyInv
  <2> QED
    BY <1>2, <2>1 DEF Artifact!ReadEnds
<1> QED
  BY <1>1, <1>2

LEMMA FetchStep ==
  ASSUME EInv, NEW out, FetchEnds(out)
  PROVE  EInv'
<1>0. RTypes /\ EngineInv /\ FoldInv /\ CopyInv /\ WorkInv
  BY DEF EInv
<1>1. /\ UNCHANGED <<phase, expired, late, held, sandbox, task, deletion, cancelled,
                     unwinding, terminal, mode>>
      /\ stage = "fetch"
      /\ \/ /\ answer' \in {"cancelled", "rejected"} /\ UNCHANGED stream
            /\ stage' = IF mode = "file" THEN "leaving" ELSE "over"
         \/ /\ stage' = "evaluating" /\ stream' = "open" /\ UNCHANGED answer
            /\ out = "ok"
  BY DEF FetchEnds, Leave, InFile, engineVars
<1>2. /\ worker' = "none" /\ UNCHANGED <<accepted, body>>
      /\ copy' \in {copy, accepted}
      /\ out = "ok" => copy' = accepted /\ (mode = "file" => directory' = "whole")
      /\ mode # "file" => UNCHANGED directory
  <2>1. (mode = "file") \in BOOLEAN
    OBVIOUS
  <2> QED
    BY <2>1, ReadGives DEF FetchEnds, InFile
<1>3. mode \in InProcess
  BY <1>0, <1>1 DEF EngineInv
<1>4. RTypes' /\ EngineInv'
  BY <1>0, <1>1, <1>3 DEF RTypes, EngineInv, InProcess
<1>5. FoldInv'
  BY <1>0, <1>1 DEF FoldInv, Untouched
<1>6. CopyInv'
  BY <1>0, <1>1, <1>2, <1>3 DEF CopyInv, Accepted, FoldInv, InProcess
<1>7. WorkInv'
  BY <1>0, <1>1, <1>2, <1>3 DEF WorkInv, InProcess
<1> QED
  BY <1>4, <1>5, <1>6, <1>7 DEF EInv

LEMMA DownloadStep ==
  ASSUME EInv, NEW out, DownloadEnds(out)
  PROVE  EInv'
<1>0. RTypes /\ EngineInv /\ FoldInv /\ CopyInv /\ WorkInv
  BY DEF EInv
<1>1. /\ worker' = "none" /\ UNCHANGED <<accepted, body, directory, mode, stage>>
      /\ copy' \in {copy, accepted} /\ worker \in {"get", "read"}
      /\ out = "ok" => copy' = accepted
      /\ stage = "engine"
  BY ReadGives DEF DownloadEnds, requestVars
<1>2. mode = "sandbox" /\ phase = "prepare" /\ GInv /\ Accepted
  BY <1>0, <1>1 DEF WorkInv, Downloading, EngineInv, CopyInv
<1>3. /\ PreparationInterrupted \/ PreparationFails \/ UNCHANGED vars
      /\ phase' # phase => phase' = "stopping"
      /\ stream' = stream
  BY DEF DownloadEnds, PreparationInterrupted, PreparationFails, vars
<1>4. GInv'
  BY <1>2, <1>3, NextGInv DEF Next
<1>5. RTypes' /\ EngineInv' /\ FoldInv'
  BY <1>0, <1>1, <1>4 DEF RTypes, EngineInv, FoldInv
<1>6. stream = "none"
  BY <1>2 DEF GInv, TaskInv, Preparing
<1>7. CopyInv'
  BY <1>0, <1>1, <1>2, <1>3, <1>6 DEF CopyInv, Accepted
<1>8. WorkInv'
  BY <1>0, <1>1 DEF WorkInv
<1> QED
  BY <1>5, <1>7, <1>8 DEF EInv

LEMMA RemovalStep ==
  ASSUME EInv, RemovalEnds
  PROVE  EInv'
<1>0. RTypes /\ EngineInv /\ FoldInv /\ CopyInv /\ WorkInv
  BY DEF EInv
<1>1. /\ UNCHANGED <<phase, expired, late, held, sandbox, task, deletion, cancelled,
                     unwinding, terminal, stream, mode, accepted, body, copy>>
      /\ stage = "leaving" /\ stage' = "over"
      /\ answer' \in {answer, "cancelled"}
      /\ worker' = "none" /\ directory' = "gone"
  BY DEF RemovalEnds, Artifact!RemoveEnds, engineVars
<1>2. RTypes' /\ EngineInv'
  BY <1>0, <1>1 DEF RTypes, EngineInv, InProcess
<1>3. FoldInv'
  BY <1>0, <1>1 DEF FoldInv, Untouched
<1>4. CopyInv' /\ WorkInv'
  BY <1>0, <1>1 DEF CopyInv, WorkInv, EngineInv, Accepted
<1> QED
  BY <1>2, <1>3, <1>4 DEF EInv

\* An evaluation in this process and the close of its stream.
LEMMA FoldStep ==
  ASSUME EInv,
         \/ \E kind \in {"result", "error"} : EvaluationYields(kind)
         \/ EvaluationCancels
         \/ \E how \in {"closed", "abandoned"} : StreamCloses(how)
  PROVE  EInv'
<1>0. RTypes /\ EngineInv /\ FoldInv /\ CopyInv /\ WorkInv
  BY DEF EInv
<1>1. /\ UNCHANGED <<phase, expired, late, held, sandbox, task, deletion, cancelled, mode,
                     accepted, body, copy, worker, directory>>
      /\ stage \in {"evaluating", "closing"}
      /\ \/ /\ stage' = "closing" /\ terminal' \in {"result", "error"}
            /\ UNCHANGED <<unwinding, stream, answer>>
         \/ /\ stage' = IF mode = "file" THEN "leaving" ELSE "over"
            /\ stream' \in {"closed", "abandoned"} /\ UNCHANGED terminal
            /\ answer' = "evaluated" => terminal = "result"
  BY <1>0 DEF EvaluationYields, EvaluationCancels, StreamCloses, Leave, InFile, engineVars,
              artifactVars
<1>2. mode \in InProcess /\ worker = "none"
  BY <1>0, <1>1 DEF EngineInv, WorkInv
<1>3. RTypes' /\ EngineInv'
  BY <1>0, <1>1, <1>2 DEF RTypes, EngineInv, InProcess
<1>4. FoldInv'
  BY <1>0, <1>1 DEF FoldInv, Untouched
<1>5. CopyInv' /\ WorkInv'
  BY <1>0, <1>1, <1>2 DEF CopyInv, WorkInv, InProcess, Accepted
<1> QED
  BY <1>3, <1>4, <1>5 DEF EInv

\* While a download goes on nothing but its timeout and a cancellation happens to the
\* engine; no evaluation begins without a preparation that went through.
LEMMA EngineKeepsDownload ==
  ASSUME EngineSteps, GInv
  PROVE  /\ Downloading => phase' = phase
         /\ phase' = "grading" /\ phase # "grading" => phase = "prepare" /\ ~ Downloading
         /\ stream' # "none" /\ stream = "none" => phase = "prepare" /\ ~ Downloading
<1> USE DEF GInv, TaskInv, Preparing
<1>1. CASE /\ ~ Downloading
           /\ \/ Prepared \/ PreparationFails \/ PreparationInterrupted
              \/ PreparationSelfCancels
  BY <1>1 DEF Prepared, PreparationFails, PreparationInterrupted, PreparationSelfCancels
<1>2. CASE PreparationExpires \/ (\E s \in Steps : EvaluationSteps(s)) \/ DeadlinePasses
  BY <1>2 DEF PreparationExpires, EvaluationSteps, DeadlinePasses, Downloading
<1>3. CASE \/ ReceiveMessage \/ ReceiveEnd \/ ReceiveCancellation
           \/ GradeTimesOut \/ GradeInterrupted
  BY <1>3 DEF ReceiveMessage, ReceiveEnd, ReceiveCancellation, GradeTimesOut,
              GradeInterrupted, Downloading
<1>4. CASE Stopped \/ StopExpires
  BY <1>4 DEF Stopped, StopExpires, AfterClose, Downloading
<1>5. CASE \/ (\E how \in {"closed", "abandoned"} : Close(how))
           \/ (\E how \in {"done", "failed", "expired"} : Delete(how))
  BY <1>5 DEF Close, Delete, AfterClose, Downloading
<1>6. CASE Answer \/ Return \/ Reclaim
  BY <1>6 DEF Answer, Return, Reclaim, Downloading
<1> QED
  BY <1>1, <1>2, <1>3, <1>4, <1>5, <1>6 DEF EngineSteps

LEMMA EngineStep ==
  ASSUME EInv, EngineSteps
  PROVE  EInv'
<1>0. RTypes /\ EngineInv /\ FoldInv /\ CopyInv /\ WorkInv
  BY DEF EInv
<1>1. stage = "engine" /\ UNCHANGED <<mode, stage, accepted, body, copy, worker, directory>>
  BY DEF EngineSteps, requestVars, artifactVars
<1>2. GInv /\ mode \in {"text", "sandbox"}
  BY <1>0, <1>1 DEF EngineInv
<1>3. GInv'
  BY <1>2, NextGInv DEF EngineSteps, Next
<1>4. RTypes' /\ EngineInv' /\ FoldInv'
  BY <1>0, <1>1, <1>2, <1>3 DEF RTypes, EngineInv, FoldInv
<1>5. /\ Downloading => phase' = phase
      /\ phase' = "grading" /\ phase # "grading" => phase = "prepare" /\ ~ Downloading
      /\ stream' # "none" /\ stream = "none" => phase = "prepare" /\ ~ Downloading
  BY <1>2, EngineKeepsDownload
<1>6. CopyInv'
  BY <1>0, <1>1, <1>2, <1>5 DEF CopyInv, Accepted, Downloading
<1>7. WorkInv'
  BY <1>0, <1>1, <1>2, <1>5 DEF WorkInv, Downloading
<1> QED
  BY <1>4, <1>6, <1>7 DEF EInv

LEMMA CancelStep ==
  ASSUME EInv, CancelRequest
  PROVE  EInv'
<1>0. RTypes /\ EngineInv /\ FoldInv /\ CopyInv /\ WorkInv
  BY DEF EInv
<1>1. /\ cancelled' = TRUE
      /\ UNCHANGED <<phase, expired, late, unwinding, held, sandbox, task, stream, terminal,
                     deletion, answer, mode, stage, accepted, body, copy, worker, directory>>
  BY DEF CancelRequest, Cancel, requestVars, artifactVars
<1>2. GInv => GInv'
  BY NextGInv DEF CancelRequest, Next
<1>3. RTypes' /\ EngineInv'
  BY <1>0, <1>1, <1>2 DEF RTypes, EngineInv
<1>4. FoldInv'
  BY <1>0, <1>1 DEF FoldInv, Untouched
<1>5. CopyInv' /\ WorkInv'
  BY <1>0, <1>1 DEF CopyInv, WorkInv, Accepted, Downloading
<1> QED
  BY <1>3, <1>4, <1>5 DEF EInv

LEMMA NextEInv == EInv /\ [EvaluationNext]_allVars => EInv'
<1> SUFFICES ASSUME EInv, [EvaluationNext]_allVars PROVE EInv'
  OBVIOUS
<1>1. CASE UNCHANGED allVars
  <2>1. UNCHANGED <<vars, mode, stage, accepted, body, copy, worker, directory>>
    BY <1>1 DEF allVars, requestVars, artifactVars
  <2>2. GInv => GInv'
    BY <2>1, NextGInv
  <2>3. RTypes' /\ EngineInv' /\ FoldInv'
    BY <2>1, <2>2 DEF EInv, RTypes, EngineInv, FoldInv, Untouched, vars
  <2>4. CopyInv' /\ WorkInv'
    BY <2>1 DEF EInv, CopyInv, WorkInv, Accepted, Downloading, vars
  <2> QED
    BY <2>3, <2>4 DEF EInv
<1>2. CASE EvaluationNext
  BY <1>2, ThreadStep, StatStep, FetchStep, DownloadStep, RemovalStep, FoldStep, EngineStep,
     CancelStep DEF EvaluationNext
<1> QED
  BY <1>1, <1>2

LEMMA EvaluationInductive == EvaluationSpec => []EInv
  BY InitEInv, NextEInv, PTL DEF EvaluationSpec
-----------------------------------------------------------------------------
\* The sandbox, the bytes or the file that an evaluation of _v1_evaluate_in_scope is given
\* are the whole of the version that its admission accepted, whatever is uploaded then.
THEOREM AcceptedIsGraded == EvaluationSpec => []GradesWhatWasAccepted
<1>1. EInv => GradesWhatWasAccepted
  <2> SUFFICES ASSUME EInv PROVE GradesWhatWasAccepted
    OBVIOUS
  <2>1. ASSUME mode # "text", stream # "none" \/ phase = "grading"
        PROVE  copy = accepted /\ accepted \in Versions \ Oversized
    <3>1. CASE stream # "none"
      BY <2>1, <3>1 DEF EInv, CopyInv, Accepted
    <3>2. CASE phase = "grading"
      <4>1. stage = "engine" /\ mode = "sandbox"
        BY <2>1, <3>2 DEF EInv, EngineInv
      <4> QED
        BY <3>2, <4>1 DEF EInv, CopyInv, Accepted, EngineInv, GInv, TaskInv
    <3> QED
      BY <2>1, <3>1, <3>2
  <2>2. ASSUME mode = "file", stream = "open" PROVE directory = "whole"
    <3>1. stage \in {"evaluating", "closing"}
      BY <2>2 DEF EInv, RTypes, EngineInv, FoldInv
    <3> QED
      BY <2>2, <3>1 DEF EInv, WorkInv
  <2> QED
    BY <2>1, <2>2 DEF GradesWhatWasAccepted
<1> QED
  BY <1>1, EvaluationInductive, PTL

\* A request of _v1_evaluate_in_scope that is over has no thread and no directory.
THEOREM RequestCleanedUp == EvaluationSpec => []NothingLeftBehind
<1>1. EInv => NothingLeftBehind
  <2> SUFFICES ASSUME EInv, Over PROVE worker = "none" /\ directory \in {"none", "gone"}
    BY DEF NothingLeftBehind
  <2>1. CASE stage = "over"
    BY <2>1 DEF EInv, WorkInv
  <2>2. CASE stage # "over" /\ phase = "ended"
    <3>1. stage = "engine" /\ mode \in {"text", "sandbox"}
      BY <2>2 DEF EInv, EngineInv
    <3> QED
      BY <2>2, <3>1 DEF EInv, WorkInv, Downloading
  <2> QED
    BY <2>1, <2>2 DEF Over
<1> QED
  BY <1>1, EvaluationInductive, PTL

LEMMA EngineKept ==
  EInv => SandboxNotForgotten /\ EvaluationStoppedFirst /\ AnswerIsTheVerdict
<1> SUFFICES ASSUME EInv
             PROVE  SandboxNotForgotten /\ EvaluationStoppedFirst /\ AnswerIsTheVerdict
  OBVIOUS
<1>1. CASE stage = "engine"
  BY <1>1, EngineProperties DEF EInv, EngineInv
<1>2. CASE stage # "engine"
  <2>1. phase = "retrieve" /\ (answer = "evaluated" => terminal = "result")
    BY <1>2 DEF EInv, RTypes, EngineInv, FoldInv
  <2> QED
    BY <2>1 DEF SandboxNotForgotten, EvaluationStoppedFirst, AnswerIsTheVerdict
<1> QED
  BY <1>1, <1>2

\* Where the request uses the engine, a sandbox it created is deleted, or its deletion
\* was tried, before the request is answered.
THEOREM SandboxesEnd == EvaluationSpec => []SandboxNotForgotten
BY EngineKept, EvaluationInductive, PTL

\* The generator is not closed nor the sandbox deleted while the evaluation could
\* still be stopped: the teardown keeps its order inside a request, too.
THEOREM TeardownOrdered == EvaluationSpec => []EvaluationStoppedFirst
BY EngineKept, EvaluationInductive, PTL

\* The engine's answer, and the answer of an evaluation in this process, is the
\* result the benchmark yielded, and only if it yielded one.
THEOREM VerdictAnswered == EvaluationSpec => []AnswerIsTheVerdict
BY EngineKept, EvaluationInductive, PTL
-----------------------------------------------------------------------------
(***************************************************************************)
(* The request keeps GradingContract: every step of V1Evaluation is a step *)
(* of the contract or changes nothing that the contract speaks of.         *)
(***************************************************************************)

\* What the engine has and has not done yet, by where it is.
EnginePath ==
  /\ phase \in {"prepare", "grading"} => held
  /\ phase = "grading" => stream = "open"
  /\ phase = "stopping" => stream \in {"none", "open"}
  /\ phase = "closing" => stream = "open" /\ task = "none"
  /\ phase \in {"deleting", "torn down", "answered", "ended"} => stream # "open"
  /\ phase \in Teardown \cup {"answered", "ended"} => unwinding \/ terminal # "none"
  /\ phase \in Preparing \cup {"grading", "stopping", "closing", "deleting"} => deletion = "none"

\* The temporary directory is there from the read until the request leaves, which it does
\* with an answer and without an open stream.
FolderPath ==
  /\ stage = "fetch" /\ worker = "none" => directory = "none"
  /\ mode = "file" /\ worker \in {"get", "read"} => directory \in {"empty", "partial", "whole"}
  /\ stage = "leaving" =>
       directory # "none" /\ answer # "none" /\ stream \in {"none", "closed", "abandoned"}

CInv == EInv /\ EnginePath /\ FolderPath

LEMMA InitCInv == EvaluationInit => CInv
<1>1. EvaluationInit => EnginePath
  BY DEF EvaluationInit, Init, EnginePath, Preparing, Teardown
<1>2. EvaluationInit => FolderPath
  BY DEF EvaluationInit, Artifact!Init, FolderPath
<1> QED
  BY <1>1, <1>2, InitEInv DEF CInv

LEMMA NextEnginePath ==
  ASSUME GInv, EnginePath, [Next]_vars
  PROVE  EnginePath'
<1>0. Types /\ SandboxInv /\ TaskInv /\ VerdictInv
  BY DEF GInv
<1> USE DEF EnginePath, Preparing, Teardown
<1>1. CASE Prepared
  BY <1>1, <1>0 DEF Prepared, VerdictInv, TaskInv
<1>2. CASE PreparationFails \/ PreparationInterrupted \/ PreparationSelfCancels
  BY <1>2, <1>0 DEF PreparationFails, PreparationInterrupted, PreparationSelfCancels, TaskInv
<1>3. CASE PreparationExpires \/ DeadlinePasses \/ (\E s \in Steps : EvaluationSteps(s))
  BY <1>3, <1>0 DEF PreparationExpires, DeadlinePasses, EvaluationSteps
<1>4. CASE \/ ReceiveMessage \/ ReceiveEnd \/ ReceiveCancellation
           \/ GradeTimesOut \/ GradeInterrupted
  BY <1>4, <1>0 DEF ReceiveMessage, ReceiveEnd, ReceiveCancellation, GradeTimesOut,
                    GradeInterrupted
<1>5. CASE Stopped \/ StopExpires
  BY <1>5, <1>0 DEF Stopped, StopExpires, AfterClose
<1>6. ASSUME NEW how \in {"closed", "abandoned"}, Close(how) PROVE EnginePath'
  BY <1>6, <1>0 DEF Close, AfterClose
<1>7. ASSUME NEW how \in {"done", "failed", "expired"}, Delete(how) PROVE EnginePath'
  BY <1>7, <1>0 DEF Delete
<1>8. CASE Answer \/ Return
  BY <1>8, <1>0 DEF Answer, Return
<1>9. CASE Cancel \/ Reclaim \/ UNCHANGED vars
  BY <1>9, <1>0 DEF Cancel, Reclaim, vars
<1> QED
  BY <1>1, <1>2, <1>3, <1>4, <1>5, <1>6, <1>7, <1>8, <1>9 DEF Next

\* The engine's variables outside the engine, and a step of the engine inside a request.
LEMMA EngineOutside ==
  ASSUME EInv, stage # "engine", UNCHANGED engineVars
  PROVE  EnginePath'
  BY DEF EInv, EngineInv, engineVars, EnginePath, Preparing, Teardown

LEMMA NextCInv == CInv /\ [EvaluationNext]_allVars => CInv'
<1> SUFFICES ASSUME CInv, [EvaluationNext]_allVars PROVE CInv'
  OBVIOUS
<1>0. EInv /\ EnginePath /\ FolderPath
  BY DEF CInv
<1>1. EInv'
  BY <1>0, NextEInv
<1>2. EnginePath'
  <2>1. CASE [Next]_vars /\ stage = "engine"
    BY <2>1, <1>0, NextEnginePath DEF EInv, EngineInv
  <2>2. CASE stage # "engine" /\ UNCHANGED engineVars
    BY <2>2, <1>0, EngineOutside
  <2>3. ASSUME NEW out, DownloadEnds(out) PROVE [Next]_vars /\ stage = "engine"
    BY <2>3 DEF DownloadEnds, Next
  <2>4. ASSUME NEW out, StatEnds(out) \/ FetchEnds(out) PROVE stage # "engine" /\ UNCHANGED engineVars
    BY <2>4 DEF StatEnds, FetchEnds
  <2>5. EngineSteps => [Next]_vars /\ stage = "engine"
    BY DEF EngineSteps, Next
  <2>6. \/ RemovalEnds \/ (\E kind \in {"result", "error"} : EvaluationYields(kind))
        \/ EvaluationCancels \/ (\E how \in {"closed", "abandoned"} : StreamCloses(how))
        => stage # "engine" /\ UNCHANGED engineVars
    BY DEF RemovalEnds, EvaluationYields, EvaluationCancels, StreamCloses
  <2>7. CancelRequest => [Next]_vars /\ UNCHANGED engineVars
    BY DEF CancelRequest, Cancel, Next, engineVars
  <2>8. StartWork \/ WorkGoesOn \/ ObjectChanges \/ UNCHANGED allVars => [Next]_vars /\ UNCHANGED engineVars
    BY DEF StartWork, WorkGoesOn, ObjectChanges, allVars, vars, engineVars
  <2> QED
    BY <2>1, <2>2, <2>3, <2>4, <2>5, <2>6, <2>7, <2>8 DEF EvaluationNext
<1>3. FolderPath'
  <2> USE DEF FolderPath
  <2>1. CASE StartWork
    <3>1. PICK work \in {"head", "get", "remove"} :
            /\ worker = "none" /\ worker' = work
            /\ directory' = IF work = "get" /\ mode = "file" THEN "empty" ELSE directory
      BY <2>1 DEF StartWork, Artifact!Start, InFile
    <3> QED
      BY <3>1, <2>1, <1>0 DEF StartWork, vars, requestVars
  <2>2. CASE WorkGoesOn \/ ObjectChanges \/ CancelRequest \/ UNCHANGED allVars
    BY <2>2, <1>0 DEF WorkGoesOn, ObjectChanges, CancelRequest, Cancel, Artifact!GetAnswers,
                      Artifact!Upload, allVars, vars, requestVars, artifactVars
  <2>3. ASSUME NEW out, StatEnds(out) PROVE FolderPath'
    <3>1. /\ stage = "stat" /\ worker' = "none" /\ UNCHANGED <<directory, mode>>
          /\ stage' \in {"engine", "fetch", "over"}
      BY <2>3 DEF StatEnds, Artifact!HeadEnds, Leave
    <3>2. stage' = "fetch" => mode # "sandbox"
      BY <2>3 DEF StatEnds, Leave
    <3> QED
      BY <3>1, <3>2, <1>0 DEF EInv, WorkInv, EngineInv, RTypes, Modes
  <2>4. ASSUME NEW out, FetchEnds(out) PROVE FolderPath'
    <3>1. /\ worker \in {"get", "read"} /\ worker' = "none" /\ mode' = mode
          /\ directory' \in {directory, "partial", "whole"}
      BY <2>4 DEF FetchEnds, Artifact!GetEnds, Artifact!ReadEnds
    <3>2. \/ stage' = "evaluating"
          \/ /\ mode = "file" /\ stage' = "leaving" /\ answer' # "none"
             /\ stream' = "none"
          \/ stage' = "over"
      BY <2>4, <1>0 DEF FetchEnds, Leave, InFile, EInv, FoldInv
    <3> QED
      BY <3>1, <3>2, <1>0
  <2>5. ASSUME NEW out, DownloadEnds(out) PROVE FolderPath'
    <3>1. stage = "engine" /\ stage' = "engine" /\ worker' = "none"
      BY <2>5 DEF DownloadEnds, Artifact!GetEnds, Artifact!ReadEnds, requestVars
    <3> QED
      BY <3>1
  <2>6. CASE RemovalEnds
    BY <2>6 DEF RemovalEnds, Artifact!RemoveEnds
  <2>7. CASE \/ (\E kind \in {"result", "error"} : EvaluationYields(kind))
             \/ EvaluationCancels \/ (\E how \in {"closed", "abandoned"} : StreamCloses(how))
    <3>1. /\ stage \in {"evaluating", "closing"} /\ UNCHANGED <<mode, worker, directory>>
          /\ \/ stage' \in {"closing", "over"}
             \/ /\ mode = "file" /\ stage' = "leaving" /\ answer' # "none"
                /\ stream' \in {"closed", "abandoned"}
      BY <2>7 DEF EvaluationYields, EvaluationCancels, StreamCloses, Leave, InFile, artifactVars
    <3> QED
      BY <3>1, <1>0 DEF EInv, WorkInv
  <2>8. CASE EngineSteps
    BY <2>8, <1>0 DEF EngineSteps, requestVars, artifactVars
  <2> QED
    BY <2>1, <2>2, <2>3, <2>4, <2>5, <2>6, <2>7, <2>8 DEF EvaluationNext
<1> QED
  BY <1>1, <1>2, <1>3 DEF CInv

LEMMA ContractInductive == EvaluationSpec => []CInv
  BY InitCInv, NextCInv, PTL DEF EvaluationSpec

\* What the contract sees of a request.
Sees == <<mode, accepted, IF stream = "none" THEN None ELSE copy, EvaluationIs,
          IF terminal = "timeout" THEN "error" ELSE terminal, unwinding, answer, cancelled,
          IF directory \in {"none", "gone"} THEN directory ELSE "there",
          IF ~ held THEN "none" ELSE IF deletion = "none" THEN "held" ELSE "returned", Over>>

LEMMA SeenAlike == UNCHANGED Sees => UNCHANGED Contract!contractVars
  BY DEF Sees, Contract!contractVars

LEMMA InitMaps == EvaluationInit => Contract!ContractInit
<1> SUFFICES ASSUME EvaluationInit PROVE Contract!ContractInit
  OBVIOUS
<1>1. /\ accepted = None /\ stream = "none" /\ terminal = "none" /\ unwinding = FALSE
      /\ answer = "none" /\ cancelled = FALSE /\ directory = "none" /\ held = FALSE
      /\ mode \in Modes /\ stage # "over" /\ phase # "ended"
  BY DEF EvaluationInit, Init, Artifact!Init
<1> QED
  BY <1>1 DEF Contract!ContractInit, Contract!Forms, Modes, EvaluationIs, Over

\* The thread of the request.
LEMMA StartMaps ==
  ASSUME CInv, StartWork
  PROVE  (~ Over /\ Contract!Furnishes) \/ UNCHANGED Sees
<1>0. EInv /\ FolderPath
  BY DEF CInv
<1>1. UNCHANGED <<vars, requestVars, accepted, copy>>
  BY DEF StartWork, Artifact!Start
<1>2. CASE UNCHANGED directory
  BY <1>1, <1>2 DEF Sees, EvaluationIs, Over, vars, requestVars
<1>3. CASE directory' # directory
  <2>1. stage = "fetch" /\ mode = "file" /\ worker = "none" /\ directory' = "empty"
    BY <1>3 DEF StartWork, Artifact!Start, InFile, Downloading
  <2>2. directory = "none" /\ answer = "none" /\ phase # "ended"
    BY <2>1, <1>0 DEF FolderPath, EInv, FoldInv, EngineInv
  <2> QED
    BY <1>1, <2>1, <2>2 DEF Contract!Furnishes, EvaluationIs, Over, vars, requestVars
<1> QED
  BY <1>2, <1>3

LEMMA StatMaps ==
  ASSUME CInv, NEW out, StatEnds(out)
  PROVE  /\ ~ Over
         /\ (\E v \in Versions : Contract!TakesIn(v)) \/ (\E a \in {"rejected", "cancelled"} : Contract!Answers(a))
<1>0. EInv
  BY DEF CInv
<1>1. /\ UNCHANGED <<phase, held, task, deletion, cancelled, unwinding, terminal, stream, mode,
                     copy, directory>>
      /\ stage = "stat" /\ mode # "text" /\ accepted = None /\ stream = "none"
      /\ terminal = "none" /\ unwinding = FALSE /\ answer = "none" /\ held = FALSE
      /\ directory = "none" /\ phase = "retrieve" /\ task = "none"
  BY <1>0 DEF StatEnds, EInv, FoldInv, EngineInv, CopyInv, WorkInv, RTypes, Modes, engineVars,
              Artifact!HeadEnds
<1>2. /\ \/ UNCHANGED accepted /\ out # "ok"
         \/ out = "ok" /\ accepted' \in Versions \ Oversized
      /\ IF cancelled THEN answer' = "cancelled" /\ stage' = "over"
         ELSE IF out # "ok" THEN answer' = "rejected" /\ stage' = "over"
         ELSE stage' \in {"engine", "fetch"} /\ UNCHANGED answer
  BY <1>1 DEF StatEnds, Artifact!HeadEnds, Leave, InFile
<1>3. Over = FALSE
  BY <1>1 DEF Over
<1>4. EvaluationIs = "none" /\ EvaluationIs' = "none"
  BY <1>1 DEF EvaluationIs
<1>5. Over' = (stage' = "over")
  BY <1>1 DEF Over
<1>6. CASE out = "ok"
  <2>1. Contract!TakesIn(accepted')
    BY <1>1, <1>2, <1>3, <1>4, <1>5, <1>6 DEF Contract!TakesIn
  <2> QED
    BY <2>1, <1>2, <1>3, <1>6
<1>7. CASE out # "ok"
  <2>1. Contract!Answers(IF cancelled THEN "cancelled" ELSE "rejected")
    BY <1>1, <1>2, <1>3, <1>4, <1>5, <1>7
       DEF Contract!Answers, Contract!Idle, Contract!Decided
  <2> QED
    BY <2>1, <1>3
<1> QED
  BY <1>6, <1>7

\* A read that ends in the request, and the request's way out.
LEMMA FetchMaps ==
  ASSUME CInv, NEW out, FetchEnds(out)
  PROVE  /\ ~ Over
         /\ Contract!Begins \/ \E a \in {"rejected", "cancelled"} : Contract!Answers(a)
<1>0. EInv /\ FolderPath
  BY DEF CInv
<1>1. /\ UNCHANGED <<phase, held, task, deletion, cancelled, unwinding, terminal, mode, accepted>>
      /\ stage = "fetch" /\ mode \in InProcess /\ stream = "none" /\ terminal = "none"
      /\ unwinding = FALSE /\ answer = "none" /\ held = FALSE /\ phase = "retrieve"
      /\ accepted \in Versions \ Oversized
  BY <1>0 DEF FetchEnds, EInv, FoldInv, EngineInv, CopyInv, Accepted, engineVars,
              Artifact!GetEnds, Artifact!ReadEnds
<1>2. /\ \/ UNCHANGED directory
         \/ mode = "file" /\ directory' \in {"partial", "whole"}
      /\ mode # "file" => directory = "none"
      /\ mode = "file" => directory \in {"empty", "partial", "whole"}
      /\ out = "ok" => copy' = accepted
  BY <1>0, <1>1, ReadGives DEF FetchEnds, InFile, Artifact!GetEnds, Artifact!ReadEnds,
              FolderPath, EInv, WorkInv, CopyInv, InProcess
<1>3. IF ~ cancelled /\ out = "ok"
        THEN stage' = "evaluating" /\ stream' = "open" /\ UNCHANGED answer
        ELSE /\ UNCHANGED stream
             /\ answer' = IF cancelled THEN "cancelled" ELSE "rejected"
             /\ stage' = IF mode = "file" THEN "leaving" ELSE "over"
  BY DEF FetchEnds, Leave, InFile
<1>4. Over = FALSE /\ Over' = (stage' = "over")
  BY <1>1 DEF Over
<1>5. EvaluationIs = "none"
  BY <1>1 DEF EvaluationIs
<1>6. CASE ~ cancelled /\ out = "ok"
  <2>1. EvaluationIs' = "running"
    BY <1>3, <1>6 DEF EvaluationIs
  <2>2. Over' = FALSE
    BY <1>3, <1>4, <1>6
  <2> QED
    BY <1>1, <1>2, <1>3, <1>4, <1>5, <1>6, <2>1, <2>2
       DEF Contract!Begins, Contract!Decided, Contract!Rents, InProcess
<1>7. CASE ~ (~ cancelled /\ out = "ok")
  <2>1. EvaluationIs' = "none"
    BY <1>1, <1>3, <1>7 DEF EvaluationIs
  <2>2. Over' \in BOOLEAN /\ (Over' => mode # "file" /\ directory = "none")
    BY <1>2, <1>3, <1>4, <1>7
  <2>3. Contract!Answers(IF cancelled THEN "cancelled" ELSE "rejected")
    BY <1>1, <1>2, <1>3, <1>4, <1>5, <1>7, <2>1, <2>2
       DEF Contract!Answers, Contract!Idle, Contract!Decided, InProcess
  <2> QED
    BY <2>3, <1>4
<1> QED
  BY <1>6, <1>7

LEMMA RemovalMaps ==
  ASSUME CInv, RemovalEnds
  PROVE  ~ Over /\ Contract!Finishes
<1>0. EInv /\ FolderPath
  BY DEF CInv
<1>1. /\ UNCHANGED <<phase, held, task, deletion, cancelled, unwinding, terminal, stream, mode,
                     accepted, copy>>
      /\ stage = "leaving" /\ stage' = "over" /\ directory' = "gone"
      /\ answer' \in IF cancelled THEN {answer, "cancelled"} ELSE {answer}
  BY DEF RemovalEnds, Artifact!RemoveEnds, engineVars
<1>2. /\ answer # "none" /\ directory # "none" /\ stream # "open" /\ held = FALSE
      /\ phase = "retrieve"
  BY <1>0, <1>1 DEF FolderPath, EInv, FoldInv, EngineInv
<1>3. Over = FALSE /\ Over' = TRUE
  BY <1>1, <1>2 DEF Over
<1>4. EvaluationIs = stream /\ EvaluationIs' = stream
  BY <1>1, <1>2 DEF EvaluationIs
<1>5. stream \notin {"running", "ended"}
  BY <1>0, <1>1 DEF FolderPath
<1> QED
  BY <1>1, <1>2, <1>3, <1>4, <1>5 DEF Contract!Finishes, Contract!Idle

\* An evaluation in this process.
LEMMA FoldMaps ==
  ASSUME CInv,
         \/ \E kind \in {"result", "error"} : EvaluationYields(kind)
         \/ EvaluationCancels
         \/ \E how \in {"closed", "abandoned"} : StreamCloses(how)
  PROVE  /\ ~ Over
         /\ \/ \E v \in {"result", "error"} : Contract!Decides(v)
            \/ \E a \in {"evaluated", "error", "cancelled"} : Contract!Answers(a)
<1>0. EInv
  BY DEF CInv
<1>1. /\ UNCHANGED <<phase, held, task, deletion, cancelled, mode, accepted, copy, directory>>
      /\ stage \in {"evaluating", "closing"} /\ stream = "open" /\ unwinding = FALSE
      /\ answer = "none" /\ held = FALSE /\ phase = "retrieve"
      /\ stage = "evaluating" => terminal = "none"
      /\ stage = "closing" => terminal \in {"result", "error"}
      /\ mode # "file" => directory = "none"
  BY <1>0 DEF EvaluationYields, EvaluationCancels, StreamCloses, EInv, FoldInv, EngineInv,
              WorkInv, engineVars, artifactVars
<1>2. Over = FALSE /\ Over' = (stage' = "over")
  BY <1>1 DEF Over
<1>3. EvaluationIs = IF stage = "closing" THEN "ended" ELSE "running"
  BY <1>1 DEF EvaluationIs
<1>4. ASSUME NEW kind \in {"result", "error"}, EvaluationYields(kind)
      PROVE  Contract!Decides(kind)
  <2>1. /\ stage = "evaluating" /\ stage' = "closing" /\ terminal' = kind
        /\ UNCHANGED <<unwinding, stream, answer>>
    BY <1>4 DEF EvaluationYields
  <2>2. EvaluationIs = "running" /\ EvaluationIs' = "ended" /\ Over' = FALSE
    BY <2>1, <1>1, <1>2, <1>3 DEF EvaluationIs
  <2> QED
    BY <1>1, <1>2, <2>1, <2>2
       DEF Contract!Decides, Contract!Decided, Contract!EvaluationEnds
<1>5. ASSUME EvaluationCancels PROVE Contract!Answers("cancelled")
  <2>1. /\ stage = "evaluating" /\ stream' = "closed" /\ unwinding' = TRUE
        /\ answer' = "cancelled" /\ UNCHANGED terminal
        /\ stage' = IF mode = "file" THEN "leaving" ELSE "over"
    BY <1>5 DEF EvaluationCancels, Leave, InFile
  <2>2. EvaluationIs = "running" /\ EvaluationIs' = "closed"
    BY <2>1, <1>1, <1>3 DEF EvaluationIs
  <2>3. Over' \in BOOLEAN /\ (Over' => directory = "none")
    BY <2>1, <1>1, <1>2
  <2> QED
    BY <1>1, <1>2, <2>1, <2>2, <2>3 DEF Contract!Answers, Contract!Idle
<1>6. ASSUME NEW how \in {"closed", "abandoned"}, StreamCloses(how)
      PROVE  \E a \in {"evaluated", "error", "cancelled"} : Contract!Answers(a)
  <2>1. /\ stage = "closing" /\ stream' = how /\ UNCHANGED terminal
        /\ unwinding' = FALSE \/ (unwinding' = TRUE /\ cancelled)
        /\ answer' = IF unwinding' THEN "cancelled"
                     ELSE IF terminal = "result" THEN "evaluated" ELSE "error"
        /\ stage' = IF mode = "file" THEN "leaving" ELSE "over"
    <3>1. cancelled \in BOOLEAN
      BY <1>0, <1>6 DEF EInv, FoldInv, Untouched, StreamCloses
    <3> QED
      BY <1>6, <3>1 DEF StreamCloses, Leave, InFile
  <2>2. EvaluationIs = "ended" /\ EvaluationIs' = how
    BY <2>1, <1>1, <1>3 DEF EvaluationIs
  <2>3. Over' \in BOOLEAN /\ (Over' => directory = "none")
    BY <2>1, <1>1, <1>2
  <2>4. Contract!Answers(answer')
    BY <1>1, <1>2, <2>1, <2>2, <2>3 DEF Contract!Answers, Contract!Idle
  <2> QED
    BY <2>1, <2>4
<1> QED
  BY <1>2, <1>4, <1>5, <1>6

\* A cancellation, and what the contract does not see.
LEMMA CancelMaps ==
  ASSUME CInv, CancelRequest
  PROVE  ~ Over /\ Contract!IsCancelled
  BY DEF CancelRequest, Cancel, Contract!IsCancelled, EvaluationIs, Over, requestVars, artifactVars

LEMMA UnseenMaps ==
  ASSUME WorkGoesOn \/ ObjectChanges \/ UNCHANGED allVars
  PROVE  UNCHANGED Sees
  BY DEF WorkGoesOn, ObjectChanges, Artifact!GetAnswers, Artifact!Upload, allVars, vars,
         requestVars, artifactVars, Sees, EvaluationIs, Over

\* A step of the engine in its place: what the contract sees of its variables.
LEMMA InEngine ==
  ASSUME CInv, stage = "engine", UNCHANGED <<mode, stage, accepted, directory>>
  PROVE  /\ Types /\ SandboxInv /\ TaskInv /\ VerdictInv /\ EnginePath
         /\ Flags
         /\ mode \in {"text", "sandbox"} /\ directory = "none"
         /\ Over = (phase = "ended") /\ Over' = (phase' = "ended")
         /\ EvaluationIs = IF stream # "open" THEN stream
                           ELSE IF task = "none" THEN "ended" ELSE "running"
         /\ EvaluationIs' = IF stream' # "open" THEN stream'
                            ELSE IF task' = "none" THEN "ended" ELSE "running"
  BY DEF CInv, EInv, EngineInv, GInv, WorkInv, Over, EvaluationIs

\* A preparation that does not go through: before there is an evaluation.
LEMMA PreparationEndsMaps ==
  ASSUME CInv, stage = "engine", UNCHANGED <<mode, stage, accepted, directory>>,
         PreparationFails \/ PreparationInterrupted \/ PreparationSelfCancels
  PROVE  ~ Over /\ (Contract!Decides("error") \/ Contract!Breaks)
<1>0. /\ TaskInv /\ VerdictInv /\ Over = (phase = "ended") /\ Over' = (phase' = "ended")
      /\ EvaluationIs = IF stream # "open" THEN stream
                        ELSE IF task = "none" THEN "ended" ELSE "running"
      /\ EvaluationIs' = IF stream' # "open" THEN stream'
                         ELSE IF task' = "none" THEN "ended" ELSE "running"
  BY InEngine
<1>1. /\ phase \in Preparing /\ phase' = "stopping" /\ stream = "none" /\ terminal = "none"
      /\ ~ unwinding /\ answer = "none"
      /\ UNCHANGED <<cancelled, held, task, stream, deletion, answer>>
  BY <1>0 DEF PreparationFails, PreparationInterrupted, PreparationSelfCancels, TaskInv,
              VerdictInv, Preparing
<1>2. /\ EvaluationIs = "none" /\ EvaluationIs' = "none"
      /\ Over = FALSE /\ Over' = FALSE
  BY <1>0, <1>1 DEF Preparing
<1>3. CASE terminal' \in {"error", "timeout"} /\ UNCHANGED unwinding
  BY <1>1, <1>2, <1>3 DEF Contract!Decides, Contract!Decided
<1>4. CASE unwinding' = TRUE /\ UNCHANGED terminal
  BY <1>1, <1>2, <1>4 DEF Contract!Breaks, Contract!Decided
<1>5. \/ terminal' \in {"error", "timeout"} /\ UNCHANGED unwinding
      \/ unwinding' = TRUE /\ UNCHANGED terminal
  BY DEF PreparationFails, PreparationInterrupted, PreparationSelfCancels
<1> QED
  BY <1>2, <1>3, <1>4, <1>5

\* The engine's download, which is no more to the contract than a preparation.
LEMMA DownloadMaps ==
  ASSUME CInv, NEW out, DownloadEnds(out)
  PROVE  (~ Over /\ (Contract!Decides("error") \/ Contract!Breaks)) \/ UNCHANGED Sees
<1>0. EInv
  BY DEF CInv
<1>1. /\ stage = "engine" /\ UNCHANGED <<mode, stage, accepted, directory>>
      /\ worker \in {"get", "read"}
  BY <1>0, ReadGives DEF DownloadEnds, requestVars
<1>2. stream = "none"
  BY <1>0, <1>1 DEF EInv, EngineInv, WorkInv, Downloading, GInv, TaskInv, Preparing
<1>3. CASE UNCHANGED vars
  BY <1>1, <1>2, <1>3 DEF Sees, EvaluationIs, Over, vars
<1>4. CASE PreparationFails \/ PreparationInterrupted
  BY <1>1, <1>4, PreparationEndsMaps
<1> QED
  BY <1>3, <1>4 DEF DownloadEnds

\* A preparation that goes on: a sandbox, then the evaluation in it.
LEMMA PreparedMaps ==
  ASSUME CInv, EngineSteps, ~ Downloading, Prepared
  PROVE  (~ Over /\ (Contract!Hires \/ Contract!Begins)) \/ UNCHANGED Sees
<1>1. stage = "engine" /\ UNCHANGED <<mode, stage, accepted, copy, directory>>
  BY DEF EngineSteps, requestVars, artifactVars
<1>2. /\ SandboxInv /\ TaskInv /\ VerdictInv /\ EnginePath
      /\ mode \in {"text", "sandbox"} /\ Over = (phase = "ended") /\ Over' = (phase' = "ended")
      /\ EvaluationIs = IF stream # "open" THEN stream
                        ELSE IF task = "none" THEN "ended" ELSE "running"
      /\ EvaluationIs' = IF stream' # "open" THEN stream'
                         ELSE IF task' = "none" THEN "ended" ELSE "running"
  BY <1>1, InEngine
<1>3. /\ phase \in Preparing /\ stream = "none" /\ terminal = "none" /\ ~ unwinding
      /\ answer = "none" /\ deletion = "none" /\ Over = FALSE
      /\ UNCHANGED <<cancelled, unwinding, terminal, deletion, answer>>
  BY <1>2 DEF Prepared, TaskInv, VerdictInv, EnginePath, Preparing
<1>4. EvaluationIs = "none"
  BY <1>2, <1>3
<1>5. CASE phase = "retrieve"
  <2>1. phase' = "create" /\ UNCHANGED stream /\ ~ held /\ ~ held'
    BY <1>2, <1>5 DEF Prepared, SandboxInv
  <2>2. EvaluationIs' = "none" /\ Over' = FALSE
    BY <1>2, <1>3, <2>1
  <2> QED
    BY <1>1, <1>3, <1>4, <2>1, <2>2 DEF Sees
<1>6. CASE phase = "create"
  <2>1. phase' = "prepare" /\ UNCHANGED stream /\ ~ held /\ held'
    BY <1>2, <1>6 DEF Prepared, SandboxInv
  <2>2. EvaluationIs' = "none" /\ Over' = FALSE
    BY <1>2, <1>3, <2>1
  <2>3. /\ (IF ~ held THEN "none" ELSE IF deletion = "none" THEN "held" ELSE "returned") = "none"
        /\ (IF ~ held THEN "none" ELSE IF deletion = "none" THEN "held" ELSE "returned")' = "held"
    BY <1>3, <2>1
  <2>4. (IF stream = "none" THEN None ELSE copy)' = (IF stream = "none" THEN None ELSE copy)
    BY <1>1, <2>1
  <2>5. Contract!Rents /\ ~ Contract!Decided
    BY <1>2, <1>3 DEF Contract!Rents, Contract!Decided
  <2>6. Contract!Hires
    BY <1>1, <1>3, <1>4, <2>2, <2>3, <2>4, <2>5 DEF Contract!Hires
  <2> QED
    BY <1>3, <2>6
<1>7. CASE phase = "prepare"
  <2>1. phase' = "grading" /\ stream' = "open" /\ task' = "running" /\ held /\ held'
    BY <1>2, <1>7 DEF Prepared, EnginePath
  <2>2. EvaluationIs' = "running" /\ Over' = FALSE
    BY <1>2, <2>1
  <2>3. copy = accepted /\ (mode # "text" => accepted \in Versions \ Oversized)
    BY <1>1, <1>2, <1>7 DEF CInv, EInv, CopyInv, Accepted, Downloading
  <2> QED
    BY <1>1, <1>2, <1>3, <1>4, <2>1, <2>2, <2>3
       DEF Contract!Begins, Contract!Rents, Contract!Decided
<1> QED
  BY <1>3, <1>5, <1>6, <1>7 DEF Preparing

\* The evaluation's chunks, until one decides or a cancellation does.
LEMMA GradingMaps ==
  ASSUME CInv, stage = "engine", UNCHANGED <<mode, stage, accepted, copy, directory>>,
         \/ ReceiveMessage \/ ReceiveEnd \/ ReceiveCancellation
         \/ GradeTimesOut \/ GradeInterrupted
  PROVE  \/ /\ ~ Over
            /\ (\E v \in {"result", "error"} : Contract!Decides(v)) \/ Contract!Breaks
         \/ UNCHANGED Sees
<1>0. /\ VerdictInv /\ EnginePath /\ Over = (phase = "ended") /\ Over' = (phase' = "ended")
      /\ EvaluationIs = IF stream # "open" THEN stream
                        ELSE IF task = "none" THEN "ended" ELSE "running"
      /\ EvaluationIs' = IF stream' # "open" THEN stream'
                         ELSE IF task' = "none" THEN "ended" ELSE "running"
  BY InEngine
<1>1. /\ phase = "grading" /\ stream = "open" /\ terminal = "none" /\ ~ unwinding
      /\ answer = "none" /\ Over = FALSE
      /\ UNCHANGED <<cancelled, held, stream, deletion, answer>>
  BY <1>0 DEF ReceiveMessage, ReceiveEnd, ReceiveCancellation, GradeTimesOut, GradeInterrupted,
              VerdictInv, EnginePath
<1>2. CASE ReceiveMessage /\ ~ late
  <2>1. /\ task = "message" /\ task' = "running" /\ UNCHANGED <<phase, terminal, unwinding>>
    BY <1>2 DEF ReceiveMessage
  <2>2. EvaluationIs' = EvaluationIs /\ Over' = FALSE
    BY <1>0, <1>1, <2>1
  <2> QED
    BY <1>1, <2>1, <2>2 DEF Sees
<1>3. CASE (ReceiveMessage /\ late) \/ ReceiveEnd
  <2>1. /\ task # "none" /\ task' = "none" /\ phase' = "stopping" /\ UNCHANGED unwinding
        /\ terminal' \in {"result", "error", "timeout"}
    BY <1>3 DEF ReceiveMessage, ReceiveEnd
  <2>2. EvaluationIs = "running" /\ EvaluationIs' = "ended" /\ Over' = FALSE
    BY <1>0, <1>1, <2>1
  <2>3. PICK v \in {"result", "error"} :
          v = IF terminal' = "timeout" THEN "error" ELSE terminal'
    BY <2>1
  <2>4. ~ Contract!Decided /\ Contract!EvaluationEnds
    BY <1>1, <2>2 DEF Contract!Decided, Contract!EvaluationEnds
  <2>5. Contract!Decides(v)
    BY <1>1, <2>1, <2>2, <2>3, <2>4 DEF Contract!Decides
  <2> QED
    BY <1>1, <2>5
<1>4. CASE ReceiveCancellation
  <2>1. /\ task # "none" /\ task' = "none" /\ phase' = "stopping" /\ unwinding' = TRUE
        /\ UNCHANGED terminal
    BY <1>4 DEF ReceiveCancellation
  <2>2. EvaluationIs = "running" /\ EvaluationIs' = "ended" /\ Over' = FALSE
    BY <1>0, <1>1, <2>1
  <2>3. ~ Contract!Decided /\ Contract!EvaluationEnds
    BY <1>1, <2>2 DEF Contract!Decided, Contract!EvaluationEnds
  <2> QED
    BY <1>1, <2>1, <2>2, <2>3 DEF Contract!Breaks
<1>5. CASE GradeTimesOut
  <2>1. /\ UNCHANGED <<task, unwinding>> /\ phase' = "stopping" /\ terminal' = "timeout"
    BY <1>5 DEF GradeTimesOut
  <2>2. EvaluationIs' = EvaluationIs /\ Over' = FALSE
    BY <1>0, <1>1, <2>1
  <2>3. ~ Contract!Decided
    BY <1>1 DEF Contract!Decided
  <2>4. Contract!Decides("error")
    BY <1>1, <2>1, <2>2, <2>3 DEF Contract!Decides
  <2> QED
    BY <1>1, <2>4
<1>6. CASE GradeInterrupted
  <2>1. /\ UNCHANGED <<task, terminal>> /\ phase' = "stopping" /\ unwinding' = TRUE
    BY <1>6 DEF GradeInterrupted
  <2>2. EvaluationIs' = EvaluationIs /\ Over' = FALSE
    BY <1>0, <1>1, <2>1
  <2>3. ~ Contract!Decided
    BY <1>1 DEF Contract!Decided
  <2> QED
    BY <1>1, <2>1, <2>2, <2>3 DEF Contract!Breaks
<1> QED
  BY <1>2, <1>3, <1>4, <1>5, <1>6

\* The evaluation ends its step, or a bound fires: the contract sees neither.
LEMMA QuietMaps ==
  ASSUME CInv, stage = "engine", UNCHANGED <<mode, stage, accepted, copy, directory>>,
         \/ PreparationExpires \/ (\E s \in Steps : EvaluationSteps(s)) \/ DeadlinePasses
         \/ Reclaim
  PROVE  UNCHANGED Sees
<1>1. /\ UNCHANGED <<phase, cancelled, unwinding, held, stream, terminal, deletion, answer>>
      /\ task = "none" <=> task' = "none"
  BY DEF PreparationExpires, EvaluationSteps, DeadlinePasses, Reclaim, Steps
<1> QED
  BY <1>1 DEF Sees, EvaluationIs, Over

\* The teardown: the evaluation stopped and closed, then the sandbox.
LEMMA TeardownMaps ==
  ASSUME CInv, stage = "engine", UNCHANGED <<mode, stage, accepted, copy, directory>>,
         \/ Stopped \/ StopExpires
         \/ \E how \in {"closed", "abandoned"} : Close(how)
  PROVE  (~ Over /\ Contract!Winds) \/ UNCHANGED Sees
<1>0. /\ EnginePath /\ TaskInv /\ Over = (phase = "ended") /\ Over' = (phase' = "ended")
      /\ EvaluationIs = IF stream # "open" THEN stream
                        ELSE IF task = "none" THEN "ended" ELSE "running"
      /\ EvaluationIs' = IF stream' # "open" THEN stream'
                         ELSE IF task' = "none" THEN "ended" ELSE "running"
  BY InEngine
<1>1. /\ phase \in {"stopping", "closing"} /\ Over = FALSE
      /\ stream \in {"none", "open"}
      /\ unwinding \/ terminal # "none"
      /\ UNCHANGED <<cancelled, unwinding, held, terminal, deletion, answer>>
  BY <1>0 DEF Stopped, StopExpires, Close, EnginePath, Teardown
<1>2. Over' = FALSE
  BY <1>0 DEF Stopped, StopExpires, Close, AfterClose
<1>3. /\ UNCHANGED EvaluationIs /\ (UNCHANGED stream)
      \/ /\ stream = "open" /\ stream' # "none"
         /\ \/ EvaluationIs = "running" /\ EvaluationIs' \in {"ended", "abandoned"}
            \/ EvaluationIs = "ended" /\ EvaluationIs' \in {"closed", "abandoned"}
  <2>1. CASE Stopped
    BY <2>1, <1>0, <1>1 DEF Stopped
  <2>2. CASE StopExpires
    BY <2>2, <1>0, <1>1 DEF StopExpires, TaskInv
  <2>3. ASSUME NEW how \in {"closed", "abandoned"}, Close(how)
        PROVE  /\ stream = "open" /\ stream' # "none"
               /\ EvaluationIs = "ended" /\ EvaluationIs' \in {"closed", "abandoned"}
    BY <2>3, <1>0, <1>1 DEF Close, EnginePath
  <2> QED
    BY <2>1, <2>2, <2>3
<1>4. (IF stream = "none" THEN None ELSE copy)' = (IF stream = "none" THEN None ELSE copy)
  BY <1>3
<1>5. Contract!Decided
  BY <1>1 DEF Contract!Decided
<1>6. CASE UNCHANGED EvaluationIs
  BY <1>1, <1>2, <1>4, <1>6 DEF Sees
<1>7. CASE EvaluationIs' # EvaluationIs
  BY <1>1, <1>2, <1>3, <1>4, <1>5, <1>7 DEF Contract!Winds
<1> QED
  BY <1>6, <1>7

LEMMA DeleteMaps ==
  ASSUME CInv, stage = "engine", UNCHANGED <<mode, stage, accepted, copy, directory>>,
         NEW how \in {"done", "failed", "expired"}, Delete(how)
  PROVE  ~ Over /\ Contract!GivesBack
<1>0. /\ SandboxInv /\ Types /\ EnginePath /\ Over = (phase = "ended") /\ Over' = (phase' = "ended")
      /\ EvaluationIs = IF stream # "open" THEN stream
                        ELSE IF task = "none" THEN "ended" ELSE "running"
      /\ EvaluationIs' = IF stream' # "open" THEN stream'
                         ELSE IF task' = "none" THEN "ended" ELSE "running"
  BY InEngine
<1>1. /\ phase = "deleting" /\ phase' # "ended" /\ held /\ deletion = "none" /\ deletion' = how
      /\ stream # "open" /\ (unwinding \/ terminal # "none")
      /\ UNCHANGED <<cancelled, unwinding, held, task, stream, terminal, answer>>
  BY <1>0 DEF Delete, SandboxInv, EnginePath, Teardown
<1>2. /\ Over = FALSE /\ Over' = FALSE
      /\ EvaluationIs = stream /\ EvaluationIs' = stream
  BY <1>0, <1>1
<1>3. Contract!Decided
  BY <1>1 DEF Contract!Decided
<1>4. Contract!Idle
  BY <1>0, <1>1, <1>2 DEF Contract!Idle, Types
<1>5. /\ (IF ~ held THEN "none" ELSE IF deletion = "none" THEN "held" ELSE "returned") = "held"
      /\ (IF ~ held THEN "none" ELSE IF deletion = "none" THEN "held" ELSE "returned")' = "returned"
  BY <1>1
<1> QED
  BY <1>1, <1>2, <1>3, <1>4, <1>5 DEF Contract!GivesBack

\* The engine's answer, and the end of collapse_stream.
LEMMA AnswerMaps ==
  ASSUME CInv, stage = "engine", UNCHANGED <<mode, stage, accepted, copy, directory>>,
         Answer \/ Return
  PROVE  /\ ~ Over
         /\ \/ \E a \in {"evaluated", "error", "cancelled"} : Contract!Answers(a)
            \/ Contract!Finishes
<1>0. /\ SandboxInv /\ VerdictInv /\ Types /\ EnginePath /\ directory = "none"
      /\ Over = (phase = "ended") /\ Over' = (phase' = "ended")
      /\ EvaluationIs = IF stream # "open" THEN stream
                        ELSE IF task = "none" THEN "ended" ELSE "running"
      /\ EvaluationIs' = IF stream' # "open" THEN stream'
                         ELSE IF task' = "none" THEN "ended" ELSE "running"
  BY InEngine
<1>1. /\ stream # "open" /\ (unwinding \/ terminal # "none") /\ (held => deletion # "none")
      /\ Over = FALSE
      /\ UNCHANGED <<cancelled, unwinding, held, task, stream, terminal, deletion>>
  BY <1>0 DEF Answer, Return, SandboxInv, EnginePath, Teardown
<1>2. EvaluationIs = stream /\ EvaluationIs' = stream
  BY <1>0, <1>1
<1>3. Contract!Idle
  BY <1>0, <1>1, <1>2 DEF Contract!Idle, Types
<1>4. (IF ~ held THEN "none" ELSE IF deletion = "none" THEN "held" ELSE "returned") # "held"
  BY <1>1
<1>5. CASE Answer
  <2>1. /\ answer = "none" /\ Over' \in BOOLEAN
        /\ answer' = IF cancelled \/ unwinding THEN "cancelled"
                     ELSE IF terminal = "result" THEN "evaluated" ELSE "error"
    BY <1>0, <1>5 DEF Answer, VerdictInv
  <2>2. \/ answer' = "evaluated" /\ terminal = "result" /\ ~ unwinding
        \/ answer' = "error" /\ terminal \in {"error", "timeout"} /\ ~ unwinding
        \/ answer' = "cancelled" /\ (cancelled \/ unwinding)
    BY <1>0, <1>1, <2>1 DEF Types
  <2>3. Contract!Answers(answer')
    BY <1>0, <1>1, <1>2, <1>3, <1>4, <2>1, <2>2 DEF Contract!Answers
  <2> QED
    BY <1>1, <2>2, <2>3
<1>6. CASE Return
  <2>1. /\ answer # "none" /\ phase' = "ended"
        /\ answer' = answer \/ (cancelled /\ answer' = "cancelled")
    BY <1>0, <1>6 DEF Return, VerdictInv
  <2>2. Over' = TRUE
    BY <1>0, <2>1
  <2>3. Contract!Finishes
    BY <1>0, <1>1, <1>2, <1>3, <1>4, <2>1, <2>2 DEF Contract!Finishes
  <2> QED
    BY <1>1, <2>3
<1> QED
  BY <1>5, <1>6

LEMMA StepMaps == CInv /\ [EvaluationNext]_allVars => [Contract!ContractNext]_Contract!contractVars
<1> SUFFICES ASSUME CInv, [EvaluationNext]_allVars
             PROVE  (~ Over /\ Contract!ContractNext) \/ UNCHANGED Sees
  BY SeenAlike
<1>1. ASSUME ~ Over,
             \/ \E v \in Versions : Contract!TakesIn(v)
             \/ \E v \in {"result", "error"} : Contract!Decides(v)
             \/ \E a \in {"evaluated", "error", "rejected", "cancelled"} : Contract!Answers(a)
             \/ Contract!Furnishes \/ Contract!Hires \/ Contract!Begins \/ Contract!Breaks
             \/ Contract!Winds \/ Contract!GivesBack \/ Contract!Finishes
             \/ Contract!IsCancelled
      PROVE  Contract!ContractNext
  BY <1>1 DEF Contract!ContractNext
<1>2. CASE StartWork
  BY <1>1, <1>2, StartMaps
<1>3. CASE WorkGoesOn \/ ObjectChanges \/ UNCHANGED allVars
  BY <1>3, UnseenMaps
<1>4. ASSUME NEW out, StatEnds(out) PROVE Contract!ContractNext /\ ~ Over
  BY <1>1, <1>4, StatMaps
<1>5. ASSUME NEW out, FetchEnds(out) PROVE Contract!ContractNext /\ ~ Over
  BY <1>1, <1>5, FetchMaps
<1>6. ASSUME NEW out, DownloadEnds(out)
      PROVE  (~ Over /\ Contract!ContractNext) \/ UNCHANGED Sees
  BY <1>1, <1>6, DownloadMaps
<1>7. CASE RemovalEnds
  BY <1>1, <1>7, RemovalMaps
<1>8. CASE \/ \E kind \in {"result", "error"} : EvaluationYields(kind)
           \/ EvaluationCancels
           \/ \E how \in {"closed", "abandoned"} : StreamCloses(how)
  BY <1>1, <1>8, FoldMaps
<1>9. CASE CancelRequest
  BY <1>1, <1>9, CancelMaps
<1>10. CASE EngineSteps
  <2>1. stage = "engine" /\ UNCHANGED <<mode, stage, accepted, copy, directory>>
    BY <1>10 DEF EngineSteps, requestVars, artifactVars
  <2>2. CASE ~ Downloading /\ Prepared
    BY <1>1, <1>10, <2>2, PreparedMaps
  <2>3. CASE PreparationFails \/ PreparationInterrupted \/ PreparationSelfCancels
    BY <1>1, <2>1, <2>3, PreparationEndsMaps
  <2>4. CASE \/ PreparationExpires \/ (\E s \in Steps : EvaluationSteps(s)) \/ DeadlinePasses
             \/ Reclaim
    BY <2>1, <2>4, QuietMaps
  <2>5. CASE \/ ReceiveMessage \/ ReceiveEnd \/ ReceiveCancellation
             \/ GradeTimesOut \/ GradeInterrupted
    BY <1>1, <2>1, <2>5, GradingMaps
  <2>6. CASE \/ Stopped \/ StopExpires
             \/ \E how \in {"closed", "abandoned"} : Close(how)
    BY <1>1, <2>1, <2>6, TeardownMaps
  <2>7. CASE \E how \in {"done", "failed", "expired"} : Delete(how)
    BY <1>1, <2>1, <2>7, DeleteMaps
  <2>8. CASE Answer \/ Return
    BY <1>1, <2>1, <2>8, AnswerMaps
  <2> QED
    BY <1>10, <2>2, <2>3, <2>4, <2>5, <2>6, <2>7, <2>8 DEF EngineSteps
<1> QED
  BY <1>2, <1>3, <1>4, <1>5, <1>6, <1>7, <1>8, <1>9, <1>10 DEF EvaluationNext

\* A request of _v1_evaluate_in_scope, with its threads, its engine and every bound in
\* them, keeps GradingContract: one evaluation of what was taken in, one verdict, and an
\* answer that is this verdict once what the evaluation worked in is given back.
THEOREM RequestKeepsContract == EvaluationSpec => KeepsGradingContract
BY InitMaps, StepMaps, ContractInductive, PTL
   DEF EvaluationSpec, KeepsGradingContract, Contract!ContractSpec
=============================================================================
