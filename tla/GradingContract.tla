--------------------------- MODULE GradingContract ---------------------------
(***************************************************************************)
(* What /v1/evaluate promises of one admitted request, wherever it is      *)
(* evaluated: without threads, timeouts, tasks, teardown steps or chunks.  *)
(* What is evaluated is what was taken in; one verdict is decided and it   *)
(* becomes the answer, unless the request is cancelled; the evaluation is  *)
(* stopped before what it works in is given back, and the request is over  *)
(* after that.  V1Evaluation.tla implements it.                            *)
(***************************************************************************)

CONSTANTS Versions, Oversized, None

VARIABLES
  form,        \* text, or an artifact graded in a sandbox, from its bytes, from a file
  taken,       \* the version of the artifact the request was taken in with
  given,       \* the version its evaluation was given
  evaluation,  \* none, running, ended, then closed, or abandoned to itself
  verdict,     \* none, result or error
  broken,      \* a cancellation, the request's or a hook's own, is taking its way out
  answer,
  cancelled,   \* the request is cancelled
  folder,      \* its temporary directory: none, there, gone
  rented,      \* its sandbox: none, held, given back
  over

contractVars == <<form, taken, given, evaluation, verdict, broken, answer, cancelled,
                  folder, rented, over>>

Forms == {"text", "sandbox", "bytes", "file"}
Rents == form \in {"text", "sandbox"}
Idle == evaluation \notin {"running", "ended"}
Decided == verdict # "none" \/ broken
EvaluationEnds == evaluation = "running" /\ evaluation' = "ended"

ContractInit ==
  /\ form \in Forms
  /\ taken = None /\ given = None
  /\ evaluation = "none" /\ verdict = "none" /\ broken = FALSE
  /\ answer = "none" /\ cancelled = FALSE
  /\ folder = "none" /\ rented = "none"
  /\ over = FALSE

\* An artifact is taken in; a request that was cancelled meanwhile ends there.
TakesIn(v) ==
  /\ form # "text" /\ taken = None /\ answer = "none"
  /\ v \in Versions \ Oversized
  /\ taken' = v
  /\ \/ UNCHANGED <<answer, over>>
     \/ cancelled /\ answer' = "cancelled" /\ over' = TRUE
  /\ UNCHANGED <<form, given, evaluation, verdict, broken, cancelled, folder, rented>>

Furnishes ==
  /\ form = "file" /\ folder = "none" /\ answer = "none"
  /\ folder' = "there"
  /\ UNCHANGED <<form, taken, given, evaluation, verdict, broken, answer, cancelled,
                 rented, over>>

Hires ==
  /\ Rents /\ rented = "none" /\ ~ Decided
  /\ rented' = "held"
  /\ UNCHANGED <<form, taken, given, evaluation, verdict, broken, answer, cancelled,
                 folder, over>>

\* There is one evaluation, of the whole of what was taken in, in its place.
Begins ==
  /\ evaluation = "none" /\ ~ Decided /\ answer = "none"
  /\ Rents => rented = "held"
  /\ form = "file" => folder = "there"
  /\ form # "text" => taken \in Versions \ Oversized
  /\ evaluation' = "running"
  /\ given' = taken
  /\ UNCHANGED <<form, taken, verdict, broken, answer, cancelled, folder, rented, over>>

\* One verdict: a result when the evaluation ends with it, an error at any time.
Decides(v) ==
  /\ ~ Decided /\ answer = "none"
  /\ EvaluationEnds \/ (v = "error" /\ UNCHANGED evaluation)
  /\ verdict' = v
  /\ UNCHANGED <<form, taken, given, broken, answer, cancelled, folder, rented, over>>

\* A cancellation takes the place of the verdict; a hook may raise its own.
Breaks ==
  /\ ~ Decided /\ answer = "none"
  /\ broken' = TRUE
  /\ EvaluationEnds \/ UNCHANGED evaluation
  /\ UNCHANGED <<form, taken, given, verdict, answer, cancelled, folder, rented, over>>

\* Stopped and closed, or left to itself.
Winds ==
  /\ Decided
  /\ \/ evaluation = "running" /\ evaluation' \in {"ended", "abandoned"}
     \/ evaluation = "ended" /\ evaluation' \in {"closed", "abandoned"}
  /\ UNCHANGED <<form, taken, given, verdict, broken, answer, cancelled, folder, rented, over>>

GivesBack ==
  /\ rented = "held" /\ Decided /\ Idle
  /\ rented' = "returned"
  /\ UNCHANGED <<form, taken, given, evaluation, verdict, broken, answer, cancelled,
                 folder, over>>

\* The answer is the verdict, or a refusal of what was never evaluated; a cancelled
\* request, or one whose hook raised a cancellation, has none.
Answers(a) ==
  /\ answer = "none" /\ rented # "held"
  /\ \/ Idle /\ UNCHANGED evaluation
     \/ ~ Idle /\ evaluation' \in {"closed", "abandoned"}
  /\ \/ UNCHANGED broken
     \/ broken' = TRUE /\ (cancelled \/ (evaluation = "running" /\ verdict = "none"))
  /\ \/ a = "evaluated" /\ verdict = "result" /\ ~ broken'
     \/ a = "error" /\ verdict = "error" /\ ~ broken'
     \/ a = "rejected" /\ form # "text" /\ evaluation = "none" /\ ~ Decided
     \/ a = "cancelled" /\ (cancelled \/ broken')
  /\ answer' = a
  /\ over' \in BOOLEAN /\ (over' => folder # "there")
  /\ UNCHANGED <<form, taken, given, verdict, cancelled, folder, rented>>

\* Nothing is left; a cancellation that came last takes the answer away.
Finishes ==
  /\ answer # "none" /\ Idle /\ rented # "held"
  /\ answer' = answer \/ (cancelled /\ answer' = "cancelled")
  /\ folder' = IF folder = "there" THEN "gone" ELSE folder
  /\ over' = TRUE
  /\ UNCHANGED <<form, taken, given, evaluation, verdict, broken, cancelled, rented>>

IsCancelled ==
  /\ cancelled' = TRUE
  /\ UNCHANGED <<form, taken, given, evaluation, verdict, broken, answer, folder, rented, over>>

ContractNext ==
  /\ ~ over
  /\ \/ \E v \in Versions : TakesIn(v)
     \/ \E v \in {"result", "error"} : Decides(v)
     \/ \E a \in {"evaluated", "error", "rejected", "cancelled"} : Answers(a)
     \/ Furnishes \/ Hires \/ Begins \/ Breaks \/ Winds \/ GivesBack \/ Finishes \/ IsCancelled

ContractSpec == ContractInit /\ [][ContractNext]_contractVars
=============================================================================
