------------------------------ MODULE EvalSession ------------------------------
(***************************************************************************)
(* The WebSocket evaluation sessions of one task: the client's             *)
(* _websocket_request, the service's handlers /ws/evaluate-instance and    *)
(* /ws/evaluate-response, the grading hooks of BenchmarkService with their *)
(* eval-resume checkpoints, and the grading credentials and sandboxes a    *)
(* session holds.                                                          *)
(*                                                                         *)
(* The caller evaluates the task again while it has no result: it resumes  *)
(* from its latest checkpoint or evaluates the instance once more.  The    *)
(* handler of a session the client gave up keeps running until it sends.   *)
(* What the hooks answer is free; a saved object is named by its digest,   *)
(* and a digest stands for the bytes.                                      *)
(***************************************************************************)
EXTENDS Naturals, Sequences, SequencesExt

CONSTANTS Pinned,       \* the client's _dataset_version is set
          MaxSessions,  \* bound: connections the caller opens
          MaxGraders,   \* bound: grader identities deployed one after another
          MaxItems      \* bound: items a session's grading stream yields

ASSUME SessionAssumption ==
  /\ Pinned \in BOOLEAN
  /\ MaxSessions \in Nat \ {0} /\ MaxGraders \in Nat \ {0} /\ MaxItems \in Nat

Sessions == 1 .. MaxSessions
Graders == 1 .. MaxGraders
\* what a session collected from the agent's sandbox, and how far grading took it
Inputs == [of : Sessions, step : 0 .. MaxItems]
Checkpoints == [input : Inputs, grader : Graders]
\* what was graded by whom, and which item of its stream the result is
Results == [graded : Checkpoints, item : 0 .. MaxItems]
None == [input |-> "none"]
Failed == [input |-> "failed"]

VARIABLES
  deployed,   \* the grader identity of the service now deployed
  store,      \* the checkpoints whose object S3 has
  held,       \* the checkpoints the caller stored, in their order
  request,    \* the request of a session: what it asks, its checkpoint
  grader,     \* grader_identity of the process that serves the session
  pc,         \* where its handler is
  scopes,     \* the context managers its handler has entered, the innermost last
  why,        \* whether it leaves them with an exception to report
  content,    \* the grading input its hooks work on
  lease,      \* its grading token
  box,        \* the sandbox it creates
  items,      \* items its grading stream yielded
  first,      \* the first result sent over the open connection
  link, wire, \* its connection and the chunks under way to the client
  client,     \* the client's side: off, open, done
  acked, result,  \* acknowledged, result_received with its result
  verdict     \* what _websocket_request returned or Failed

serverVars == <<grader, pc, scopes, why, content, lease, box, items>>
clientVars == <<held, request, client, acked, result, verdict, first>>
vars == <<deployed, store, serverVars, clientVars, link, wire>>

Steps == {"accept", "provider", "credentials", "collect", "load", "save", "sandbox", "creating",
          "grade"}
Scopes == {"provider", "credentials", "creation", "sandbox", "grading"}
Chunks == [type : {"ack", "error", "close", "abort"}]
            \cup [type : {"checkpoint"}, data : Checkpoints]
            \cup [type : {"result"}, data : Results]

TypeOK ==
  /\ deployed \in Graders /\ store \subseteq Checkpoints /\ held \in Seq(Checkpoints)
  /\ request \in [Sessions -> [kind : {"none", "instance", "response"},
                               from : Checkpoints \cup {None}]]
  /\ grader \in [Sessions -> Graders]
  /\ pc \in [Sessions -> Steps \cup {"off", "unwind", "closed"}]
  /\ scopes \in [Sessions -> Seq(Scopes)]
  /\ why \in [Sessions -> {"quiet", "error"}]
  /\ content \in [Sessions -> Inputs]
  /\ lease \in [Sessions -> {"none", "live", "over"}]
  /\ box \in [Sessions -> {"none", "creating", "live", "over"}]
  /\ items \in [Sessions -> 0 .. MaxItems]
  /\ first \in [Sessions -> Results \cup {None}]
  /\ link \in [Sessions -> {"down", "up"}]
  /\ wire \in [Sessions -> Seq(Chunks)]
  /\ client \in [Sessions -> {"off", "open", "done"}]
  /\ acked \in [Sessions -> BOOLEAN]
  /\ result \in [Sessions -> Results \cup {None}]
  /\ verdict \in [Sessions -> Results \cup {None, Failed}]

Init ==
  /\ deployed = 1 /\ store = {} /\ held = <<>>
  /\ request = [s \in Sessions |-> [kind |-> "none", from |-> None]]
  /\ grader = [s \in Sessions |-> 1]
  /\ pc = [s \in Sessions |-> "off"] /\ scopes = [s \in Sessions |-> <<>>]
  /\ why = [s \in Sessions |-> "quiet"]
  /\ content = [s \in Sessions |-> [of |-> s, step |-> 0]]
  /\ lease = [s \in Sessions |-> "none"] /\ box = [s \in Sessions |-> "none"]
  /\ items = [s \in Sessions |-> 0] /\ first = [s \in Sessions |-> None]
  /\ link = [s \in Sessions |-> "down"] /\ wire = [s \in Sessions |-> <<>>]
  /\ client = [s \in Sessions |-> "off"] /\ acked = [s \in Sessions |-> FALSE]
  /\ result = [s \in Sessions |-> None] /\ verdict = [s \in Sessions |-> None]

Redeploy ==
  /\ deployed < MaxGraders
  /\ deployed' = deployed + 1
  /\ UNCHANGED <<store, serverVars, clientVars, link, wire>>

-----------------------------------------------------------------------------
(* The handler. *)

Instance(s) == request[s].kind = "instance"
AfterAccept(s) == IF Instance(s) THEN "provider" ELSE "credentials"
AfterProvider(s) == IF Instance(s) THEN "credentials" ELSE "load"
AfterCredentials(s) == IF Instance(s) THEN "collect" ELSE "provider"
In(s, scope) == scope \in ToSet(scopes[s])
AfterSave(s) == IF In(s, "grading") THEN "grade" ELSE "sandbox"

Goto(s, at) == pc' = [pc EXCEPT ![s] = at] /\ UNCHANGED why
Leave(s, reason) ==
  /\ pc' = [pc EXCEPT ![s] = "unwind"]
  /\ why' = [why EXCEPT ![s] = IF link[s] = "up" THEN reason ELSE "quiet"]
Enter(s, scope) == scopes' = [scopes EXCEPT ![s] = Append(@, scope)]

\* A send to a peer that is gone may still seem to succeed.
Send(s, chunks) ==
  wire' = IF link[s] = "up" THEN [wire EXCEPT ![s] = @ \o chunks] ELSE wire

\* _forward_stream: the chunk is sent and the stream asked for more, or the
\* connection is found closed and the stream is closed.
Forward(s, chunk, at) ==
  \/ Send(s, <<chunk>>) /\ Goto(s, at)
  \/ link[s] # "up" /\ Leave(s, "quiet") /\ UNCHANGED wire

\* Closed with 1008 or 1011 before anything else is sent.
Refuse(s, sent) == Send(s, Append(sent, [type |-> "abort"])) /\ Leave(s, "quiet")

\* What a handler checks before it holds anything: the caller, the request and its
\* provider, _dataset_scope with the acknowledgment a pinned request gets, and
\* the evaluation's admission.
Accept(s) ==
  /\ pc[s] = "accept"
  /\ \/ /\ IF Pinned THEN Send(s, <<[type |-> "ack"]>>) ELSE UNCHANGED wire
        /\ Goto(s, AfterAccept(s))
     \/ Refuse(s, <<>>)
     \/ Pinned /\ Refuse(s, <<[type |-> "ack"]>>)
     \/ Leave(s, "error") /\ UNCHANGED wire
     \/ link[s] # "up" /\ Leave(s, "quiet") /\ UNCHANGED wire
  /\ UNCHANGED <<deployed, store, clientVars, link, grader, scopes, content, lease, box, items>>

\* create_provider: a request to /ws/evaluate-response need not name one, the
\* other must find the agent's sandbox with it (get_sandbox).
OpenProvider(s) ==
  /\ pc[s] = "provider"
  /\ \/ Enter(s, "provider") /\ Goto(s, AfterProvider(s))
     \/ ~Instance(s) /\ Goto(s, AfterProvider(s)) /\ UNCHANGED scopes
     \/ Leave(s, "error") /\ UNCHANGED scopes
     \/ Instance(s) /\ Enter(s, "provider") /\ Leave(s, "error")
  /\ UNCHANGED <<deployed, store, clientVars, link, wire, grader, content, lease, box, items>>

\* _bind_credentials: a token minted for this run; a session that is given one has
\* nothing to revoke.  A lease whose mint was not answered is known to nobody
\* and ends with its ttl.
BindCredentials(s) ==
  /\ pc[s] = "credentials"
  /\ \/ /\ Enter(s, "credentials") /\ Goto(s, AfterCredentials(s))
        /\ lease' = [lease EXCEPT ![s] = "live"]
     \/ Leave(s, "error") /\ UNCHANGED <<scopes, lease>>
  /\ UNCHANGED <<deployed, store, clientVars, link, wire, grader, content, box, items>>

\* evaluate_instance: the bytes to grade, or a refusal (NotGradeable) that is
\* streamed as an error before the stream ends.
CollectGradingInput(s) ==
  /\ pc[s] = "collect"
  /\ \/ /\ content' = [content EXCEPT ![s] = [of |-> s, step |-> 0]]
        /\ Goto(s, "save") /\ UNCHANGED wire
     \/ Send(s, <<[type |-> "error"]>>) /\ Leave(s, "quiet") /\ UNCHANGED content
     \/ Leave(s, "error") /\ UNCHANGED <<content, wire>>
  /\ UNCHANGED <<deployed, store, clientVars, link, grader, scopes, lease, box, items>>

DeployedCheckpoint(s) == [input |-> content[s], grader |-> deployed]

\* What is saved: the input and the identity of the grader that grades it.
Checkpoint(s) == [input |-> content[s], grader |-> grader[s]]

StreamUnsaved(s) ==
  /\ pc[s] = "save" /\ store' \in {store, store \cup {Checkpoint(s)}}
  /\ Forward(s, [type |-> "checkpoint", data |-> Checkpoint(s)], AfterSave(s))
  /\ UNCHANGED <<deployed, clientVars, link, grader, scopes, content, lease, box, items>>

\* EvalResumeStore.save, and the checkpoint streamed when it is done.
SaveGradingInput(s) ==
  /\ pc[s] = "save"
  /\ \/ /\ store' = store \cup {Checkpoint(s)}
        /\ Forward(s, [type |-> "checkpoint", data |-> Checkpoint(s)], AfterSave(s))
     \/ Leave(s, "error") /\ UNCHANGED <<store, wire>>
  /\ UNCHANGED <<deployed, clientVars, link, grader, scopes, content, lease, box, items>>

LoadForAnyGrader(s) ==
  /\ pc[s] = "load"
  /\ request[s].from \in store
  /\ content' = [content EXCEPT ![s] = request[s].from.input]
  /\ Goto(s, "sandbox")
  /\ UNCHANGED <<deployed, store, clientVars, link, wire, grader, scopes, lease, box, items>>

\* EvalResumeStore.load: the identity the checkpoint was saved under is compared
\* with this service's, then the object is read and its size and digest checked.
Resolves(s) == request[s].from.grader = grader[s] /\ request[s].from \in store

\* _eval_resume_load; validating the task or reading may fail besides.
LoadGradingInput(s) ==
  /\ pc[s] = "load"
  /\ \/ /\ Resolves(s)
        /\ content' = [content EXCEPT ![s] = request[s].from.input]
        /\ Goto(s, "sandbox")
     \/ Leave(s, "error") /\ UNCHANGED content
  /\ UNCHANGED <<deployed, store, clientVars, link, wire, grader, scopes, lease, box, items>>

\* _eval_resume_sandbox: grade_input needs none, the agent's or a borrowed one
\* is not owned, another is created; without a provider that is an error.
ChooseSandbox(s) ==
  /\ pc[s] = "sandbox"
  /\ \/ Goto(s, "grade") /\ Enter(s, "grading") /\ UNCHANGED box
     \/ /\ In(s, "provider")
        /\ Goto(s, "creating") /\ Enter(s, "creation")
        /\ box' = [box EXCEPT ![s] = "creating"]
     \/ Leave(s, "error") /\ UNCHANGED <<scopes, box>>
  /\ UNCHANGED <<deployed, store, clientVars, link, wire, grader, content, lease, items>>

\* _create_owned_sandbox, then modify_egress_rules inside its try.
Outer(s) == Front(scopes[s])
CreateSandbox(s) ==
  /\ pc[s] = "creating"
  /\ \/ /\ box' = [box EXCEPT ![s] = "live"]
        /\ \/ Goto(s, "grade") /\ scopes' = [scopes EXCEPT ![s] = Outer(s) \o <<"sandbox", "grading">>]
           \/ Leave(s, "error") /\ scopes' = [scopes EXCEPT ![s] = Append(Outer(s), "sandbox")]
     \/ /\ box' = [box EXCEPT ![s] = "none"]
        /\ Leave(s, "error") /\ scopes' = [scopes EXCEPT ![s] = Outer(s)]
  /\ UNCHANGED <<deployed, store, clientVars, link, wire, grader, content, lease, items>>

\* _eval_resume_stream: the grader yields progress to save, a result or an error
\* and goes on, ends, or raises.  A progress message changes nothing.
YieldGradingInput(s) ==
  /\ pc[s] = "grade" /\ items[s] < MaxItems
  /\ items' = [items EXCEPT ![s] = @ + 1]
  /\ content[s].step < MaxItems
  /\ content' = [content EXCEPT ![s].step = @ + 1]
  /\ Goto(s, "save")
  /\ UNCHANGED <<deployed, store, clientVars, link, wire, grader, scopes, lease, box>>

YieldResult(s) ==
  /\ pc[s] = "grade" /\ items[s] < MaxItems
  /\ items' = [items EXCEPT ![s] = @ + 1]
  /\ LET graded == [graded |-> Checkpoint(s), item |-> items[s]] IN
     /\ first' = [first EXCEPT ![s] = IF @ = None /\ link[s] = "up" THEN graded ELSE @]
     /\ Forward(s, [type |-> "result", data |-> graded], "grade")
  /\ UNCHANGED <<deployed, store, held, request, client, acked, result, verdict,
                 link, grader, scopes, content, lease, box>>

YieldError(s) ==
  /\ pc[s] = "grade" /\ items[s] < MaxItems
  /\ items' = [items EXCEPT ![s] = @ + 1]
  /\ Forward(s, [type |-> "error"], "grade")
  /\ UNCHANGED <<deployed, store, clientVars, link, grader, scopes, content, lease, box>>

EndGrading(s) ==
  /\ pc[s] = "grade"
  /\ Leave(s, "quiet") \/ Leave(s, "error")
  /\ UNCHANGED <<deployed, store, clientVars, link, wire, grader, scopes, content, lease, box, items>>

CancelDropsCreation(s) ==
  /\ pc[s] \in Steps
  /\ Leave(s, "quiet")
  /\ scopes' = IF pc[s] = "creating" THEN [scopes EXCEPT ![s] = Outer(s)] ELSE scopes
  /\ UNCHANGED <<deployed, store, clientVars, link, wire, grader, content, lease, box, items>>

\* The handler's task is cancelled.  The worker of a save under way is waited for
\* (run_blocking), and a creation is left to its own cleanup.
Cancel(s) ==
  /\ pc[s] \in Steps
  /\ Leave(s, "quiet")
  /\ store' \in IF pc[s] = "save" THEN {store, store \cup {Checkpoint(s)}} ELSE {store}
  /\ UNCHANGED <<deployed, clientVars, link, wire, grader, scopes, content, lease, box, items>>

\* A closed stream's locals.
Forget(s) == /\ content' = [content EXCEPT ![s] = [of |-> s, step |-> 0]]
             /\ items' = [items EXCEPT ![s] = 0]

\* The handler leaves its innermost context manager.  What a teardown cannot do
\* within its bound is logged and left: the sandbox to its auto-stop, the
\* token to its expiry.
LeaveScope(s) ==
  /\ pc[s] = "unwind" /\ scopes[s] # <<>>
  /\ LET scope == Last(scopes[s]) IN
     /\ box' = IF scope \in {"creation", "sandbox"} THEN [box EXCEPT ![s] = "over"] ELSE box
     /\ lease' = IF scope = "credentials" THEN [lease EXCEPT ![s] = "over"] ELSE lease
     /\ why' \in IF scope = "provider" THEN {why, [why EXCEPT ![s] = "error"]} ELSE {why}
     /\ IF scope = "grading" THEN Forget(s) ELSE UNCHANGED <<content, items>>
  /\ scopes' = [scopes EXCEPT ![s] = Outer(s)]
  /\ UNCHANGED <<deployed, store, clientVars, link, wire, grader, pc>>

\* _stream_session: an exception is sent as an error, the socket is closed, and
\* nothing remains of the handler but what it did not release.
CloseSession(s) ==
  /\ pc[s] = "unwind" /\ scopes[s] = <<>>
  /\ pc' = [pc EXCEPT ![s] = "closed"]
  /\ wire' = IF link[s] # "up" THEN wire
             ELSE [wire EXCEPT ![s] = @ \o (IF why[s] = "error" THEN <<[type |-> "error"]>> ELSE <<>>)
                                        \o <<[type |-> "close"]>>]
  /\ grader' = [grader EXCEPT ![s] = 1] /\ why' = [why EXCEPT ![s] = "quiet"]
  /\ Forget(s)
  /\ lease' = [lease EXCEPT ![s] = IF @ = "live" THEN @ ELSE "none"]
  /\ box' = [box EXCEPT ![s] = IF @ \in {"creating", "live"} THEN @ ELSE "none"]
  /\ UNCHANGED <<deployed, store, clientVars, link, scopes>>

Teardown(s) == LeaveScope(s) \/ CloseSession(s)
Serve(s) ==
  \/ Accept(s) \/ OpenProvider(s) \/ BindCredentials(s)
  \/ CollectGradingInput(s) \/ SaveGradingInput(s) \/ LoadGradingInput(s)
  \/ ChooseSandbox(s) \/ CreateSandbox(s)
  \/ YieldGradingInput(s) \/ YieldResult(s) \/ YieldError(s) \/ EndGrading(s)

-----------------------------------------------------------------------------
(* The client and its caller. *)

\* The caller evaluates the task, then again while it has no verdict, from its
\* latest checkpoint if it likes.
OpenSession(s) ==
  /\ client[s] = "off"
  /\ s > 1 => client[s - 1] = "done" /\ verdict[s - 1] = Failed
  /\ client' = [client EXCEPT ![s] = "open"]
  /\ link' = [link EXCEPT ![s] = "up"]
  /\ pc' = [pc EXCEPT ![s] = "accept"]
  /\ grader' = [grader EXCEPT ![s] = deployed]
  /\ request' = [request EXCEPT ![s] = IF held = <<>> THEN [kind |-> "instance", from |-> None]
                                        ELSE [kind |-> "response", from |-> Last(held)]]
  /\ UNCHANGED <<deployed, store, held, scopes, why, content, lease, box, items, first,
                 wire, acked, result, verdict>>

\* _websocket_request returns or raises, and closes its end.
Finish(s, outcome) ==
  /\ client' = [client EXCEPT ![s] = "done"]
  /\ verdict' = [verdict EXCEPT ![s] = outcome]
  /\ link' = [link EXCEPT ![s] = "down"]
  /\ wire' = [wire EXCEPT ![s] = <<>>]
  /\ result' = [result EXCEPT ![s] = None]
  /\ acked' = [acked EXCEPT ![s] = @ /\ outcome # Failed]
  /\ first' = [first EXCEPT ![s] = IF outcome = Failed THEN None ELSE @]

Acknowledged(s) == acked[s] \/ ~Pinned

Consume(s) == wire' = [wire EXCEPT ![s] = Tail(@)]
Goes == UNCHANGED <<client, verdict, link, first>>

StoreUnawaited(s, checkpoint) ==
  /\ held' \in {held, Append(held, checkpoint)}
  /\ Consume(s) /\ Goes /\ UNCHANGED <<acked, result>>

\* The caller's callback stores the checkpoint before the next chunk is read, or
\* raises and ends the call.
StoreCheckpoint(s, checkpoint) ==
  \/ held' = Append(held, checkpoint) /\ Consume(s) /\ Goes /\ UNCHANGED <<acked, result>>
  \/ Finish(s, Failed) /\ UNCHANGED held

Receive(s) ==
  /\ client[s] = "open" /\ wire[s] # <<>>
  /\ LET chunk == Head(wire[s]) IN
     \/ /\ chunk.type = "ack" /\ ~Acknowledged(s)
        /\ acked' = [acked EXCEPT ![s] = TRUE]
        /\ Consume(s) /\ Goes /\ UNCHANGED <<held, result>>
     \/ /\ \/ chunk.type = "ack" /\ Acknowledged(s)
           \/ chunk.type \in {"checkpoint", "result"} /\ ~Acknowledged(s)
           \/ chunk.type \in {"error", "abort"}
        /\ Finish(s, Failed) /\ UNCHANGED held
     \/ /\ chunk.type = "checkpoint" /\ Acknowledged(s)
        /\ StoreCheckpoint(s, chunk.data)
     \/ /\ chunk.type = "result" /\ Acknowledged(s)
        /\ result' = [result EXCEPT ![s] = IF @ = None THEN chunk.data ELSE @]
        /\ Consume(s) /\ Goes /\ UNCHANGED <<held, acked>>
     \/ /\ chunk.type = "close"
        /\ Finish(s, IF result[s] = None THEN Failed ELSE result[s])
        /\ UNCHANGED held
  /\ UNCHANGED <<deployed, store, serverVars, request>>

NoIdleTimeout(s) ==
  /\ client[s] = "open" /\ wire[s] # <<>>
  /\ Finish(s, Failed)
  /\ UNCHANGED <<deployed, store, serverVars, held, request>>

\* Nothing came within ws_idle_timeout_s, or the connection is found lost with what
\* it still carried.
GiveUp(s) ==
  /\ client[s] = "open"
  /\ Finish(s, Failed)
  /\ UNCHANGED <<deployed, store, serverVars, held, request>>

Next ==
  \/ Redeploy
  \/ \E s \in Sessions :
       \/ OpenSession(s) \/ Receive(s) \/ GiveUp(s)
       \/ Serve(s) \/ Cancel(s) \/ Teardown(s)

\* The client reads what it is sent and times out, and every teardown is
\* bounded; nothing makes a grading hook answer.
Fairness == \A s \in Sessions : WF_vars(Receive(s) \/ GiveUp(s)) /\ WF_vars(Teardown(s))

Spec == Init /\ [][Next]_vars /\ Fairness

-----------------------------------------------------------------------------
(* Properties. *)

\* A checkpoint the caller stored resolves: its bytes are in S3, whatever became
\* of the session that streamed it.
CheckpointResolves == ToSet(held) \subseteq store

\* What is graded was saved first, for the grader that grades it; a retry grades
\* the input its checkpoint names, or what grading made of it, with the grader the
\* checkpoint was saved under, across deployments.
GradesWhatWasSaved ==
  \A s \in Sessions : first[s] # None =>
    /\ first[s].graded \in store
    /\ request[s].kind = "response" =>
         LET from == request[s].from  graded == first[s].graded IN
         /\ graded.grader = from.grader
         /\ graded.input.of = from.input.of /\ graded.input.step >= from.input.step

\* While the benchmark's grading generator is open its token is not revoked, its
\* sandbox exists and the provider that deletes it is open; a closed session leaves
\* neither a token nor a sandbox that nobody tried to release.
ResourcesOutliveGrading ==
  \A s \in Sessions :
    /\ In(s, "grading") => lease[s] \in {"none", "live"} /\ box[s] \in {"none", "live"}
    /\ box[s] \in {"creating", "live"} => In(s, "provider")
    /\ pc[s] = "closed" => lease[s] # "live" /\ box[s] \notin {"creating", "live"}

\* The client returns the first result of its session and nothing else, after the
\* acknowledgment of its pin, and only when the caller holds a checkpoint of the very
\* input that was graded.
ResultIsEarned ==
  \A s \in Sessions : verdict[s] \notin {None, Failed} =>
    /\ verdict[s] = first[s]
    /\ Pinned => acked[s]
    /\ verdict[s].graded \in ToSet(held)

\* The sessions together are one evaluation of the task: EvaluationContract.tla.
Contract == INSTANCE EvaluationContract WITH
  Attempts <- Sessions, MaxGrader <- MaxGraders, Saveable <- Checkpoints, Verdicts <- Results,
  Nothing <- None, Failure <- Failed,
  current <- deployed, saved <- store, kept <- held, asked <- request, outcome <- verdict

\* Whatever connections drop, handlers live on and graders are deployed: every attempt
\* goes on from the caller's latest checkpoint, what it stores after that is
\* further and of the same input and grader, and a verdict is about a checkpoint it
\* stored that this attempt has reached.
KeepsEvaluationContract == Contract!ContractSpec

\* A call of the client ends even when no grading hook ever answers, and a session
\* whose handler starts to leave is closed.
SessionsSettle ==
  \A s \in Sessions :
    /\ client[s] = "open" ~> client[s] = "done"
    /\ pc[s] = "unwind" ~> pc[s] = "closed"
=============================================================================
