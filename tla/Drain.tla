-------------------------------- MODULE Drain --------------------------------
(***************************************************************************)
(* Request draining: the SQLite admission store that the workers of one    *)
(* container share (draining.DrainState), the ASGI middleware that asks it *)
(* before every request and tells it after every request (draining.        *)
(* DrainMiddleware), and the cancellation-safe thread hop between the two  *)
(* (blocking.run_blocking).                                                *)
(*                                                                         *)
(* A transaction is BEGIN IMMEDIATE ... COMMIT, hence one step.  The       *)
(* middleware is asynchronous around it: the thread's outcome and the      *)
(* resumption of the coroutine are separate steps, and the coroutine can   *)
(* be cancelled at every await.  Request ids are uuid4, so every request   *)
(* is a value of its own.                                                  *)
(***************************************************************************)
EXTENDS Integers, FiniteSets

CONSTANTS
  Requests,     \* every request scope that ever reaches the middleware
  Workers,      \* the server worker processes of one container
  MaxStores,    \* bound: how often the store file is created
  MaxRevision,  \* bound: the highest revision a controller sends
  Faults        \* TRUE when workers may die and stores may be locked or replaced

ASSUME DrainAssumption ==
  /\ MaxStores \in Nat \ {0}
  /\ MaxRevision \in Nat
  /\ Faults \in BOOLEAN
  /\ IsFiniteSet(Requests)

Stores == 1 .. MaxStores     \* store_id; 0 stands for "no store opened"
Commands == BOOLEAN \X (0 .. MaxRevision)

\* Where a request is in DrainMiddleware.__call__.
Stages == {"unsent", "admitting", "owned", "refused", "raised", "running",
           "rejecting", "completing", "done", "lost"}
Replies == {"none", "answered", "draining", "denied", "dropped"}

VARIABLES
  \* the store files ever created, by store_id
  revision, accepting, requests,
  current,     \* the store_id at the configured path now
  \* the processes
  bound,       \* store_id a worker opened at start-up, 0 while it is down
  stage, owner,
  cancelled,   \* a cancellation of the request's coroutine is pending
  \* what the callers and the controller know
  reply,       \* the response a request's caller was sent
  ran,         \* requests handed to the application
  report       \* a DrainSnapshot a controller still holds

storeVars == <<revision, accepting, requests, current>>
requestVars == <<stage, owner, cancelled, reply, ran>>
vars == <<storeVars, bound, requestVars, report>>

NoReport == [store |-> 0, revision |-> -1, accepting |-> TRUE, in_flight |-> 0]

TypeOK ==
  /\ revision \in [Stores -> -1 .. MaxRevision]
  /\ accepting \in [Stores -> BOOLEAN]
  /\ requests \in [Stores -> SUBSET Requests]
  /\ current \in Stores
  /\ bound \in [Workers -> 0 .. MaxStores]
  /\ stage \in [Requests -> Stages]
  /\ owner \in [Requests -> Workers]
  /\ cancelled \in [Requests -> BOOLEAN]
  /\ reply \in [Requests -> Replies]
  /\ ran \subseteq Requests
  /\ report \in [store : 0 .. MaxStores, revision : -1 .. MaxRevision,
                 accepting : BOOLEAN, in_flight : Nat]

\* DrainState.create, before the workers start: closed, and no command yet.
Init ==
  /\ revision = [s \in Stores |-> -1]
  /\ accepting = [s \in Stores |-> FALSE]
  /\ requests = [s \in Stores |-> {}]
  /\ current = 1
  /\ bound = [w \in Workers |-> 1]
  /\ stage = [r \in Requests |-> "unsent"]
  /\ owner \in [Requests -> Workers]
  /\ cancelled = [r \in Requests |-> FALSE]
  /\ reply = [r \in Requests |-> "none"]
  /\ ran = {}
  /\ report = NoReport
-----------------------------------------------------------------------------
(* The store *)

\* Mutant: the store's identity is not checked.
AnyStore(s) == s \in Stores

\* _transaction: the file at the path is still the one this process opened.
Opened(s) == s = current

\* _snapshot, computed inside the caller's transaction.
Snapshot(s, rev, acc) == [store |-> s, revision |-> rev, accepting |-> acc,
                          in_flight |-> Cardinality(requests[s])]

\* The store the request's worker has open.
StoreOf(r) == bound[owner[r]]

\* Mutant: a second command at the same revision is applied.
LaxSetAdmission(acc, rev) ==
  LET s == current IN
  /\ rev >= revision[s]
  /\ revision' = [revision EXCEPT ![s] = rev]
  /\ accepting' = [accepting EXCEPT ![s] = acc]
  /\ report' \in {report, Snapshot(s, rev, acc)}
  /\ UNCHANGED <<requests, current, bound, requestVars>>

\* set_admission by a controller that has the current store open.  An older
\* command changes nothing and still reports.  The report under observation may
\* be this one, or an older one that another controller still holds.
SetAdmission(acc, rev) ==
  LET s == current IN
  /\ ~ (rev = revision[s] /\ acc # accepting[s])   \* otherwise ValueError
  /\ IF rev > revision[s]
       THEN /\ revision' = [revision EXCEPT ![s] = rev]
            /\ accepting' = [accepting EXCEPT ![s] = acc]
       ELSE UNCHANGED <<revision, accepting>>
  /\ report' \in {report, Snapshot(s, revision'[s], accepting'[s])}
  /\ UNCHANGED <<requests, current, bound, requestVars>>

TakeSnapshot ==
  /\ report' = Snapshot(current, revision[current], accepting[current])
  /\ UNCHANGED <<storeVars, bound, requestVars>>

\* The file is recreated under running workers, which DrainState.create's
\* docstring forbids and every transaction detects.
ReplaceStore ==
  /\ Faults
  /\ current < MaxStores
  /\ current' = current + 1
  /\ UNCHANGED <<revision, accepting, requests, bound, requestVars, report>>
-----------------------------------------------------------------------------
(* The middleware: one request, from its uuid4 to the end of its finally block *)

\* The scope reaches the middleware of a running worker, which starts the
\* thread that runs admit.  (/health and lifespan scopes pass by the store.)
Arrive(r, w) ==
  /\ stage[r] = "unsent"
  /\ bound[w] # 0
  /\ stage' = [stage EXCEPT ![r] = "admitting"]
  /\ owner' = [owner EXCEPT ![r] = w]
  /\ UNCHANGED <<storeVars, bound, cancelled, reply, ran, report>>

\* Mutant: the row is inserted before the check and a refusal does not undo it.
AdmitThenCheck(r) ==
  /\ stage[r] = "admitting"
  /\ Opened(StoreOf(r))
  /\ requests' = [requests EXCEPT ![StoreOf(r)] = @ \cup {r}]
  /\ stage' = [stage EXCEPT
       ![r] = IF accepting[StoreOf(r)] THEN "owned" ELSE "refused"]
  /\ UNCHANGED <<revision, accepting, current, bound, owner, cancelled, reply,
                 ran, report>>

\* admit: check and insert in one transaction.
Admit(r) ==
  LET s == StoreOf(r) IN
  /\ stage[r] = "admitting"
  /\ Opened(s)
  /\ IF accepting[s]
       THEN /\ requests' = [requests EXCEPT ![s] = @ \cup {r}]
            /\ stage' = [stage EXCEPT ![r] = "owned"]
       ELSE /\ stage' = [stage EXCEPT ![r] = "refused"]
            /\ UNCHANGED requests
  /\ UNCHANGED <<revision, accepting, current, bound, owner, cancelled, reply,
                 ran, report>>

\* admit raises: the database stays locked for a second, or it was replaced.
AdmitRaises(r) ==
  /\ Faults
  /\ stage[r] = "admitting"
  /\ stage' = [stage EXCEPT ![r] = "raised"]
  /\ UNCHANGED <<storeVars, bound, owner, cancelled, reply, ran, report>>

\* Mutant: a cancelled coroutine returns without its finally block.
ResumeSkipsCleanup(r) ==
  /\ stage[r] \in {"owned", "refused", "raised"}
  /\ stage' = [stage EXCEPT ![r] =
       CASE cancelled[r] \/ stage[r] = "raised" -> "done"
         [] stage[r] = "owned" -> "running"
         [] OTHER -> "rejecting"]
  /\ UNCHANGED <<storeVars, bound, owner, cancelled, reply, ran, report>>

\* Mutant: an admit that raised is never awaited.
ResumeIgnoresErrors(r) ==
  /\ stage[r] \in {"owned", "refused"}
  /\ stage' = [stage EXCEPT ![r] =
       CASE cancelled[r] -> "completing"
         [] stage[r] = "owned" -> "running"
         [] OTHER -> "rejecting"]
  /\ UNCHANGED <<storeVars, bound, owner, cancelled, reply, ran, report>>

\* run_blocking returns to the coroutine: a cancellation held back while the
\* thread ran wins over every outcome, admission included.
Resume(r) ==
  /\ stage[r] \in {"owned", "refused", "raised"}
  /\ IF cancelled[r] \/ stage[r] = "raised"
       THEN /\ stage' = [stage EXCEPT ![r] = "completing"]
            /\ reply' = [reply EXCEPT ![r] = "dropped"]
            /\ cancelled' = [cancelled EXCEPT ![r] = FALSE]
            /\ UNCHANGED ran
       ELSE /\ stage' = [stage EXCEPT
                 ![r] = IF stage[r] = "owned" THEN "running" ELSE "rejecting"]
            /\ ran' = IF stage[r] = "owned" THEN ran \cup {r} ELSE ran
            /\ UNCHANGED <<reply, cancelled>>
  /\ UNCHANGED <<storeVars, bound, owner, report>>

\* The application returns, raises, or unwinds from a cancellation; whatever
\* it sends is sent by then.
Finish(r, answer) ==
  /\ stage[r] = "running"
  /\ stage' = [stage EXCEPT ![r] = "completing"]
  /\ reply' = [reply EXCEPT ![r] = answer]
  /\ cancelled' = [cancelled EXCEPT ![r] = FALSE]
  /\ UNCHANGED <<storeVars, bound, owner, ran, report>>

\* _reject: 503 with the drain header, or for a websocket behind a server
\* without websocket.http.response a close that carries no marker.
Reject(r, denial) ==
  /\ stage[r] = "rejecting"
  /\ stage' = [stage EXCEPT ![r] = "completing"]
  /\ reply' = [reply EXCEPT ![r] = IF cancelled[r] THEN "dropped" ELSE denial]
  /\ cancelled' = [cancelled EXCEPT ![r] = FALSE]
  /\ UNCHANGED <<storeVars, bound, owner, ran, report>>

\* Mutant: DELETE FROM requests without its WHERE clause.
CompleteAll(r) ==
  /\ stage[r] = "completing"
  /\ Opened(StoreOf(r))
  /\ requests' = [requests EXCEPT ![StoreOf(r)] = {}]
  /\ stage' = [stage EXCEPT ![r] = "done"]
  /\ UNCHANGED <<revision, accepting, current, bound, owner, cancelled, reply,
                 ran, report>>

\* The finally block: complete removes the row, whether or not there is one.
Complete(r) ==
  /\ stage[r] = "completing"
  /\ Opened(StoreOf(r))
  /\ requests' = [requests EXCEPT ![StoreOf(r)] = @ \ {r}]
  /\ stage' = [stage EXCEPT ![r] = "done"]
  /\ UNCHANGED <<revision, accepting, current, bound, owner, cancelled, reply,
                 ran, report>>

\* complete raises (locked or replaced store): the row stays behind.
CompleteRaises(r) ==
  /\ Faults
  /\ stage[r] = "completing"
  /\ stage' = [stage EXCEPT ![r] = "lost"]
  /\ UNCHANGED <<storeVars, bound, owner, cancelled, reply, ran, report>>

\* The server cancels the coroutine; run_blocking remembers it, and a second
\* cancellation in the finally block changes nothing more.
Cancel(r) ==
  /\ stage[r] \in {"admitting", "owned", "refused", "raised", "running",
                   "rejecting"}
  /\ cancelled' = [cancelled EXCEPT ![r] = TRUE]
  /\ UNCHANGED <<storeVars, bound, stage, owner, reply, ran, report>>
-----------------------------------------------------------------------------
(* The worker processes *)

InProgress(r) == stage[r] \notin {"unsent", "done", "lost"}

WorkerDies(w) ==
  LET mine == {r \in Requests : InProgress(r) /\ owner[r] = w} IN
  /\ Faults
  /\ bound[w] # 0
  /\ bound' = [bound EXCEPT ![w] = 0]
  /\ stage' = [r \in Requests |-> IF r \in mine THEN "lost" ELSE stage[r]]
  /\ reply' = [r \in Requests |->
                 IF r \in mine /\ reply[r] = "none" THEN "dropped" ELSE reply[r]]
  /\ cancelled' = [r \in Requests |-> cancelled[r] /\ r \notin mine]
  /\ UNCHANGED <<storeVars, owner, ran, report>>

\* DrainState.__init__ of a new process opens whatever store is at the path.
WorkerStarts(w) ==
  /\ bound[w] = 0
  /\ bound' = [bound EXCEPT ![w] = current]
  /\ UNCHANGED <<storeVars, requestVars, report>>

Serve(r) == \/ Admit(r) \/ AdmitRaises(r) \/ Resume(r)
            \/ \E a \in {"answered", "dropped"} : Finish(r, a)
            \/ \E d \in {"draining", "denied"} : Reject(r, d)
            \/ Complete(r) \/ CompleteRaises(r)

Next ==
  \/ \E r \in Requests : Serve(r) \/ Cancel(r)
  \/ \E r \in Requests, w \in Workers : Arrive(r, w)
  \/ \E c \in Commands : SetAdmission(c[1], c[2])
  \/ TakeSnapshot \/ ReplaceStore
  \/ \E w \in Workers : WorkerDies(w) \/ WorkerStarts(w)

Spec == Init /\ [][Next]_vars

\* The event loop and the thread pool run what is runnable, and accepted work
\* ends (its own timeouts bound it); nothing obliges anyone to cancel, to
\* command, to die or to start.
FairSpec == Spec /\ \A r \in Requests : WF_vars(Serve(r))
-----------------------------------------------------------------------------
(* Properties *)

\* Requests whose admission committed and whose application may still run.
Working == {r \in Requests : stage[r] \in {"owned", "running"}}

\* The report a controller holds says that store s is closed and idle, and no
\* later command was applied to s.
ReportsIdle(s) == /\ report.store = s
                  /\ report.revision = revision[s]
                  /\ ~ report.accepting
                  /\ report.in_flight = 0

\* The row of every request that works, or may be about to, is in the store its
\* worker opened, even if that store has been replaced since.
WorkIsCounted == \A r \in Working : r \in requests[StoreOf(r)]

\* A controller that closed a store and holds a report of zero in-flight
\* requests at the store's revision may stop the container: no request admitted
\* by that store works, however old the report is.
IdleReportIsTrue == \A r \in Working : ~ ReportsIdle(StoreOf(r))

\* A caller told that its request was not started was told the truth: the
\* request never reached the application, nor is a row of it kept by a live
\* worker once the middleware has returned.
RefusalMeansNotStarted ==
  \A r \in Requests : reply[r] \in {"draining", "denied"} =>
    /\ r \notin ran
    /\ \A s \in Stores : r \notin requests[s]

\* A row disappears only by the completion of its own request: a crash, another
\* request's completion and a replaced store leave it counted.
RowLeaves == \A s \in Stores : \A r \in requests[s] \ requests'[s] :
  stage[r] = "completing" /\ stage'[r] = "done" /\ StoreOf(r) = s
RowsLeaveOnce == [][RowLeaves]_vars

\* Delayed and duplicated commands cannot undo a newer one: a store's revision
\* never goes back and its gate only turns under a higher revision.
CommandStep == \A s \in Stores :
  /\ revision[s] <= revision'[s]
  /\ accepting'[s] # accepting[s] => revision[s] < revision'[s]
CommandsAreOrdered == [][CommandStep]_vars

\* A closed store becomes idle, unless it is opened again, but for the rows of
\* requests whose worker died or whose completion failed: nobody removes those.
DrainCompletes == \A s \in Stores :
  ~ accepting[s] ~> (accepting[s] \/ \A r \in requests[s] : stage[r] = "lost")

\* The container implements the abstract gate, seen from its first store: work
\* begins when the admission commits, not when the application is called.
Gate == INSTANCE DrainGate WITH
  gate <- accepting[1] /\ current = 1,
  working <- {r \in Working : StoreOf(r) = 1},
  idle <- ReportsIdle(1)
ImplementsGate == Gate!GateSpec
=============================================================================
