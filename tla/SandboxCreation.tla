--------------------------- MODULE SandboxCreation ---------------------------
(***************************************************************************)
(* One create_sandbox call of a provider, and the sandbox it may leave:    *)
(* Daytona retries and recovers a lost answer by the request's unique name;*)
(* Modal hands a late allocation to a background task; Docker finishes its *)
(* own cleanup before it raises.  The call can be cancelled at any time,   *)
(* and the caller closes the provider once it has ended.                   *)
(***************************************************************************)
EXTENDS Naturals

CONSTANTS
  MaxFaults,   \* bound: calls and sandboxes that fail
  MaxAttempts  \* bound: attempts of a retried provider call, six in the code

VARIABLES
  provider,    \* its kind: a Compose sandbox is a Daytona one with services inside
  faults,
  box,         \* the sandbox of the request's name, as the provider has it
  creation,    \* the creation the call sent last, as the provider has it
  late,        \* an earlier creation was given up and may still be carried out
  call,        \* where the call is
  attempt,     \* the attempt of Daytona's call
  announced,   \* notify_sandbox_created ran
  outcome,     \* what the call came to
  cause,       \* why it failed
  reclaim,     \* the cleanup of a creation that was given up
  client       \* Modal's client

callVars == <<creation, late, call, attempt, announced, outcome, cause>>
creationVars == <<box, callVars, reclaim, client>>

OnDaytona == provider \in {"daytona", "compose"}

CreationTypeOK ==
  /\ box \in {"none", "created", "starting", "started", "failed", "stopped", "destroying"}
  /\ creation \in {"none", "sent", "taken", "conflict", "failed", "abandoned"}
  /\ call \in {"none", "preparing", "creating", "sweeping", "retry", "finding", "waiting", "checking",
               "notifying", "cleaning", "done"}
  /\ late \in BOOLEAN /\ announced \in BOOLEAN
  /\ attempt \in 0 .. MaxAttempts
  /\ outcome \in {"pending", "handle", "failed"}
  /\ cause \in {"none", "cancelled", "exhausted", "refused", "conflict", "timeout"}
  /\ reclaim \in {"none", "waiting", "deleting", "done", "failed", "stranded"}
  /\ client \in {"open", "closing", "closed"}

CreationInit ==
  /\ box = "none" /\ creation = "none" /\ late = FALSE
  /\ call = "none" /\ attempt = 0 /\ announced = FALSE
  /\ outcome = "pending" /\ cause = "none" /\ reclaim = "none" /\ client = "open"

Fails == faults < MaxFaults /\ faults' = faults + 1
Same == UNCHANGED <<provider, faults>>

Begin == /\ call = "none"
         /\ call' = "preparing" /\ attempt' = 1
         /\ UNCHANGED <<box, creation, late, announced, outcome, cause, reclaim, client>> /\ Same

Send == /\ call = "preparing"
        /\ call' = "creating" /\ creation' = "sent"
        /\ UNCHANGED <<box, late, attempt, announced, outcome, cause, reclaim, client>> /\ Same

\* The call returns the sandbox; whatever comes late now meets its name.
Return == /\ call' = "done" /\ outcome' = "handle"
          /\ creation' = "none" /\ late' = FALSE /\ attempt' = 0
          /\ UNCHANGED cause

\* The call raises.
Raise(why) == /\ call' = "done" /\ outcome' = "failed" /\ cause' = why
              /\ UNCHANGED <<late, attempt, announced>>

GoTo(step) == /\ call' = step
              /\ UNCHANGED <<late, attempt, announced, outcome, cause>>

\* A request the provider does not support.
Reject == /\ call = "preparing"
          /\ Raise("refused")
          /\ UNCHANGED <<box, creation, reclaim, client>> /\ Same

\* Daytona looks the volumes up in every attempt, and waits until they are ready.
ResolveVolumesFails == /\ OnDaytona /\ call = "preparing" /\ Fails
                       /\ \/ GoTo("retry")
                          \/ Raise("refused")
                       /\ UNCHANGED <<provider, box, creation, reclaim, client>>

\* Modal connects, and names the volumes and the image.
ConnectFails == /\ provider = "modal" /\ call = "preparing" /\ Fails
                /\ Raise("refused")
                /\ UNCHANGED <<provider, box, creation, reclaim, client>>

\* Docker pulls a missing image, outside create_timeout; the pull is killed when it
\* takes too long or the call is cancelled.
PullFails == /\ provider = "docker" /\ call = "preparing"
             /\ \E why \in {"timeout", "refused"} : Raise(why)
             /\ UNCHANGED <<box, creation, reclaim, client>> /\ Same
-----------------------------------------------------------------------------
(* The provider's side *)

\* A creation is carried out; Daytona refuses a name that is taken.
Accept ==
  /\ creation = "sent"
  /\ \/ box = "none" /\ creation' = "taken"
        /\ box' = IF OnDaytona THEN "starting" ELSE IF provider = "docker" THEN "created" ELSE "started"
     \/ box # "none" /\ creation' = "conflict" /\ UNCHANGED box
  /\ UNCHANGED <<late, call, attempt, announced, outcome, cause, reclaim, client>> /\ Same

\* One that nobody waits for any more.
AcceptLate ==
  /\ late /\ late' = FALSE
  /\ box' = IF box = "none" THEN IF OnDaytona THEN "starting" ELSE "created" ELSE box
  /\ UNCHANGED <<creation, call, attempt, announced, outcome, cause, reclaim, client>> /\ Same

Start == /\ \/ box = "starting"
            \/ box = "created" /\ creation = "taken"
         /\ box' = "started"
         /\ UNCHANGED <<callVars, reclaim, client>> /\ Same

StartFails == /\ box = "starting" /\ Fails
              /\ box' = "failed"
              /\ UNCHANGED <<provider, callVars, reclaim, client>>

\* It stops under the call; Daytona deletes a stopped sandbox by itself.
Stop == /\ OnDaytona /\ box = "started" /\ outcome = "pending" /\ Fails
        /\ box' = "stopped"
        /\ UNCHANGED <<provider, callVars, reclaim, client>>

Destroy == /\ box = "destroying"
           /\ box' = "none"
           /\ UNCHANGED <<callVars, reclaim, client>> /\ Same
-----------------------------------------------------------------------------
(* Daytona *)

\* The SDK returns a sandbox that has started.
Created == /\ OnDaytona /\ call = "creating" /\ creation = "taken" /\ box = "started"
           /\ GoTo("notifying")
           /\ UNCHANGED <<box, creation, reclaim, client>> /\ Same

\* A transient failure: the answer is lost or the SDK's timeout expires, and what
\* was sent may still be on its way.
CreateFalters ==
  /\ OnDaytona /\ call = "creating" /\ creation # "conflict"
  /\ call' = "sweeping"
  /\ late' \in {late, late \/ creation = "sent"} /\ creation' = "none"
  /\ UNCHANGED <<box, attempt, announced, outcome, cause, reclaim, client>> /\ Same

\* Any other failure is final.
CreateRefused ==
  /\ OnDaytona /\ call = "creating" /\ creation # "conflict"
  /\ \/ creation = "sent" /\ Fails
     \/ creation = "taken" /\ box = "failed" /\ UNCHANGED faults
  /\ Raise("refused") /\ creation' = "none"
  /\ UNCHANGED <<provider, box, reclaim, client>>

NameConflict == /\ OnDaytona /\ call = "creating" /\ creation = "conflict"
                /\ GoTo("finding") /\ creation' = "none"
                /\ UNCHANGED <<box, reclaim, client>> /\ Same

\* delete_sandbox of a sandbox in a failed state.
DeleteFailedOne == box' = IF box = "failed" THEN "destroying" ELSE box

\* _delete_failed_sandbox, before the error goes on to the retry.
Sweep == /\ call = "sweeping"
         /\ DeleteFailedOne
         /\ GoTo("retry")
         /\ UNCHANGED <<creation, reclaim, client>> /\ Same

\* Looking or deleting fails, after retries of its own: its error goes on instead.
LookupFails ==
  /\ call \in {"sweeping", "finding"} /\ Fails
  /\ \/ UNCHANGED box
     \/ DeleteFailedOne
  /\ \/ GoTo("retry")
     \/ Raise("refused")
  /\ UNCHANGED <<provider, creation, reclaim, client>>

\* _PROVIDER_RETRY around create_sandbox.
Retry ==
  /\ call = "retry"
  /\ \/ /\ attempt < MaxAttempts
        /\ attempt' = attempt + 1 /\ call' = "preparing"
        /\ UNCHANGED <<late, announced, outcome, cause>>
     \/ attempt = MaxAttempts /\ Raise("exhausted")
  /\ UNCHANGED <<box, creation, reclaim, client>> /\ Same

\* Mutant: a recovered sandbox is returned without a word.
FindQuietly ==
  /\ call = "finding" /\ DeleteFailedOne
  /\ \/ box = "started" /\ Return /\ UNCHANGED announced
     \/ box = "starting" /\ GoTo("waiting") /\ UNCHANGED creation
     \/ box \notin {"started", "starting"} /\ Raise("conflict") /\ UNCHANGED creation
  /\ UNCHANGED <<reclaim, client>> /\ Same

\* _find_existing_sandbox: the conflict itself is raised when there is none to use.
Find ==
  /\ call = "finding" /\ DeleteFailedOne
  /\ \/ box = "started" /\ GoTo("notifying")
     \/ box = "starting" /\ GoTo("waiting")
     \/ box \notin {"started", "starting"} /\ Raise("conflict")
  /\ UNCHANGED <<creation, reclaim, client>> /\ Same

\* wait_for_sandbox_start, its own error or its timeout; the error is retried when
\* it looks transient.
Wait ==
  /\ call = "waiting"
  /\ \/ box = "started" /\ GoTo("notifying")
     \/ box # "started" /\ GoTo("retry")
     \/ box \notin {"started", "starting"} /\ Raise("refused")
  /\ UNCHANGED <<box, creation, reclaim, client>> /\ Same

\* The hook's own failure is only logged.
Notify == /\ call = "notifying"
          /\ announced' = TRUE
          /\ Return
          /\ UNCHANGED <<box, reclaim, client>> /\ Same

\* Nothing is deleted for a caller of Daytona that went away; the others have
\* nothing to delete yet.
Abandon == /\ outcome = "pending" /\ call # "none"
           /\ OnDaytona \/ call = "preparing"
           /\ Raise("cancelled")
           /\ UNCHANGED <<box, creation, reclaim, client>> /\ Same

DaytonaSteps == Created \/ CreateFalters \/ NameConflict \/ Sweep \/ Retry \/ Find
                \/ Wait \/ Notify
-----------------------------------------------------------------------------
(* Modal *)

Allocated == /\ provider = "modal" /\ call = "creating" /\ creation = "taken"
             /\ Return
             /\ UNCHANGED <<box, announced, reclaim, client>> /\ Same

\* The SDK call fails, its own retries included; an allocation may stay behind.
AllocationFails ==
  /\ provider = "modal" /\ creation \in {"sent", "taken"} /\ call \in {"creating", "done"} /\ Fails
  /\ creation' = "failed"
  /\ IF call = "creating" THEN Raise("refused") /\ UNCHANGED reclaim
     ELSE reclaim' = "failed" /\ GoTo(call)
  /\ UNCHANGED <<provider, box, client>>

\* create_timeout or a cancellation: the SDK call runs on, owned by a background task.
HandOver == /\ provider = "modal" /\ call = "creating"
            /\ \E why \in {"timeout", "cancelled"} : Raise(why)
            /\ reclaim' = "waiting"
            /\ UNCHANGED <<box, creation, client>> /\ Same

\* _cleanup_create, which needs the client.
Terminate == /\ provider = "modal" /\ reclaim = "waiting" /\ creation = "taken"
             /\ IF client = "closed" THEN reclaim' = "stranded" /\ UNCHANGED box
                                    ELSE reclaim' = "done" /\ box' = "none"
             /\ UNCHANGED <<callVars, client>> /\ Same

TerminateFails == /\ provider = "modal" /\ reclaim = "waiting" /\ creation = "taken" /\ Fails
                  /\ reclaim' = "failed"
                  /\ UNCHANGED <<provider, box, callVars, client>>

Close == /\ provider = "modal" /\ outcome = "failed" /\ client = "open"
         /\ client' = "closing"
         /\ UNCHANGED <<box, callVars, reclaim>> /\ Same

\* Mutant: the finalizer closes the client at once.
CloseAtOnce == /\ client = "closing"
               /\ client' = "closed"
               /\ UNCHANGED <<box, callVars, reclaim>> /\ Same

\* _close_client gathers the cleanups first.
CloseClient == /\ client = "closing" /\ reclaim # "waiting"
               /\ client' = "closed"
               /\ UNCHANGED <<box, callVars, reclaim>> /\ Same

ModalSteps == Allocated \/ Terminate \/ CloseClient
-----------------------------------------------------------------------------
(* Docker *)

\* containers.run has created and started it: the image is tried with a command.
Ran == /\ provider = "docker" /\ call = "creating" /\ box = "started"
       /\ GoTo("checking")
       /\ UNCHANGED <<box, creation, reclaim, client>> /\ Same

Checked == /\ provider = "docker" /\ call = "checking"
           /\ Return
           /\ UNCHANGED <<box, announced, reclaim, client>> /\ Same

\* The daemon refuses to create it, or to start it.
RunFails == /\ provider = "docker" /\ creation \in {"sent", "taken"} /\ box # "started" /\ Fails
            /\ creation' = "failed"
            /\ UNCHANGED <<provider, box, late, call, attempt, announced, outcome, cause, reclaim, client>>

\* That error, an image without setsid, create_timeout or a cancellation; further
\* cancellations wait.
CleanUp ==
  /\ provider = "docker" /\ call \in {"creating", "checking"}
  /\ call' = "cleaning" /\ reclaim' = "waiting"
  /\ \/ cause' \in {"timeout", "cancelled"}
     \/ cause' = "refused" /\ (creation = "failed" \/ call = "checking")
  /\ UNCHANGED <<box, creation, late, attempt, announced, outcome, client>> /\ Same

\* _cleanup_failed_creation waits for the run that is under way.
RunEnded == /\ provider = "docker" /\ reclaim = "waiting"
            /\ \/ box = "started"
               \/ creation = "failed"
            /\ reclaim' = "deleting"
            /\ UNCHANGED <<box, callVars, client>> /\ Same

\* But fifteen seconds at most.
RunOutlasts == /\ provider = "docker" /\ reclaim = "waiting" /\ box # "started"
               /\ creation # "failed" /\ Fails
               /\ reclaim' = "deleting"
               /\ late' = (creation = "sent") /\ creation' = "abandoned"
               /\ UNCHANGED <<provider, box, call, attempt, announced, outcome, cause, client>>

DeleteByName == /\ reclaim = "deleting"
                /\ reclaim' = "done" /\ box' = "none"
                /\ Raise(cause)
                /\ UNCHANGED <<creation, client>> /\ Same

DeleteFails == /\ reclaim = "deleting" /\ Fails
               /\ reclaim' = "failed"
               /\ box' \in {box, "none"}
               /\ Raise(cause)
               /\ UNCHANGED <<provider, creation, client>>

DockerSteps == \/ Ran \/ Checked \/ RunEnded \/ DeleteByName
               \/ creation = "failed" /\ CleanUp
-----------------------------------------------------------------------------
CallSteps == Begin \/ Send \/ DaytonaSteps \/ ModalSteps \/ DockerSteps

\* Daytona's calls are bounded by timeouts; the SDKs of the others see to an answer.
ProviderAnswers == ~ OnDaytona /\ (Accept \/ Start)

CreationNext ==
  \/ CallSteps
  \/ Accept \/ AcceptLate \/ Start \/ StartFails \/ Stop \/ Destroy
  \/ Reject \/ ResolveVolumesFails \/ ConnectFails \/ PullFails
  \/ CreateRefused \/ LookupFails \/ Abandon
  \/ AllocationFails \/ HandOver \/ TerminateFails \/ Close
  \/ RunFails \/ CleanUp \/ RunOutlasts \/ DeleteFails
-----------------------------------------------------------------------------
(* Properties *)

\* The sandbox a caller gets was announced (Daytona) and is none that the call
\* deleted, or had seen fail: daytona.py create_sandbox.
HandleIsGood ==
  outcome = "handle" => /\ OnDaytona => announced
                        /\ box \in {"started", "stopped"}

\* What may stay behind a call that failed.  Daytona: it was cancelled, ran out of
\* attempts or was refused; never the conflict with its own lost attempt.  Modal,
\* Docker: their cleanup failed, or the creation's own failure hid the sandbox.
MayStay ==
  \/ OnDaytona /\ (cause \in {"cancelled", "exhausted", "refused"} \/ late)
  \/ provider = "modal" /\ (creation = "failed" \/ reclaim = "failed")
  \/ provider = "docker" /\ (reclaim = "failed" \/ late)

\* A creation comes to an end, and one that fails leaves no sandbox but what
\* MayStay allows: README.md, late Modal cleanup; daytona.py:1956; docker.py:585.
CreationSettles ==
  (outcome = "pending") ~>
    \/ outcome = "handle"
    \/ outcome = "failed" /\ (box \in {"none", "stopped", "destroying"} \/ MayStay)
=============================================================================
