--------------------------- MODULE GradingAdmission ---------------------------
(***************************************************************************)
(* Admission of /v1/evaluate requests in one service process: the          *)
(* reservation of (tenant, run, task) keys, the tenant's evaluation quota  *)
(* in its external counter table, and the active-slot semaphore with its   *)
(* queue (vals.app._GradingAdmission and ._v1_evaluate_in_scope,           *)
(* vals.evaluation_quota).                                                 *)
(*                                                                         *)
(* The process is one event loop: what a coroutine does between two awaits *)
(* is one step.  The counter update runs in a thread (blocking.            *)
(* run_blocking), so that a cancelled request waits for it.  The semaphore *)
(* hands a permit to the first waiter when it is released and the waiter   *)
(* runs later; a timeout or a cancellation may come in between.            *)
(***************************************************************************)
EXTENDS Integers, FiniteSets

CONSTANTS
  Requests, Keys, Tenants,
  KeyOf,            \* the (tenant, run_id, task_id) a request is for
  TenantOf,         \* the tenant of a key
  Direct,           \* requests on the routes that are counted but not admitted
  Metered, Limit,   \* tenants with an evaluation quota, and its limit
  MaxConcurrency, MaxQueued, MaxAdmittedPerTenant,
  MaxPeriod         \* bound: how often the quota period rolls over

ASSUME AdmissionAssumption ==
  /\ IsFiniteSet(Requests)
  /\ KeyOf \in [Requests -> Keys]
  /\ TenantOf \in [Keys -> Tenants]
  /\ Direct \subseteq Requests
  /\ Metered \subseteq Tenants
  /\ Limit \in Nat \ {0}
  /\ MaxConcurrency \in Nat \ {0}     \* _grading_max_concurrency
  /\ MaxQueued \in Nat
  /\ MaxAdmittedPerTenant \in Nat \ {0}
  /\ MaxPeriod \in Nat

Periods == 0 .. MaxPeriod
Client(r) == TenantOf[KeyOf[r]]

\* Where a request's coroutine is.  "granted": the semaphore gave it a permit,
\* it has not run yet.  "leaving": its wait was cancelled, it has not run yet.
\* "returning": as leaving, with a permit it was given before.
Stages == {"checking", "billing", "queued", "granted", "leaving", "returning",
           "grading", "serving", "done"}
Outcomes == {"none", "invalid", "duplicate", "full", "exceeded", "unavailable",
             "late", "answered", "cancelled"}

VARIABLES
  stage, outcome,
  cancelled,   \* a cancellation waits for the request's thread or cleanup
  verdict,     \* what the counter update's thread returned
  period,      \* the period the request is counted in
  charged,     \* the counter table took a unit for the request
  admitted, byTenant,   \* _admitted, _admitted_by_tenant
  permits,     \* the semaphore's value
  ticket,      \* the order in which the waiters joined the semaphore
  used,        \* request_count of each counter key
  today        \* the current quota period

loopVars == <<admitted, byTenant, permits, ticket>>
quotaVars == <<verdict, period, charged, used, today>>
vars == <<stage, outcome, cancelled, loopVars, quotaVars>>

TypeOK ==
  /\ stage \in [Requests -> Stages]
  /\ outcome \in [Requests -> Outcomes]
  /\ cancelled \in [Requests -> BOOLEAN]
  /\ verdict \in [Requests -> {"none", "counted", "exceeded", "unavailable"}]
  /\ period \in [Requests -> Periods]
  /\ charged \in [Requests -> BOOLEAN]
  /\ admitted \subseteq Keys
  /\ byTenant \in [Tenants -> Int]
  /\ permits \in Int
  /\ ticket \in [Requests -> Nat]
  /\ used \in [Tenants -> [Periods -> 0 .. Limit]]
  /\ today \in Periods

Init ==
  /\ stage = [r \in Requests |-> "checking"]
  /\ outcome = [r \in Requests |-> "none"]
  /\ cancelled = [r \in Requests |-> FALSE]
  /\ verdict = [r \in Requests |-> "none"]
  /\ period = [r \in Requests |-> 0]
  /\ charged = [r \in Requests |-> FALSE]
  /\ admitted = {}
  /\ byTenant = [t \in Tenants |-> 0]
  /\ permits = MaxConcurrency
  /\ ticket = [r \in Requests |-> 0]
  /\ used = [t \in Tenants |-> [p \in Periods |-> 0]]
  /\ today = 0

Queued == {r \in Requests : stage[r] = "queued"}
\* Requests inside "async with reserve(...)".
Holding == {r \in Requests \ Direct :
              stage[r] \in {"billing", "queued", "granted", "leaving",
                            "returning", "grading"}}
\* Requests a permit of the semaphore is out for.
Slotted == {r \in Requests : stage[r] \in {"granted", "returning", "grading"}}
-----------------------------------------------------------------------------
(* The semaphore (asyncio.Semaphore of Python 3.12) *)

Locked == \/ permits <= 0
          \/ \E r \in Requests : stage[r] \in {"queued", "granted", "returning"}

\* Mutant: the last to come is called first.
LastWaiters(G, n) ==
  /\ G \subseteq Queued
  /\ Cardinality(G) = IF n < Cardinality(Queued) THEN n ELSE Cardinality(Queued)
  /\ \A g \in G, o \in Queued \ G : ticket[g] > ticket[o]

\* G are the first n waiters, or all of them when there are fewer.
FirstWaiters(G, n) ==
  /\ G \subseteq Queued
  /\ Cardinality(G) = IF n < Cardinality(Queued) THEN n ELSE Cardinality(Queued)
  /\ \A g \in G, o \in Queued \ G : ticket[g] < ticket[o]

\* Request r goes to stage s, and the waiters of G become granted.
Move(r, s, G) ==
  stage' = [o \in Requests |-> IF o = r THEN s
                               ELSE IF o \in G THEN "granted" ELSE stage[o]]

NextTicket(t) == /\ \A r \in Queued : ticket[r] < t
                 /\ t > 0
                 /\ t = 1 \/ \E r \in Queued : ticket[r] = t - 1

\* acquire_active_slot: take a permit and go on, or wait for one.
TakeSlot(r) ==
  IF Locked
    THEN /\ stage' = [stage EXCEPT ![r] = "queued"]
         /\ \E t \in 1 .. Cardinality(Requests) :
              NextTicket(t) /\ ticket' = [ticket EXCEPT ![r] = t]
         /\ UNCHANGED permits
    ELSE /\ stage' = [stage EXCEPT ![r] = "grading"]
         /\ permits' = permits - 1
         /\ UNCHANGED ticket
-----------------------------------------------------------------------------
(* Reservations *)

Duplicate(r) == KeyOf[r] \in admitted
\* Mutant: the tenant's own limit is not looked at.
NoRoomAtAll(r) == Cardinality(admitted) >= MaxConcurrency + MaxQueued

NoRoom(r) == \/ Cardinality(admitted) >= MaxConcurrency + MaxQueued
             \/ byTenant[Client(r)] >= MaxAdmittedPerTenant

\* The finally of reserve.
Release(r) ==
  IF r \in Direct
    THEN UNCHANGED <<admitted, byTenant>>
    ELSE /\ admitted' = admitted \ {KeyOf[r]}
         /\ byTenant' = [byTenant EXCEPT ![Client(r)] = @ - 1]

End(r, why) == outcome' = [outcome EXCEPT ![r] = why]

\* The task, schema or submission key is refused: 400 or 404.
Refuse(r) ==
  /\ stage[r] = "checking"
  /\ stage' = [stage EXCEPT ![r] = "done"]
  /\ End(r, "invalid")
  /\ UNCHANGED <<cancelled, loopVars, quotaVars>>

\* reserve raises: 409, or 429 when there is no room.
TurnAway(r) ==
  /\ stage[r] = "checking" /\ r \notin Direct
  /\ Duplicate(r) \/ NoRoom(r)
  /\ stage' = [stage EXCEPT ![r] = "done"]
  /\ End(r, IF Duplicate(r) THEN "duplicate" ELSE "full")
  /\ UNCHANGED <<cancelled, loopVars, quotaVars>>

\* reserve succeeds.  The quota is consumed next; without one, the slot.
Reserve(r) ==
  /\ stage[r] = "checking" /\ r \notin Direct
  /\ ~ Duplicate(r) /\ ~ NoRoom(r)
  /\ admitted' = admitted \cup {KeyOf[r]}
  /\ byTenant' = [byTenant EXCEPT ![Client(r)] = @ + 1]
  /\ IF Client(r) \in Metered
       THEN /\ stage' = [stage EXCEPT ![r] = "billing"]
            /\ period' = [period EXCEPT ![r] = today]
            /\ UNCHANGED <<permits, ticket>>
       ELSE TakeSlot(r) /\ UNCHANGED period
  /\ UNCHANGED <<outcome, cancelled, verdict, charged, used, today>>

\* A request that is not admitted for grading, on its way to the quota.
Enter(r) ==
  /\ stage[r] = "checking" /\ r \in Direct
  /\ IF Client(r) \in Metered
       THEN /\ stage' = [stage EXCEPT ![r] = "billing"]
            /\ period' = [period EXCEPT ![r] = today]
       ELSE stage' = [stage EXCEPT ![r] = "serving"] /\ UNCHANGED period
  /\ UNCHANGED <<outcome, cancelled, loopVars, verdict, charged, used, today>>
-----------------------------------------------------------------------------
(* The quota *)

\* Mutant: the update is not conditional.
CountAlways(r) ==
  /\ stage[r] = "billing" /\ verdict[r] = "none"
  /\ verdict' = [verdict EXCEPT ![r] = "counted"]
  /\ charged' = [charged EXCEPT ![r] = TRUE]
  /\ used' = [used EXCEPT ![Client(r)][period[r]] = @ + 1]
  /\ UNCHANGED <<stage, outcome, cancelled, loopVars, period, today>>

\* The conditional update_item of _consume_sync succeeds.
Count(r) ==
  /\ stage[r] = "billing" /\ verdict[r] = "none"
  /\ used[Client(r)][period[r]] < Limit
  /\ verdict' = [verdict EXCEPT ![r] = "counted"]
  /\ charged' = [charged EXCEPT ![r] = TRUE]
  /\ used' = [used EXCEPT ![Client(r)][period[r]] = @ + 1]
  /\ UNCHANGED <<stage, outcome, cancelled, loopVars, period, today>>

\* ConditionalCheckFailedException.
Exceed(r) ==
  /\ stage[r] = "billing" /\ verdict[r] = "none"
  /\ used[Client(r)][period[r]] >= Limit
  /\ verdict' = [verdict EXCEPT ![r] = "exceeded"]
  /\ UNCHANGED <<stage, outcome, cancelled, loopVars, period, charged, used, today>>

\* Mutant: an error of the table is reported as an exceeded quota.
FailAsExceeded(r) ==
  /\ stage[r] = "billing" /\ verdict[r] = "none"
  /\ verdict' = [verdict EXCEPT ![r] = "exceeded"]
  /\ UNCHANGED <<stage, outcome, cancelled, loopVars, period, charged, used, today>>

\* Any other error.  The update may have been applied before its answer was
\* lost; it is not tried again.
StorageFails(r) ==
  /\ stage[r] = "billing" /\ verdict[r] = "none"
  /\ verdict' = [verdict EXCEPT ![r] = "unavailable"]
  /\ \/ UNCHANGED <<charged, used>>
     \/ /\ used[Client(r)][period[r]] < Limit
        /\ charged' = [charged EXCEPT ![r] = TRUE]
        /\ used' = [used EXCEPT ![Client(r)][period[r]] = @ + 1]
  /\ UNCHANGED <<stage, outcome, cancelled, loopVars, period, today>>

\* Mutant: an unavailable counter lets the request through.
BilledUnlessExceeded(r) == ~ cancelled[r] /\ verdict[r] # "exceeded"

Billed(r) == ~ cancelled[r] /\ verdict[r] = "counted"

\* The thread has returned and the coroutine runs on, or unwinds.
ResumeBilling(r) ==
  /\ stage[r] = "billing" /\ verdict[r] # "none"
  /\ IF Billed(r)
       THEN /\ IF r \in Direct
                 THEN /\ stage' = [stage EXCEPT ![r] = "serving"]
                      /\ UNCHANGED <<permits, ticket>>
                 ELSE TakeSlot(r)
            /\ UNCHANGED <<outcome, admitted, byTenant>>
       ELSE /\ stage' = [stage EXCEPT ![r] = "done"]
            /\ End(r, IF cancelled[r] THEN "cancelled" ELSE verdict[r])
            /\ Release(r)
            /\ UNCHANGED <<permits, ticket>>
  /\ UNCHANGED <<cancelled, quotaVars>>

RollOver ==
  /\ today < MaxPeriod
  /\ today' = today + 1
  /\ UNCHANGED <<stage, outcome, cancelled, loopVars, verdict, period, charged, used>>
-----------------------------------------------------------------------------
(* The wait for a slot, and the grade *)

\* A granted waiter runs.  It wakes others while permits are left.
Start(r) ==
  /\ stage[r] = "granted"
  /\ \E G \in SUBSET Queued :
       /\ FirstWaiters(G, permits)
       /\ Move(r, "grading", G)
       /\ permits' = permits - Cardinality(G)
  /\ UNCHANGED <<outcome, cancelled, admitted, byTenant, ticket, quotaVars>>

\* Mutant: the wait in the queue has no time limit.
AbandonIfCancelled(r, why) ==
  /\ stage[r] \in {"queued", "granted"} /\ why = "cancelled"
  /\ stage' = [stage EXCEPT ![r] = IF @ = "queued" THEN "leaving" ELSE "returning"]
  /\ ticket' = [ticket EXCEPT ![r] = 0]
  /\ End(r, why)
  /\ UNCHANGED <<cancelled, admitted, byTenant, permits, quotaVars>>

\* The queue timer fires, or the request is cancelled, while it waits.
Abandon(r, why) ==
  /\ stage[r] \in {"queued", "granted"}
  /\ stage' = [stage EXCEPT ![r] = IF @ = "queued" THEN "leaving" ELSE "returning"]
  /\ ticket' = [ticket EXCEPT ![r] = 0]
  /\ End(r, why)
  /\ UNCHANGED <<cancelled, admitted, byTenant, permits, quotaVars>>

\* Mutant: a permit that was granted too late is dropped.
LeaveEmptyHanded(r) ==
  /\ stage[r] \in {"leaving", "returning"}
  /\ \E G \in SUBSET Queued :
       /\ FirstWaiters(G, permits)
       /\ Move(r, "done", G)
       /\ permits' = permits - Cardinality(G)
  /\ Release(r)
  /\ UNCHANGED <<outcome, cancelled, ticket, quotaVars>>

\* The abandoned wait unwinds: a permit it was given goes back, permits that
\* are left go to the waiters, and the reservation ends.
Leave(r) ==
  /\ stage[r] \in {"leaving", "returning"}
  /\ LET left == permits + (IF stage[r] = "returning" THEN 1 ELSE 0) IN
     \E G \in SUBSET Queued :
       /\ FirstWaiters(G, left)
       /\ Move(r, "done", G)
       /\ permits' = left - Cardinality(G)
  /\ Release(r)
  /\ UNCHANGED <<outcome, cancelled, ticket, quotaVars>>

\* Mutant: the slot is released without waking a waiter.
FinishSilently(r) ==
  /\ stage[r] = "grading"
  /\ Move(r, "done", {})
  /\ permits' = permits + 1
  /\ End(r, IF cancelled[r] THEN "cancelled" ELSE "answered")
  /\ Release(r)
  /\ UNCHANGED <<cancelled, ticket, quotaVars>>

\* The grade ends, whatever its answer: the slot, then the reservation.
Finish(r) ==
  /\ stage[r] = "grading"
  /\ \E G \in SUBSET Queued :
       /\ FirstWaiters(G, 1)
       /\ Move(r, "done", G)
       /\ permits' = permits + 1 - Cardinality(G)
  /\ End(r, IF cancelled[r] THEN "cancelled" ELSE "answered")
  /\ Release(r)
  /\ UNCHANGED <<cancelled, ticket, quotaVars>>

FinishDirect(r) ==
  /\ stage[r] = "serving"
  /\ stage' = [stage EXCEPT ![r] = "done"]
  /\ End(r, IF cancelled[r] THEN "cancelled" ELSE "answered")
  /\ UNCHANGED <<cancelled, loopVars, quotaVars>>

\* The request is cancelled.  While its thread or its sandbox cleanup runs it
\* keeps what it holds.
Cancel(r) ==
  \/ /\ stage[r] = "checking"
     /\ stage' = [stage EXCEPT ![r] = "done"]
     /\ End(r, "cancelled")
     /\ UNCHANGED <<cancelled, loopVars, quotaVars>>
  \/ /\ stage[r] \in {"billing", "grading", "serving"} /\ ~ cancelled[r]
     /\ cancelled' = [cancelled EXCEPT ![r] = TRUE]
     /\ UNCHANGED <<stage, outcome, loopVars, quotaVars>>
  \/ Abandon(r, "cancelled")

\* The counter update's thread ends, one way or another.
ThreadEnds(r) == Count(r) \/ Exceed(r) \/ StorageFails(r)

Next ==
  \/ \E r \in Requests :
       \/ Refuse(r) \/ TurnAway(r) \/ Reserve(r) \/ Enter(r)
       \/ Count(r) \/ Exceed(r) \/ StorageFails(r) \/ ResumeBilling(r)
       \/ Start(r) \/ Abandon(r, "late") \/ Leave(r)
       \/ Finish(r) \/ FinishDirect(r) \/ Cancel(r)
  \/ RollOver

Spec == Init /\ [][Next]_vars

\* The loop runs what is ready, the thread returns (the client has timeouts),
\* and the queue timer fires.  Nothing is assumed of the graders.
Fairness ==
  \A r \in Requests :
    /\ WF_vars(ThreadEnds(r))
    /\ WF_vars(ResumeBilling(r))
    /\ WF_vars(Start(r))
    /\ WF_vars(Abandon(r, "late"))
    /\ WF_vars(Leave(r))

FairSpec == Spec /\ Fairness
-----------------------------------------------------------------------------
(* The contract *)

\* A request is inside while it holds its reservation; one whose wait was given up
\* has its answer, but leaves, and tells it, only when it has unwound.
PlaceOf(s) ==
  CASE s = "checking" -> "arriving"
    [] s = "billing" -> "entered"
    [] s = "queued" -> "waiting"
    [] s = "granted" -> "called"
    [] s \in {"leaving", "returning"} -> "leaving"
    [] s = "done" -> "gone"
    [] OTHER -> s

Contract == INSTANCE AdmissionContract WITH
  Slots <- MaxConcurrency, Places <- MaxConcurrency + MaxQueued,
  PlacesPerTenant <- MaxAdmittedPerTenant,
  place <- [r \in Requests |-> PlaceOf(stage[r])],
  answer <- [r \in Requests |-> IF stage[r] = "done" THEN outcome[r] ELSE "none"],
  ahead <- [r \in Requests |->
              IF stage[r] = "queued" THEN {o \in Queued : ticket[o] < ticket[r]} ELSE {}],
  paid <- {r \in Requests : charged[r]}, countedIn <- period
-----------------------------------------------------------------------------
(* Properties *)

\* The reservation set and the tenant counters are exactly the requests inside
\* reserve: one per key, at most MaxAdmittedPerTenant per tenant, at most
\* concurrency plus queue in all.  A reservation that an exit path forgot, or
\* released twice, would lock a task out or let a duplicate in.
ReservationsExact ==
  /\ admitted = {KeyOf[r] : r \in Holding}
  /\ \A r, o \in Holding : KeyOf[r] = KeyOf[o] => r = o
  /\ \A t \in Tenants :
       /\ byTenant[t] = Cardinality({r \in Holding : Client(r) = t})
       /\ byTenant[t] <= MaxAdmittedPerTenant
  /\ Cardinality(admitted) <= MaxConcurrency + MaxQueued

\* Every permit is free or out for exactly one request, also when a timeout or
\* a cancellation meets a permit on its way: grades never exceed the
\* concurrency and no slot is lost.
SlotsAccounted ==
  /\ permits >= 0
  /\ permits + Cardinality(Slotted) = MaxConcurrency

\* A permit is free while a request waits only if a waiter that has been given
\* one has still to run, and will pass the others on.
NoIdleSlot ==
  (permits > 0 /\ Queued # {}) =>
     \E r \in Requests : stage[r] \in {"granted", "returning"}

\* A counter equals the units its requests were charged and never passes the
\* limit, whichever threads commit in whichever order around a roll-over.  A metered
\* request that evaluates, or waits to, was charged; one that was turned away before
\* the quota was not.
QuotaExact ==
  /\ \A t \in Tenants, p \in Periods :
       /\ used[t][p] = Cardinality({r \in Requests : charged[r] /\ period[r] = p
                                                     /\ Client(r) = t})
       /\ used[t][p] <= Limit
  /\ \A r \in Requests :
       /\ (Client(r) \in Metered
             /\ stage[r] \in {"queued", "granted", "grading", "serving"}) => charged[r]
       /\ outcome[r] \in {"invalid", "duplicate", "full", "exceeded"} => ~ charged[r]

\* A request never hangs between its reservation and its grade: it starts, or
\* it ends with an answer, whatever the grades before it do.
WaitersSettle ==
  \A r \in Requests :
    stage[r] \in {"billing", "queued", "granted", "leaving", "returning"}
      ~> stage[r] \in {"grading", "serving", "done"}

\* The admission implements its contract: the counters, permits and tickets of
\* _GradingAdmission and the quota table let in, call, charge and turn away exactly
\* whom the contract allows, in the order of the line, for a true reason.
KeepsAdmissionContract == Contract!ContractSpec
=============================================================================
