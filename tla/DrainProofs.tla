----------------------------- MODULE DrainProofs -----------------------------
(***************************************************************************)
(* Theorems about Drain, for any finite set of requests, any workers and   *)
(* any number of stores and revisions, and about DrainRetry, for any calls *)
(* and any number of tries: every theorem about Drain holds of the         *)
(* container the clients talk to, and retrying a refused call never starts *)
(* it twice.                                                               *)
(***************************************************************************)
EXTENDS DrainRetry, FiniteSetTheorems, TLAPS

\* The state has the declared types throughout: in particular a snapshot's
\* in_flight is a natural number, because the rows of a store are finite.
LEMMA SnapshotType ==
  ASSUME TypeOK, NEW s \in Stores, NEW rev \in -1 .. MaxRevision,
         NEW acc \in BOOLEAN
  PROVE  Snapshot(s, rev, acc) \in [store : 0 .. MaxStores,
           revision : -1 .. MaxRevision, accepting : BOOLEAN, in_flight : Nat]
<1>1. IsFiniteSet(requests[s])
  BY DrainAssumption, FS_Subset DEF TypeOK
<1>2. Cardinality(requests[s]) \in Nat
  BY <1>1, FS_CardinalityType
<1>3. s \in 0 .. MaxStores
  BY DrainAssumption DEF Stores
<1> QED BY <1>2, <1>3 DEF Snapshot

LEMMA TypeInit == Init => TypeOK
BY DrainAssumption DEF Init, TypeOK, Stores, Stages, Replies, NoReport

LEMMA TypeStep == TypeOK /\ [Next]_vars => TypeOK'
<1> SUFFICES ASSUME TypeOK, [Next]_vars PROVE TypeOK'
  OBVIOUS
<1> USE DrainAssumption
<1>1. ASSUME NEW r \in Requests, Admit(r) PROVE TypeOK'
  BY <1>1 DEF Admit, TypeOK, Stages
<1>2. ASSUME NEW r \in Requests, AdmitRaises(r) PROVE TypeOK'
  BY <1>2 DEF AdmitRaises, TypeOK, Stages, storeVars
<1>3. ASSUME NEW r \in Requests, Resume(r) PROVE TypeOK'
  <2>1. /\ stage' \in [Requests -> Stages]
        /\ reply' \in [Requests -> Replies]
        /\ cancelled' \in [Requests -> BOOLEAN]
        /\ ran' \subseteq Requests
    <3>1. CASE cancelled[r] \/ stage[r] = "raised"
      BY <1>3, <3>1 DEF Resume, TypeOK, Stages, Replies
    <3>2. CASE ~ (cancelled[r] \/ stage[r] = "raised")
      BY <1>3, <3>2 DEF Resume, TypeOK, Stages
    <3> QED BY <3>1, <3>2
  <2> QED BY <1>3, <2>1 DEF Resume, TypeOK, storeVars
<1>4. ASSUME NEW r \in Requests, NEW a \in {"answered", "dropped"}, Finish(r, a)
      PROVE TypeOK'
  BY <1>4 DEF Finish, TypeOK, Stages, Replies, storeVars
<1>5. ASSUME NEW r \in Requests, NEW d \in {"draining", "denied"}, Reject(r, d)
      PROVE TypeOK'
  BY <1>5 DEF Reject, TypeOK, Stages, Replies, storeVars
<1>6. ASSUME NEW r \in Requests, Complete(r) PROVE TypeOK'
  BY <1>6 DEF Complete, TypeOK, Stages
<1>7. ASSUME NEW r \in Requests, CompleteRaises(r) PROVE TypeOK'
  BY <1>7 DEF CompleteRaises, TypeOK, Stages, storeVars
<1>8. ASSUME NEW r \in Requests, Cancel(r) PROVE TypeOK'
  BY <1>8 DEF Cancel, TypeOK, storeVars
<1>9. ASSUME NEW r \in Requests, NEW w \in Workers, Arrive(r, w) PROVE TypeOK'
  BY <1>9 DEF Arrive, TypeOK, Stages, storeVars
<1>10. ASSUME NEW acc \in BOOLEAN, NEW rev \in 0 .. MaxRevision,
              SetAdmission(acc, rev)
       PROVE TypeOK'
  <2>1. /\ revision' \in [Stores -> -1 .. MaxRevision]
        /\ accepting' \in [Stores -> BOOLEAN]
    BY <1>10 DEF SetAdmission, TypeOK
  <2>2. current \in Stores
    BY DEF TypeOK
  <2>3. revision'[current] \in -1 .. MaxRevision /\ accepting'[current] \in BOOLEAN
    BY <2>1, <2>2
  <2>4. report' \in [store : 0 .. MaxStores, revision : -1 .. MaxRevision,
                     accepting : BOOLEAN, in_flight : Nat]
    <3>1. report' = report \/ report' = Snapshot(current, revision'[current], accepting'[current])
      BY <1>10 DEF SetAdmission
    <3> QED BY <2>2, <2>3, <3>1, SnapshotType DEF TypeOK
  <2> QED BY <1>10, <2>1, <2>4 DEF SetAdmission, TypeOK, requestVars
<1>11. CASE TakeSnapshot
  <2>1. report' \in [store : 0 .. MaxStores, revision : -1 .. MaxRevision,
                     accepting : BOOLEAN, in_flight : Nat]
    <3>1. /\ current \in Stores
          /\ revision[current] \in -1 .. MaxRevision
          /\ accepting[current] \in BOOLEAN
      BY DEF TypeOK
    <3> QED BY <3>1, <1>11, SnapshotType DEF TakeSnapshot
  <2> QED BY <1>11, <2>1 DEF TakeSnapshot, TypeOK, storeVars, requestVars
<1>12. CASE ReplaceStore
  BY <1>12 DEF ReplaceStore, TypeOK, Stores, requestVars
<1>13. ASSUME NEW w \in Workers, WorkerDies(w) PROVE TypeOK'
  BY <1>13 DEF WorkerDies, TypeOK, Stages, Replies, storeVars
<1>14. ASSUME NEW w \in Workers, WorkerStarts(w) PROVE TypeOK'
  BY <1>14 DEF WorkerStarts, TypeOK, Stores, storeVars, requestVars
<1>15. CASE UNCHANGED vars
  BY <1>15 DEF vars, storeVars, requestVars, TypeOK
<1> QED
  BY <1>1, <1>2, <1>3, <1>4, <1>5, <1>6, <1>7, <1>8, <1>9, <1>10, <1>11,
     <1>12, <1>13, <1>14, <1>15 DEF Next, Serve, Commands

\* Every value the store, the middleware and a controller's report take is of
\* the declared type.
THEOREM TypeCorrect == Spec => []TypeOK
BY TypeInit, TypeStep, PTL DEF Spec
-----------------------------------------------------------------------------
(***************************************************************************)
(* The inductive invariant.  IdleReportIsTrue alone is not inductive: that *)
(* a report of zero rows is about the work needs that work has a row       *)
(* (WorkIsCounted), that no row appears under a closed gate while the      *)
(* revision stands (ReportIsCurrent), and that a request is bound to one   *)
(* store from admission to completion (ServedByRunningWorker).             *)
(***************************************************************************)

ServedByRunningWorker == \A r \in Requests : InProgress(r) => StoreOf(r) \in Stores

ReportIsCurrent == \A s \in Stores : report.store = s =>
  /\ report.revision <= revision[s]
  /\ report.revision = revision[s] => report.accepting = accepting[s]
  /\ ReportsIdle(s) => requests[s] = {}

IInv == TypeOK /\ ServedByRunningWorker /\ WorkIsCounted /\ ReportIsCurrent

\* A fresh snapshot agrees with its store: zero rows means no row.
LEMMA SnapshotIsCurrent ==
  ASSUME TypeOK, NEW s \in Stores, NEW rev, NEW acc,
         Snapshot(s, rev, acc).in_flight = 0
  PROVE  requests[s] = {}
<1>1. IsFiniteSet(requests[s])
  BY DrainAssumption, FS_Subset DEF TypeOK
<1> QED BY <1>1, FS_EmptySet DEF Snapshot

LEMMA IInvInit == Init => IInv
BY TypeInit, DrainAssumption DEF Init, IInv, ServedByRunningWorker, InProgress,
   WorkIsCounted, Working, ReportIsCurrent, ReportsIdle, NoReport, Stores

LEMMA IInvStep == IInv /\ [Next]_vars => IInv'
<1> SUFFICES ASSUME IInv, [Next]_vars PROVE IInv'
  OBVIOUS
<1>0. TypeOK /\ TypeOK'
  BY TypeStep DEF IInv
<1> USE <1>0, DrainAssumption DEF IInv
<1>1. ASSUME NEW r \in Requests, Admit(r) PROVE IInv'
  <2>1. ServedByRunningWorker'
    BY <1>1 DEF Admit, ServedByRunningWorker, InProgress, StoreOf, TypeOK, Stages
  <2>2. WorkIsCounted'
    <3>1. \A q \in Requests : StoreOf(q)' = StoreOf(q)
      BY <1>1 DEF Admit, StoreOf
    <3>2. \A q \in Working : q \in requests'[StoreOf(q)]
      <4>1. \A q \in Working : StoreOf(q) \in Stores
        BY DEF ServedByRunningWorker, Working, InProgress
      <4> QED BY <1>1, <4>1 DEF Admit, WorkIsCounted, TypeOK
    <3>3. StoreOf(r) \in Stores /\ accepting[StoreOf(r)] => r \in requests'[StoreOf(r)]
      BY <1>1 DEF Admit, TypeOK
    <3>4. \A q \in Working' : q \in Working \/ (q = r /\ accepting[StoreOf(r)])
      BY <1>1 DEF Admit, Working, TypeOK
    <3>5. StoreOf(r) \in Stores
      BY <1>1 DEF Admit, ServedByRunningWorker, InProgress
    <3> QED BY <3>1, <3>2, <3>3, <3>4, <3>5 DEF WorkIsCounted, Working
  <2>3. ReportIsCurrent'
    BY <1>1 DEF Admit, Opened, ReportIsCurrent, ReportsIdle, StoreOf, TypeOK
  <2> QED BY <2>1, <2>2, <2>3
<1>2. ASSUME NEW r \in Requests, AdmitRaises(r) \/ CompleteRaises(r) PROVE IInv'
  BY <1>2 DEF AdmitRaises, CompleteRaises, ServedByRunningWorker, InProgress,
     StoreOf, WorkIsCounted, Working, ReportIsCurrent, ReportsIdle, TypeOK, storeVars
<1>3. ASSUME NEW r \in Requests, Resume(r) PROVE IInv'
  BY <1>3 DEF Resume, ServedByRunningWorker, InProgress, StoreOf, WorkIsCounted,
     Working, ReportIsCurrent, ReportsIdle, TypeOK, storeVars
<1>4. ASSUME NEW r \in Requests, NEW a, Finish(r, a) \/ Reject(r, a) PROVE IInv'
  BY <1>4 DEF Finish, Reject, ServedByRunningWorker, InProgress, StoreOf,
     WorkIsCounted, Working, ReportIsCurrent, ReportsIdle, TypeOK, storeVars
<1>5. ASSUME NEW r \in Requests, Complete(r) PROVE IInv'
  <2>1. ServedByRunningWorker'
    BY <1>5 DEF Complete, ServedByRunningWorker, InProgress, StoreOf, TypeOK
  <2>2. WorkIsCounted'
    BY <1>5 DEF Complete, Opened, WorkIsCounted, Working, StoreOf, TypeOK
  <2>3. ReportIsCurrent'
    BY <1>5 DEF Complete, Opened, ReportIsCurrent, ReportsIdle, StoreOf, TypeOK
  <2> QED BY <2>1, <2>2, <2>3
<1>6. ASSUME NEW r \in Requests, Cancel(r) PROVE IInv'
  BY <1>6 DEF Cancel, ServedByRunningWorker, InProgress, StoreOf, WorkIsCounted,
     Working, ReportIsCurrent, ReportsIdle, TypeOK, storeVars
<1>7. ASSUME NEW r \in Requests, NEW w \in Workers, Arrive(r, w) PROVE IInv'
  BY <1>7 DEF Arrive, ServedByRunningWorker, InProgress, StoreOf, WorkIsCounted,
     Working, ReportIsCurrent, ReportsIdle, TypeOK, Stores, storeVars
<1>8. ASSUME NEW acc \in BOOLEAN, NEW rev \in 0 .. MaxRevision,
             SetAdmission(acc, rev)
      PROVE IInv'
  <2>1. ServedByRunningWorker' /\ WorkIsCounted'
    BY <1>8 DEF SetAdmission, ServedByRunningWorker, InProgress, StoreOf,
       WorkIsCounted, Working, requestVars
  <2>2. ReportIsCurrent'
    <3>1. CASE report' = Snapshot(current, revision'[current], accepting'[current])
      <4>1. report'.in_flight = 0 => requests[current] = {}
        BY <3>1, SnapshotIsCurrent DEF TypeOK
      <4>2. /\ report'.store = current /\ requests' = requests
            /\ report'.revision = revision'[current]
            /\ report'.accepting = accepting'[current]
        BY <3>1, <1>8 DEF SetAdmission, Snapshot
      <4> QED BY <4>1, <4>2 DEF ReportIsCurrent, ReportsIdle, TypeOK
    <3>2. CASE report' = report
      <4>1. \A s \in Stores :
              \/ revision'[s] = revision[s] /\ accepting'[s] = accepting[s]
              \/ revision'[s] > revision[s]
        BY <1>8 DEF SetAdmission, TypeOK
      <4>2. requests' = requests
        BY <1>8 DEF SetAdmission
      <4> QED BY <3>2, <4>1, <4>2 DEF ReportIsCurrent, ReportsIdle, TypeOK
    <3> QED BY <3>1, <3>2, <1>8 DEF SetAdmission
  <2> QED BY <2>1, <2>2
<1>9. CASE TakeSnapshot
  <2>1. ServedByRunningWorker' /\ WorkIsCounted'
    BY <1>9 DEF TakeSnapshot, ServedByRunningWorker, InProgress, StoreOf,
       WorkIsCounted, Working, requestVars, storeVars
  <2>2. ReportsIdle(current)' => requests[current] = {}
    BY <1>9, SnapshotIsCurrent DEF TakeSnapshot, ReportsIdle, TypeOK, storeVars
  <2>3. ReportIsCurrent'
    BY <2>2, <1>9 DEF TakeSnapshot, Snapshot, ReportIsCurrent, ReportsIdle,
       TypeOK, storeVars
  <2> QED BY <2>1, <2>3
<1>10. CASE ReplaceStore
  BY <1>10 DEF ReplaceStore, ServedByRunningWorker, InProgress, StoreOf,
     WorkIsCounted, Working, ReportIsCurrent, ReportsIdle, TypeOK, requestVars
<1>11. ASSUME NEW w \in Workers, WorkerDies(w) PROVE IInv'
  <2>1. ServedByRunningWorker'
    BY <1>11 DEF WorkerDies, ServedByRunningWorker, InProgress, StoreOf, TypeOK
  <2>2. WorkIsCounted'
    BY <1>11 DEF WorkerDies, WorkIsCounted, Working, InProgress, StoreOf, TypeOK,
       storeVars
  <2>3. ReportIsCurrent'
    BY <1>11 DEF WorkerDies, ReportIsCurrent, ReportsIdle, storeVars
  <2> QED BY <2>1, <2>2, <2>3
<1>12. ASSUME NEW w \in Workers, WorkerStarts(w) PROVE IInv'
  <2>1. \A r \in Requests : InProgress(r) => owner[r] # w
    BY <1>12 DEF WorkerStarts, ServedByRunningWorker, StoreOf, Stores
  <2> QED BY <2>1, <1>12 DEF WorkerStarts, ServedByRunningWorker, InProgress,
       StoreOf, WorkIsCounted, Working, ReportIsCurrent, ReportsIdle, TypeOK,
       storeVars, requestVars
<1>13. CASE UNCHANGED vars
  BY <1>13 DEF vars, storeVars, requestVars, ServedByRunningWorker, InProgress,
     StoreOf, WorkIsCounted, Working, ReportIsCurrent, ReportsIdle
<1> QED
  BY <1>1, <1>2, <1>3, <1>4, <1>5, <1>6, <1>7, <1>8, <1>9, <1>10, <1>11,
     <1>12, <1>13 DEF Next, Serve, Commands

LEMMA InvariantHolds == Spec => []IInv
BY IInvInit, IInvStep, PTL DEF Spec

\* Work always has its row in the store its worker opened.
THEOREM WorkCounted == Spec => []WorkIsCounted
<1>1. IInv => WorkIsCounted
  BY DEF IInv
<1> QED BY <1>1, InvariantHolds, PTL

LEMMA IInvIdle == IInv => IdleReportIsTrue
<1> SUFFICES ASSUME IInv, NEW r \in Working PROVE ~ ReportsIdle(StoreOf(r))
  BY DEF IdleReportIsTrue
<1>1. StoreOf(r) \in Stores
  BY DEF IInv, ServedByRunningWorker, Working, InProgress
<1>2. r \in requests[StoreOf(r)]
  BY DEF IInv, WorkIsCounted
<1> QED BY <1>1, <1>2 DEF IInv, ReportIsCurrent, ReportsIdle

LEMMA IInvIdleNext == IInv' => IdleReportIsTrue'
BY IInvIdle, PTL

\* The controller's rule is safe: once a store is closed and a report bound to
\* its id and revision says that nothing is in flight, no admitted request works.
THEOREM IdleReportSafe == Spec => []IdleReportIsTrue
BY IInvIdle, InvariantHolds, PTL
-----------------------------------------------------------------------------
(* Action properties *)

LEMMA RowLeavesStep == TypeOK /\ [Next]_vars => [RowLeaves]_vars
<1> SUFFICES ASSUME TypeOK, Next, NEW s \in Stores,
                    NEW r \in requests[s] \ requests'[s]
             PROVE  stage[r] = "completing" /\ stage'[r] = "done" /\ StoreOf(r) = s
  BY DEF RowLeaves
<1>1. PICK q \in Requests : Complete(q)
  BY DEF Next, Serve, Commands, Admit, AdmitRaises, Resume, Finish, Reject,
     CompleteRaises, Cancel, Arrive, SetAdmission, TakeSnapshot, ReplaceStore,
     WorkerDies, WorkerStarts, storeVars, TypeOK
<1> QED BY <1>1 DEF Complete, TypeOK

\* Only the completion of a request removes its row.
THEOREM RowsLeave == Spec => RowsLeaveOnce
BY TypeCorrect, RowLeavesStep, PTL DEF Spec, RowsLeaveOnce

LEMMA CommandStepStep == TypeOK /\ [Next]_vars => [CommandStep]_vars
<1> SUFFICES ASSUME TypeOK, Next, NEW s \in Stores
             PROVE  /\ revision[s] <= revision'[s]
                    /\ accepting'[s] # accepting[s] => revision[s] < revision'[s]
  BY DEF CommandStep
<1>1. CASE UNCHANGED <<revision, accepting>>
  BY <1>1 DEF TypeOK
<1>2. CASE \E acc \in BOOLEAN, rev \in 0 .. MaxRevision : SetAdmission(acc, rev)
  BY <1>2, DrainAssumption DEF SetAdmission, TypeOK
<1> QED
  BY <1>1, <1>2 DEF Next, Serve, Commands, Admit, AdmitRaises, Resume, Finish, Reject,
     Complete, CompleteRaises, Cancel, Arrive, TakeSnapshot, ReplaceStore,
     WorkerDies, WorkerStarts, storeVars

\* No delayed or repeated command turns the gate back.
THEOREM CommandsOrdered == Spec => CommandsAreOrdered
BY TypeCorrect, CommandStepStep, PTL DEF Spec, CommandsAreOrdered
-----------------------------------------------------------------------------
(***************************************************************************)
(* Refusals.  The strengthening says where a row and a run can come from:  *)
(* a request that was not admitted has neither, and a denial is sent only  *)
(* to such a request.                                                      *)
(***************************************************************************)

NotAdmitted(r) == stage[r] \in {"unsent", "admitting", "refused", "raised", "rejecting"}
Untouched(r) == r \notin ran /\ \A s \in Stores : r \notin requests[s]

RInv == \A r \in Requests :
  /\ NotAdmitted(r) => Untouched(r)
  /\ reply[r] \in {"draining", "denied"} =>
       Untouched(r) /\ stage[r] \in {"completing", "done", "lost"}

LEMMA RInvInit == Init => RInv
BY DEF Init, RInv, Untouched

LEMMA RInvStep == TypeOK /\ RInv /\ [Next]_vars => RInv'
<1> SUFFICES ASSUME TypeOK, RInv, [Next]_vars PROVE RInv'
  OBVIOUS
<1> USE DEF NotAdmitted, Untouched, TypeOK
<1>1. ASSUME NEW r \in Requests, Admit(r) PROVE RInv'
  BY <1>1 DEF Admit, RInv
<1>2. ASSUME NEW r \in Requests,
             AdmitRaises(r) \/ CompleteRaises(r) \/ Cancel(r)
      PROVE  RInv'
  BY <1>2 DEF AdmitRaises, CompleteRaises, Cancel, RInv, storeVars
<1>3. ASSUME NEW r \in Requests, Resume(r) PROVE RInv'
  BY <1>3 DEF Resume, RInv, storeVars
<1>4. ASSUME NEW r \in Requests, NEW a \in {"answered", "dropped"}, Finish(r, a)
      PROVE RInv'
  BY <1>4 DEF Finish, RInv, storeVars
<1>5. ASSUME NEW r \in Requests, NEW d, Reject(r, d) PROVE RInv'
  BY <1>5 DEF Reject, RInv, storeVars
<1>6. ASSUME NEW r \in Requests, Complete(r) PROVE RInv'
  BY <1>6 DEF Complete, RInv
<1>7. ASSUME NEW r \in Requests, NEW w \in Workers, Arrive(r, w) PROVE RInv'
  BY <1>7 DEF Arrive, RInv, storeVars
<1>8. ASSUME NEW w \in Workers, WorkerDies(w) PROVE RInv'
  BY <1>8 DEF WorkerDies, RInv, InProgress, storeVars
<1>9. CASE UNCHANGED <<requests, requestVars>>
  BY <1>9 DEF requestVars, RInv
<1> QED
  BY <1>1, <1>2, <1>3, <1>4, <1>5, <1>6, <1>7, <1>8, <1>9
  DEF Next, Serve, Commands, SetAdmission, TakeSnapshot, ReplaceStore,
      WorkerStarts, vars, storeVars, requestVars

\* A request that was told "not started" never ran and holds no row.
THEOREM RefusalHonest == Spec => []RefusalMeansNotStarted
<1>1. RInv => RefusalMeansNotStarted
  BY DEF RInv, RefusalMeansNotStarted, Untouched
<1> QED BY <1>1, TypeCorrect, RInvInit, RInvStep, PTL DEF Spec
-----------------------------------------------------------------------------
(* Refinement: the container implements the abstract gate *)

GateOpen == accepting[1] /\ current = 1
WorkingHere == {r \in Working : StoreOf(r) = 1}

LEMMA GateInitMaps == Init => Gate!GateInit
BY DrainAssumption DEF Init, Gate!GateInit, Working, ReportsIdle, NoReport, Stores

\* A step of one request that leaves every other request, the stores' gates and
\* the report alone maps to the end of that request or to a stutter.
LEMMA EndMaps ==
  ASSUME UNCHANGED <<accepting, current, revision, report, bound, owner>>,
         NEW R \in SUBSET Requests, Working' = Working \ R
  PROVE  [Gate!GateNext]_(Gate!gateVars)
<1>1. WorkingHere' = WorkingHere \ R
  BY DEF WorkingHere, StoreOf
<1>2. UNCHANGED <<GateOpen, ReportsIdle(1)>>
  BY DEF GateOpen, ReportsIdle
<1>3. CASE R \cap WorkingHere = {}
  <2>1. UNCHANGED WorkingHere
    BY <1>1, <1>3
  <2> QED BY <2>1, <1>2 DEF Gate!gateVars, WorkingHere, GateOpen
<1>4. CASE R \cap WorkingHere # {}
  <2>1. Gate!End(R \cap WorkingHere)
    BY <1>1, <1>2, <1>4 DEF Gate!End, WorkingHere, GateOpen
  <2>2. R \cap WorkingHere \in SUBSET Requests
    OBVIOUS
  <2> QED BY <2>1, <2>2 DEF Gate!GateNext
<1> QED BY <1>3, <1>4

LEMMA GateStepMaps == IInv /\ IInv' /\ [Next]_vars => [Gate!GateNext]_(Gate!gateVars)
<1> SUFFICES ASSUME IInv, IInv', [Next]_vars PROVE [Gate!GateNext]_(Gate!gateVars)
  OBVIOUS
<1> USE DrainAssumption DEF IInv
<1>0. TypeOK /\ TypeOK' /\ 1 \in Stores
  BY DEF Stores
<1>idle. ReportsIdle(1)' => WorkingHere' = {}
  BY IInvIdleNext DEF IdleReportIsTrue, WorkingHere
<1>1. ASSUME NEW r \in Requests, Admit(r) PROVE [Gate!GateNext]_(Gate!gateVars)
  <2>1. UNCHANGED <<GateOpen, ReportsIdle(1)>>
    BY <1>1 DEF Admit, GateOpen, ReportsIdle
  <2>2. CASE accepting[StoreOf(r)] /\ StoreOf(r) = 1
    <3>1. GateOpen
      BY <1>1, <2>2 DEF Admit, Opened, GateOpen
    <3>2. r \notin WorkingHere /\ WorkingHere' = WorkingHere \cup {r}
      BY <1>0, <1>1, <2>2 DEF Admit, WorkingHere, Working, StoreOf, TypeOK
    <3>3. Gate!Begin(r)
      BY <2>1, <3>1, <3>2 DEF Gate!Begin, GateOpen, WorkingHere
    <3> QED BY <3>3 DEF Gate!GateNext
  <2>3. CASE ~ (accepting[StoreOf(r)] /\ StoreOf(r) = 1)
    <3>1. UNCHANGED WorkingHere
      BY <1>0, <1>1, <2>3 DEF Admit, WorkingHere, Working, StoreOf, TypeOK
    <3> QED BY <2>1, <3>1 DEF Gate!gateVars, GateOpen, WorkingHere
  <2> QED BY <2>2, <2>3
<1>2. ASSUME NEW r \in Requests,
             \/ AdmitRaises(r) \/ CompleteRaises(r) \/ Complete(r) \/ Cancel(r)
             \/ Resume(r)
             \/ \E a : Finish(r, a) \/ Reject(r, a)
      PROVE  [Gate!GateNext]_(Gate!gateVars)
  <2>1. UNCHANGED <<accepting, current, revision, report, bound, owner>>
    BY <1>2 DEF AdmitRaises, CompleteRaises, Complete, Cancel, Resume, Finish,
       Reject, storeVars
  <2>2. Working' = Working \/ Working' = Working \ {r}
    <3>1. CASE \E a : Finish(r, a) \/ Reject(r, a)
      BY <1>0, <3>1 DEF Finish, Reject, Working, TypeOK
    <3>2. CASE Resume(r)
      BY <1>0, <3>2 DEF Resume, Working, TypeOK
    <3>3. CASE AdmitRaises(r) \/ CompleteRaises(r) \/ Complete(r) \/ Cancel(r)
      BY <1>0, <3>3 DEF AdmitRaises, CompleteRaises, Complete, Cancel, Working, TypeOK
    <3> QED BY <1>2, <3>1, <3>2, <3>3
  <2>3. PICK R \in SUBSET Requests : Working' = Working \ R
    <3>1. Working' = Working => Working' = Working \ {}
      OBVIOUS
    <3>2. {} \in SUBSET Requests /\ {r} \in SUBSET Requests
      OBVIOUS
    <3> QED BY <2>2, <3>1, <3>2
  <2> QED BY <2>1, <2>3, EndMaps
<1>3. ASSUME NEW w \in Workers, WorkerDies(w) PROVE [Gate!GateNext]_(Gate!gateVars)
  <2> DEFINE dead == {r \in Requests : InProgress(r) /\ owner[r] = w}
  <2>1. Working' = Working \ dead
    BY <1>0, <1>3 DEF WorkerDies, Working, TypeOK
  <2>2. UNCHANGED <<GateOpen, ReportsIdle(1)>>
    BY <1>3 DEF WorkerDies, storeVars, GateOpen, ReportsIdle
  <2>3. WorkingHere' = WorkingHere \ dead
    <3>1. \A r \in Working \ dead : StoreOf(r)' = StoreOf(r)
      BY <1>0, <1>3 DEF WorkerDies, StoreOf, Working, InProgress, TypeOK
    <3> QED BY <2>1, <3>1 DEF WorkingHere
  <2>4. CASE dead \cap WorkingHere = {}
    BY <2>2, <2>3, <2>4 DEF Gate!gateVars, GateOpen, WorkingHere
  <2>5. CASE dead \cap WorkingHere # {}
    <3>1. Gate!End(dead \cap WorkingHere)
      BY <2>2, <2>3, <2>5 DEF Gate!End, GateOpen, WorkingHere
    <3> QED BY <3>1 DEF Gate!GateNext
  <2> QED BY <2>4, <2>5
<1>4. ASSUME NEW acc \in BOOLEAN, NEW rev \in 0 .. MaxRevision,
             SetAdmission(acc, rev)
      PROVE  [Gate!GateNext]_(Gate!gateVars)
  <2>1. UNCHANGED WorkingHere
    BY <1>4 DEF SetAdmission, WorkingHere, Working, StoreOf, requestVars
  <2>2. CASE current = 1
    <3>1. GateOpen' \in BOOLEAN /\ ReportsIdle(1)' \in BOOLEAN
      BY <1>0 DEF GateOpen, ReportsIdle, TypeOK
    <3>2. ReportsIdle(1)' => ~ GateOpen' /\ WorkingHere = {}
      BY <1>0, <1>idle, <2>1, <1>4 DEF ReportIsCurrent, ReportsIdle, GateOpen
    <3>3. Gate!Command(GateOpen')
      BY <2>1, <3>1, <3>2 DEF Gate!Command, GateOpen, WorkingHere
    <3> QED BY <3>1, <3>3 DEF Gate!GateNext
  <2>3. CASE current # 1
    <3>1. ~ GateOpen /\ ~ GateOpen'
      BY <1>4, <2>3 DEF SetAdmission, GateOpen
    <3>2. ReportsIdle(1)' = ReportsIdle(1) \/ ~ ReportsIdle(1)'
      BY <1>0, <1>4, <2>3 DEF SetAdmission, ReportsIdle, Snapshot, TypeOK
    <3>3. CASE ~ ReportsIdle(1)'
      <4>1. Gate!Report(FALSE)
        BY <2>1, <3>1, <3>3 DEF Gate!Report, GateOpen, WorkingHere
      <4> QED BY <4>1 DEF Gate!GateNext
    <3>4. CASE ReportsIdle(1)' = ReportsIdle(1)
      BY <2>1, <3>1, <3>4 DEF Gate!gateVars, GateOpen, WorkingHere
    <3> QED BY <3>2, <3>3, <3>4
  <2> QED BY <2>2, <2>3
<1>5. CASE TakeSnapshot
  <2>1. UNCHANGED <<GateOpen, WorkingHere>>
    BY <1>5 DEF TakeSnapshot, GateOpen, WorkingHere, Working, StoreOf, storeVars,
       requestVars
  <2>2. ReportsIdle(1)' => ~ GateOpen /\ WorkingHere = {}
    BY <1>0, <1>idle, <2>1, <1>5 DEF TakeSnapshot, ReportIsCurrent, ReportsIdle,
       GateOpen, storeVars
  <2>3. ReportsIdle(1)' \in BOOLEAN
    BY <1>0 DEF ReportsIdle, TypeOK
  <2>4. Gate!Report(ReportsIdle(1)')
    BY <2>1, <2>2 DEF Gate!Report, GateOpen, WorkingHere
  <2> QED BY <2>3, <2>4 DEF Gate!GateNext
<1>6. CASE ReplaceStore
  <2>1. Gate!Remove
    BY <1>0, <1>6 DEF ReplaceStore, Gate!Remove, ReportsIdle, Working, StoreOf,
       requestVars, Stores, TypeOK
  <2> QED BY <2>1 DEF Gate!GateNext
<1>7. ASSUME NEW r \in Requests, NEW w \in Workers, Arrive(r, w)
      PROVE  [Gate!GateNext]_(Gate!gateVars)
  <2>1. UNCHANGED <<GateOpen, ReportsIdle(1), WorkingHere>>
    BY <1>0, <1>7 DEF Arrive, GateOpen, ReportsIdle, WorkingHere, Working, StoreOf,
       storeVars, TypeOK
  <2> QED BY <2>1 DEF Gate!gateVars, GateOpen, WorkingHere
<1>8. ASSUME NEW w \in Workers, WorkerStarts(w) PROVE [Gate!GateNext]_(Gate!gateVars)
  <2>1. \A r \in Working : owner[r] # w
    BY <1>8 DEF WorkerStarts, ServedByRunningWorker, Working, InProgress, StoreOf, Stores
  <2>2. UNCHANGED <<GateOpen, ReportsIdle(1), WorkingHere>>
    BY <1>0, <1>8, <2>1 DEF WorkerStarts, GateOpen, ReportsIdle, WorkingHere, Working,
       StoreOf, storeVars, requestVars, TypeOK
  <2> QED BY <2>2 DEF Gate!gateVars, GateOpen, WorkingHere
<1>9. CASE UNCHANGED vars
  BY <1>9 DEF vars, storeVars, requestVars, Gate!gateVars, Working, StoreOf, ReportsIdle
<1> QED
  BY <1>1, <1>2, <1>3, <1>4, <1>5, <1>6, <1>7, <1>8, <1>9 DEF Next, Serve, Commands

\* The store, the middleware and the threads together let work begin, and let a
\* controller believe the container idle, exactly as the abstract gate does.
THEOREM DrainRefinesGate == Spec => ImplementsGate
BY InvariantHolds, GateInitMaps, GateStepMaps, PTL
DEF Spec, ImplementsGate, Gate!GateSpec
-----------------------------------------------------------------------------
(* The clients that retry *)

\* What the clients and the container do is, for the container, a step of Drain.
LEMMA ServerStepMaps == ServerStep => Next
<1> SUFFICES ASSUME ServerStep PROVE Next
  OBVIOUS
<1>1. CASE \E r \in Requests :
             \/ Admit(r) \/ AdmitRaises(r) \/ Resume(r) \/ Cancel(r)
             \/ Complete(r) \/ CompleteRaises(r)
             \/ \E a \in {"answered", "dropped"} : Finish(r, a)
             \/ Reject(r, "draining") \/ Reject(r, "denied")
  BY <1>1 DEF Next, Serve
<1>2. CASE \/ \E k \in Commands : SetAdmission(k[1], k[2])
           \/ \E w \in Workers : WorkerDies(w) \/ WorkerStarts(w)
  BY <1>2 DEF Next
<1> QED BY <1>1, <1>2 DEF ServerStep

LEMMA SendMaps ==
  ASSUME RetryTypeOK, NEW c \in Calls, Send(c)
  PROVE  Next /\ <<c, tries[c] + 1>> \in Requests
<1>1. tries[c] \in 0 .. MaxTries /\ tries[c] < MaxTries /\ MaxTries \in Nat
  BY RetryAssumption DEF RetryTypeOK, Send
<1>2. <<c, tries[c] + 1>> \in Requests
  BY <1>1, RetryAssumption
<1> QED BY <1>2 DEF Send, Next

LEMMA RetryStepMaps == RetryTypeOK /\ [RetryNext]_allVars => [Next]_vars
<1> SUFFICES ASSUME RetryTypeOK, [RetryNext]_allVars PROVE [Next]_vars
  OBVIOUS
<1>1. CASE ServerStep
  BY <1>1, ServerStepMaps
<1>2. ASSUME NEW c \in Calls, ClientStep(c) PROVE [Next]_vars
  <2>1. CASE Send(c)
    BY <2>1, SendMaps
  <2>2. CASE UNCHANGED vars
    BY <2>2
  <2> QED BY <1>2, <2>1, <2>2 DEF ClientStep, Call, Receive, ConnectionLost, Expire, Wake
<1>3. CASE UNCHANGED allVars
  BY <1>3 DEF allVars
<1> QED BY <1>1, <1>2, <1>3 DEF RetryNext

ClientTypes ==
  /\ call \in [Calls -> {"idle", "sent", "pausing"} \cup Outcomes]
  /\ tries \in [Calls -> 0 .. MaxTries]
  /\ expired \in [Calls -> BOOLEAN]

LEMMA ClientTypesStep == ClientTypes /\ [RetryNext]_allVars => ClientTypes'
<1> SUFFICES ASSUME ClientTypes, [RetryNext]_allVars PROVE ClientTypes'
  OBVIOUS
<1>1. CASE UNCHANGED clientVars
  BY <1>1 DEF ClientTypes, clientVars
<1>2. ASSUME NEW c \in Calls, Send(c) PROVE ClientTypes'
  <2>1. tries[c] \in 0 .. MaxTries /\ tries[c] < MaxTries /\ MaxTries \in Nat
    BY <1>2, RetryAssumption DEF ClientTypes, Send
  <2>2. tries[c] + 1 \in 0 .. MaxTries
    BY <2>1
  <2> QED BY <1>2, <2>2 DEF ClientTypes, Send
<1>3. ASSUME NEW c \in Calls, ClientStep(c), ~ Send(c) PROVE ClientTypes'
  <2>1. CASE Receive(c)
    BY <2>1 DEF ClientTypes, Receive, Outcomes
  <2>2. CASE ConnectionLost(c)
    BY <2>2 DEF ClientTypes, ConnectionLost, Outcomes
  <2>3. CASE Expire(c)
    BY <2>3 DEF ClientTypes, Expire
  <2>4. CASE Wake(c)
    BY <1>3, <2>4 DEF ClientTypes, Wake, Outcomes
  <2> QED BY <1>3, <2>1, <2>2, <2>3, <2>4 DEF ClientStep, Call
<1> QED BY <1>1, <1>2, <1>3 DEF RetryNext, ServerStep, allVars

\* Where a client is between its tries: none has been sent beyond the last, and each
\* before the last was refused by the drain.
TriesInv == \A c \in Calls : \A n \in 1 .. MaxTries :
  /\ n > tries[c] => stage[<<c, n>>] = "unsent"
  /\ n < tries[c] \/ (n = tries[c] /\ call[c] = "pausing") => reply[<<c, n>>] = "draining"
  /\ call[c] = "idle" => tries[c] = 0

RetryInv == TypeOK /\ ClientTypes /\ RInv /\ TriesInv

\* A refusal, once it is the reply, stays the reply; and a request comes out of
\* nowhere by Arrive only.
RepliesStay == \A r \in Requests : reply[r] = "draining" => reply'[r] = "draining"
UnsentStay == \A r \in Requests : stage[r] = "unsent" => stage'[r] = "unsent"

LEMMA ServerKeeps ==
  ASSUME TypeOK, RInv, ServerStep
  PROVE  RepliesStay /\ UnsentStay
<1> USE DEF TypeOK, RepliesStay, UnsentStay
<1>1. ASSUME NEW r \in Requests, Admit(r) \/ AdmitRaises(r) \/ Cancel(r)
                                  \/ Complete(r) \/ CompleteRaises(r)
      PROVE  RepliesStay /\ UnsentStay
  BY <1>1 DEF Admit, AdmitRaises, Cancel, Complete, CompleteRaises
<1>2. ASSUME NEW r \in Requests, Resume(r) PROVE RepliesStay /\ UnsentStay
  BY <1>2 DEF Resume, RInv
<1>3. ASSUME NEW r \in Requests, NEW a, Finish(r, a) \/ Reject(r, a)
      PROVE  RepliesStay /\ UnsentStay
  BY <1>3 DEF Finish, Reject, RInv
<1>4. ASSUME NEW w \in Workers, WorkerDies(w) PROVE RepliesStay /\ UnsentStay
  BY <1>4 DEF WorkerDies, InProgress
<1>5. CASE UNCHANGED requestVars
  BY <1>5 DEF requestVars
<1> QED BY <1>1, <1>2, <1>3, <1>4, <1>5 DEF ServerStep, SetAdmission, WorkerStarts

LEMMA RequestIs ==
  ASSUME NEW c \in Calls, NEW n \in 1 .. MaxTries PROVE <<c, n>> \in Requests
BY RetryAssumption

\* A client that sends has had its last try refused, or has not tried.
LEMMA SendTries ==
  ASSUME RetryInv, NEW c \in Calls, call[c] \in {"idle", "pausing"}, Send(c)
  PROVE  TriesInv'
<1>0. /\ tries[c] \in 0 .. MaxTries /\ tries[c] < MaxTries /\ MaxTries \in Nat
      /\ tries \in [Calls -> 0 .. MaxTries] /\ stage \in [Requests -> Stages]
      /\ call \in [Calls -> {"idle", "sent", "pausing"} \cup Outcomes]
  BY RetryAssumption DEF RetryInv, ClientTypes, TypeOK, Send
<1> DEFINE r == <<c, tries[c] + 1>>
<1>1. PICK w \in Workers : Arrive(r, w)
  BY DEF Send
<1>2. /\ call' = [call EXCEPT ![c] = "sent"] /\ tries' = [tries EXCEPT ![c] = @ + 1]
      /\ stage' = [stage EXCEPT ![r] = "admitting"] /\ reply' = reply
  BY <1>1 DEF Send, Arrive
<1> SUFFICES ASSUME NEW d \in Calls, NEW n \in 1 .. MaxTries
             PROVE  /\ n > tries'[d] => stage'[<<d, n>>] = "unsent"
                    /\ n < tries'[d] \/ (n = tries'[d] /\ call'[d] = "pausing")
                         => reply'[<<d, n>>] = "draining"
                    /\ call'[d] = "idle" => tries'[d] = 0
  BY DEF TriesInv
<1>3. <<d, n>> \in Requests
  BY RequestIs
<1>4. CASE d = c
  <2>1. tries'[d] = tries[c] + 1 /\ call'[d] = "sent"
    BY <1>0, <1>2, <1>4
  <2>2. n > tries[c] + 1 => stage'[<<d, n>>] = "unsent"
    <3> SUFFICES ASSUME n > tries[c] + 1 PROVE stage'[<<d, n>>] = "unsent"
      OBVIOUS
    <3>1. <<d, n>> # r
      BY <1>0
    <3>2. stage[<<c, n>>] = "unsent"
      BY <1>0 DEF RetryInv, TriesInv
    <3> QED BY <1>0, <1>2, <1>3, <1>4, <3>1, <3>2
  <2>3. n < tries[c] + 1 => reply[<<c, n>>] = "draining"
    <3> SUFFICES ASSUME n < tries[c] + 1 PROVE reply[<<c, n>>] = "draining"
      OBVIOUS
    <3>1. call[c] # "idle"
      <4>1. call[c] = "idle" => tries[c] = 0
        BY DEF RetryInv, TriesInv
      <4> QED BY <1>0, <4>1
    <3>2. n < tries[c] \/ (n = tries[c] /\ call[c] = "pausing")
      BY <1>0, <3>1
    <3> QED BY <3>2 DEF RetryInv, TriesInv
  <2> QED BY <1>2, <1>4, <2>1, <2>2, <2>3
<1>5. CASE d # c
  <2>1. tries'[d] = tries[d] /\ call'[d] = call[d]
    BY <1>0, <1>2, <1>5
  <2>2. <<d, n>> # r
    BY <1>5
  <2>3. stage'[<<d, n>>] = stage[<<d, n>>]
    BY <1>0, <1>2, <1>3, <2>2
  <2> QED BY <1>2, <2>1, <2>3 DEF RetryInv, TriesInv
<1> QED BY <1>4, <1>5

LEMMA RetryStart == RetryInit => RetryInv
<1> SUFFICES ASSUME RetryInit PROVE RetryInv
  OBVIOUS
<1>1. TypeOK /\ RInv
  BY TypeInit, RInvInit DEF RetryInit
<1>2. ClientTypes
  BY RetryAssumption DEF RetryInit, ClientTypes
<1>3. TriesInv
  <2> SUFFICES ASSUME NEW c \in Calls, NEW n \in 1 .. MaxTries
               PROVE  /\ stage[<<c, n>>] = "unsent" /\ tries[c] = 0 /\ call[c] = "idle"
                      /\ ~ (n < 0) /\ n # 0
    BY DEF TriesInv
  <2> QED BY RequestIs DEF RetryInit, Init
<1> QED BY <1>1, <1>2, <1>3 DEF RetryInv

LEMMA RetryStep == RetryInv /\ [RetryNext]_allVars => RetryInv'
<1> SUFFICES ASSUME RetryInv, [RetryNext]_allVars PROVE RetryInv'
  OBVIOUS
<1>1. [Next]_vars
  BY RetryStepMaps DEF RetryInv, RetryTypeOK, ClientTypes
<1>2. TypeOK' /\ RInv' /\ ClientTypes'
  BY <1>1, TypeStep, RInvStep, ClientTypesStep DEF RetryInv
<1>3. TriesInv'
  <2>1. CASE ServerStep
    <3>1. RepliesStay /\ UnsentStay /\ UNCHANGED <<call, tries>>
      BY <2>1, ServerKeeps DEF RetryInv, ServerStep, clientVars
    <3> QED BY <3>1, RequestIs DEF RetryInv, TriesInv, RepliesStay, UnsentStay
  <2>2. ASSUME NEW c \in Calls, Receive(c) \/ ConnectionLost(c) PROVE TriesInv'
    <3>1. /\ UNCHANGED <<stage, reply, tries>> /\ call[c] = "sent"
          /\ \/ call' = [call EXCEPT ![c] = "pausing"] /\ reply[Try(c)] = "draining"
             \/ \E out \in Outcomes : call' = [call EXCEPT ![c] = out]
      BY <2>2 DEF Receive, ConnectionLost, IsDrainRejection, Outcomes, vars, requestVars
    <3>2. /\ \A d \in Calls \ {c} : call'[d] = call[d]
          /\ call'[c] = "pausing" => reply[Try(c)] = "draining"
          /\ call'[c] # "idle"
      BY <3>1 DEF RetryInv, ClientTypes, Outcomes
    <3> SUFFICES ASSUME NEW d \in Calls, NEW n \in 1 .. MaxTries
                 PROVE  /\ n > tries[d] => stage[<<d, n>>] = "unsent"
                        /\ n < tries[d] \/ (n = tries[d] /\ call'[d] = "pausing")
                             => reply[<<d, n>>] = "draining"
                        /\ call'[d] = "idle" => tries[d] = 0
      BY <3>1 DEF TriesInv
    <3>3. CASE d = c
      BY <3>2, <3>3 DEF RetryInv, TriesInv, Try
    <3>4. CASE d # c
      BY <3>2, <3>4 DEF RetryInv, TriesInv
    <3> QED BY <3>3, <3>4
  <2>3. ASSUME NEW c \in Calls, Expire(c) \/ (Wake(c) /\ expired[c]) PROVE TriesInv'
    <3>1. /\ UNCHANGED <<stage, reply, tries>>
          /\ call' = call \/ call' = [call EXCEPT ![c] = "refused"]
      BY <2>3 DEF Expire, Wake, vars, requestVars
    <3>2. \A d \in Calls : call'[d] \in {call[d], "refused"}
      BY <3>1 DEF RetryInv, ClientTypes
    <3> QED BY <3>1, <3>2 DEF RetryInv, TriesInv
  <2>4. ASSUME NEW c \in Calls, Call(c) \/ (Wake(c) /\ ~ expired[c]) PROVE TriesInv'
    BY <2>4, SendTries DEF Call, Wake
  <2>5. CASE UNCHANGED allVars
    BY <2>5 DEF allVars, clientVars, vars, requestVars, RetryInv, TriesInv
  <2> QED BY <2>1, <2>2, <2>3, <2>4, <2>5 DEF RetryNext, ClientStep
<1> QED BY <1>2, <1>3 DEF RetryInv

LEMMA RetryInductive == RetrySpec => []RetryInv
  BY RetryStart, RetryStep, PTL DEF RetrySpec

\* The container under the clients of DrainRetry behaves as Drain says, so that every
\* theorem about the middleware and its store holds of it too.
THEOREM RetriesRefineDrain == RetrySpec => Spec
<1>1. RetryInit => Init
  BY DEF RetryInit
<1>2. RetryInv /\ [RetryNext]_allVars => [Next]_vars
  BY RetryStepMaps DEF RetryInv, RetryTypeOK, ClientTypes
<1> QED BY <1>1, <1>2, RetryInductive, PTL DEF RetrySpec, Spec

\* At most one try of a call reaches the application: only the drain's own refusal is
\* tried again, and what was refused never ran (_http_request, _connect_websocket).
THEOREM StartsOnce == RetrySpec => []AtMostOneStart
<1>1. RetryInv => AtMostOneStart
  <2> SUFFICES ASSUME RetryInv, NEW c \in Calls
               PROVE  Cardinality({n \in 1 .. MaxTries : <<c, n>> \in ran}) <= 1
    BY DEF AtMostOneStart
  <2> DEFINE S == {n \in 1 .. MaxTries : <<c, n>> \in ran}
  <2>1. \A n \in S : n = tries[c]
    <3> SUFFICES ASSUME NEW n \in 1 .. MaxTries, <<c, n>> \in ran PROVE n = tries[c]
      OBVIOUS
    <3>1. <<c, n>> \in Requests /\ tries[c] \in Nat /\ n \in Nat
      BY RequestIs, RetryAssumption DEF RetryInv, ClientTypes
    <3>2. ~ (n > tries[c])
      BY <3>1 DEF RetryInv, TriesInv, RInv, NotAdmitted, Untouched
    <3>3. ~ (n < tries[c])
      BY <3>1 DEF RetryInv, TriesInv, RInv, Untouched
    <3> QED BY <3>1, <3>2, <3>3
  <2>2. S \in SUBSET {tries[c]}
    BY <2>1
  <2>3. IsFiniteSet({tries[c]}) /\ Cardinality({tries[c]}) = 1
    BY FS_Singleton
  <2> HIDE DEF S
  <2>4. Cardinality(S) <= 1
    BY <2>2, <2>3, FS_Subset
  <2> QED BY <2>4 DEF S
<1> QED BY <1>1, RetryInductive, PTL
=============================================================================
