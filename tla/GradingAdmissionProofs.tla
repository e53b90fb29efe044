------------------------ MODULE GradingAdmissionProofs ------------------------
(***************************************************************************)
(* Theorems about GradingAdmission, for any finite set of requests, any    *)
(* keys and tenants, and any limits.                                       *)
(***************************************************************************)
EXTENDS GradingAdmission, FiniteSetTheorems, TLAPS

LEMMA TypeInit == Init => TypeOK
BY AdmissionAssumption DEF Init, TypeOK, Stages, Outcomes, Periods

LEMMA TakeSlotType ==
  ASSUME TypeOK, NEW r \in Requests, TakeSlot(r)
  PROVE  /\ stage' \in [Requests -> Stages]
         /\ permits' \in Int
         /\ ticket' \in [Requests -> Nat]
<1>1. CASE Locked
  <2>1. PICK t \in 1 .. Cardinality(Requests) : ticket' = [ticket EXCEPT ![r] = t]
    BY <1>1 DEF TakeSlot
  <2>2. t \in Nat
    BY AdmissionAssumption, FS_CardinalityType
  <2> QED BY <1>1, <2>1, <2>2 DEF TakeSlot, TypeOK, Stages
<1>2. CASE ~ Locked
  BY <1>2 DEF TakeSlot, TypeOK, Stages
<1> QED BY <1>1, <1>2

LEMMA FirstWaitersType ==
  ASSUME NEW n \in Int, NEW G, FirstWaiters(G, n)
  PROVE  /\ G \subseteq Queued
         /\ IsFiniteSet(G)
         /\ Cardinality(G) \in Nat
         /\ Cardinality(G) <= n
<1>1. G \subseteq Queued /\ IsFiniteSet(Queued)
  BY AdmissionAssumption, FS_Subset DEF FirstWaiters, Queued
<1>2. IsFiniteSet(G) /\ Cardinality(G) \in Nat /\ Cardinality(Queued) \in Nat
  BY <1>1, FS_Subset, FS_CardinalityType
<1>3. Cardinality(G) = IF n < Cardinality(Queued) THEN n ELSE Cardinality(Queued)
  BY DEF FirstWaiters
<1> QED BY <1>1, <1>2, <1>3

LEMMA TypeStep == TypeOK /\ [Next]_vars => TypeOK'
<1> SUFFICES ASSUME TypeOK, [Next]_vars PROVE TypeOK'
  OBVIOUS
<1> USE AdmissionAssumption
<1>1. ASSUME NEW r \in Requests, Refuse(r) PROVE TypeOK'
  BY <1>1 DEF Refuse, End, TypeOK, Stages, Outcomes, loopVars, quotaVars
<1>2. ASSUME NEW r \in Requests, TurnAway(r) PROVE TypeOK'
  BY <1>2 DEF TurnAway, End, TypeOK, Stages, Outcomes, loopVars, quotaVars
<1>3. ASSUME NEW r \in Requests, Reserve(r) PROVE TypeOK'
  <2>1. /\ admitted' \subseteq Keys
        /\ byTenant' \in [Tenants -> Int]
    BY <1>3 DEF Reserve, TypeOK, Client
  <2>2. CASE Client(r) \in Metered
    BY <1>3, <2>1, <2>2 DEF Reserve, TypeOK, Stages, Periods
  <2>3. CASE Client(r) \notin Metered
    <3>1. TakeSlot(r) /\ UNCHANGED period
      BY <1>3, <2>3 DEF Reserve
    <3> QED BY <1>3, <2>1, <3>1, TakeSlotType DEF Reserve, TypeOK
  <2> QED BY <2>2, <2>3
<1>4. ASSUME NEW r \in Requests, Enter(r) PROVE TypeOK'
  <2>1. CASE Client(r) \in Metered
    <3>1. /\ stage' = [stage EXCEPT ![r] = "billing"]
          /\ period' = [period EXCEPT ![r] = today]
      BY <1>4, <2>1 DEF Enter
    <3>2. /\ stage' \in [Requests -> Stages]
          /\ period' \in [Requests -> Periods]
      BY <3>1 DEF TypeOK, Stages
    <3> QED BY <1>4, <3>2 DEF Enter, TypeOK, loopVars
  <2>2. CASE Client(r) \notin Metered
    <3>1. stage' = [stage EXCEPT ![r] = "serving"] /\ UNCHANGED period
      BY <1>4, <2>2 DEF Enter
    <3>2. stage' \in [Requests -> Stages]
      BY <3>1 DEF TypeOK, Stages
    <3> QED BY <1>4, <3>1, <3>2 DEF Enter, TypeOK, loopVars
  <2> QED BY <2>1, <2>2
<1>5. ASSUME NEW r \in Requests, Count(r) PROVE TypeOK'
  <2>1. Client(r) \in Tenants /\ period[r] \in Periods
    BY DEF Client, TypeOK
  <2>2. used' \in [Tenants -> [Periods -> 0 .. Limit]]
    BY <1>5, <2>1 DEF Count, TypeOK
  <2> QED BY <1>5, <2>2 DEF Count, TypeOK, loopVars
<1>6. ASSUME NEW r \in Requests, Exceed(r) PROVE TypeOK'
  BY <1>6 DEF Exceed, TypeOK, loopVars
<1>7. ASSUME NEW r \in Requests, StorageFails(r) PROVE TypeOK'
  <2>1. Client(r) \in Tenants /\ period[r] \in Periods
    BY DEF Client, TypeOK
  <2>2. CASE UNCHANGED <<charged, used>>
    BY <1>7, <2>2 DEF StorageFails, TypeOK, loopVars
  <2>3. CASE ~ UNCHANGED <<charged, used>>
    <3>1. /\ used[Client(r)][period[r]] < Limit
          /\ charged' = [charged EXCEPT ![r] = TRUE]
          /\ used' = [used EXCEPT ![Client(r)][period[r]] = @ + 1]
      BY <1>7, <2>3 DEF StorageFails
    <3>2. used' \in [Tenants -> [Periods -> 0 .. Limit]]
      BY <2>1, <3>1 DEF TypeOK
    <3> QED BY <1>7, <3>1, <3>2 DEF StorageFails, TypeOK, loopVars
  <2> QED BY <2>2, <2>3
<1>8. ASSUME NEW r \in Requests, ResumeBilling(r) PROVE TypeOK'
  <2>1. CASE Billed(r) /\ r \in Direct
    BY <1>8, <2>1 DEF ResumeBilling, TypeOK, Stages, quotaVars
  <2>2. CASE Billed(r) /\ r \notin Direct
    <3>1. TakeSlot(r) /\ UNCHANGED <<outcome, admitted, byTenant>>
      BY <1>8, <2>2 DEF ResumeBilling
    <3> QED BY <1>8, <3>1, TakeSlotType DEF ResumeBilling, TypeOK, quotaVars
  <2>3. CASE ~ Billed(r)
    <3>1. /\ stage' = [stage EXCEPT ![r] = "done"]
          /\ outcome' = [outcome EXCEPT ![r] = IF cancelled[r] THEN "cancelled" ELSE verdict[r]]
          /\ Release(r)
          /\ UNCHANGED <<permits, ticket>>
      BY <1>8, <2>3 DEF ResumeBilling, End
    <3>2. (IF cancelled[r] THEN "cancelled" ELSE verdict[r]) \in Outcomes
      BY <2>3 DEF TypeOK, Outcomes, Billed
    <3>3. /\ admitted' \subseteq Keys
          /\ byTenant' \in [Tenants -> Int]
      BY <3>1 DEF Release, TypeOK
    <3> QED BY <1>8, <3>1, <3>2, <3>3 DEF ResumeBilling, TypeOK, Stages, quotaVars
  <2> QED BY <2>1, <2>2, <2>3
<1>9. ASSUME NEW r \in Requests, Start(r) PROVE TypeOK'
  <2>1. PICK G \in SUBSET Queued :
           /\ FirstWaiters(G, permits)
           /\ Move(r, "grading", G)
           /\ permits' = permits - Cardinality(G)
    BY <1>9 DEF Start
  <2>2. Cardinality(G) \in Nat
    BY <2>1, FirstWaitersType DEF TypeOK
  <2> QED BY <1>9, <2>1, <2>2 DEF Start, Move, TypeOK, Stages, quotaVars
<1>10. ASSUME NEW r \in Requests, NEW why \in {"late", "cancelled"}, Abandon(r, why)
       PROVE TypeOK'
  BY <1>10 DEF Abandon, End, TypeOK, Stages, Outcomes, quotaVars
<1>11. ASSUME NEW r \in Requests, Leave(r) PROVE TypeOK'
  <2> DEFINE left == permits + (IF stage[r] = "returning" THEN 1 ELSE 0)
  <2>1. PICK G \in SUBSET Queued :
           /\ FirstWaiters(G, left)
           /\ Move(r, "done", G)
           /\ permits' = left - Cardinality(G)
    BY <1>11 DEF Leave
  <2>2. left \in Int
    BY DEF TypeOK
  <2>3. Cardinality(G) \in Nat
    BY <2>1, <2>2, FirstWaitersType
  <2>4. permits' \in Int
    BY <2>1, <2>2, <2>3
  <2>5. /\ admitted' \subseteq Keys
        /\ byTenant' \in [Tenants -> Int]
    BY <1>11 DEF Leave, Release, TypeOK
  <2> HIDE DEF left
  <2> QED BY <1>11, <2>1, <2>4, <2>5 DEF Leave, Move, TypeOK, Stages, quotaVars
<1>12. ASSUME NEW r \in Requests, Finish(r) PROVE TypeOK'
  <2>1. PICK G \in SUBSET Queued :
           /\ FirstWaiters(G, 1)
           /\ Move(r, "done", G)
           /\ permits' = permits + 1 - Cardinality(G)
    BY <1>12 DEF Finish
  <2>2. Cardinality(G) \in Nat
    BY <2>1, FirstWaitersType
  <2>3. permits' \in Int
    BY <2>1, <2>2 DEF TypeOK
  <2>4. /\ admitted' \subseteq Keys
        /\ byTenant' \in [Tenants -> Int]
    BY <1>12 DEF Finish, Release, TypeOK
  <2> QED BY <1>12, <2>1, <2>3, <2>4 DEF Finish, End, Move, TypeOK, Stages, Outcomes, quotaVars
<1>13. ASSUME NEW r \in Requests, FinishDirect(r) PROVE TypeOK'
  BY <1>13 DEF FinishDirect, End, TypeOK, Stages, Outcomes, loopVars, quotaVars
<1>14. ASSUME NEW r \in Requests, Cancel(r) PROVE TypeOK'
  <2>1. CASE Abandon(r, "cancelled")
    BY <1>10, <2>1
  <2>2. CASE ~ Abandon(r, "cancelled")
    BY <1>14, <2>2 DEF Cancel, End, TypeOK, Stages, Outcomes, loopVars, quotaVars
  <2> QED BY <2>1, <2>2
<1>15. CASE RollOver
  BY <1>15 DEF RollOver, TypeOK, Periods, loopVars
<1>16. CASE UNCHANGED vars
  BY <1>16 DEF vars, loopVars, quotaVars, TypeOK
<1> QED
  BY <1>1, <1>2, <1>3, <1>4, <1>5, <1>6, <1>7, <1>8, <1>9, <1>10, <1>11,
     <1>12, <1>13, <1>14, <1>15, <1>16 DEF Next

\* Every value is of its declared type throughout; in particular no counter of
\* the quota table ever passes its limit.
THEOREM TypeCorrect == Spec => []TypeOK
BY TypeInit, TypeStep, PTL DEF Spec
-----------------------------------------------------------------------------
(***************************************************************************)
(* The slots.  SlotsAccounted is inductive with the types.  Each action is *)
(* described by what it does to the set Slotted and to the permits.        *)
(***************************************************************************)

LEMMA SlottedFinite == IsFiniteSet(Slotted) /\ Cardinality(Slotted) \in Nat
<1>1. IsFiniteSet(Slotted)
  BY AdmissionAssumption, FS_Subset DEF Slotted
<1> QED BY <1>1, FS_CardinalityType

LEMMA SlottedUnchanged ==
  ASSUME SlotsAccounted, Slotted' = Slotted, permits' = permits
  PROVE  SlotsAccounted'
BY DEF SlotsAccounted

\* What a move does to the slotted requests, for a request that was slotted.
LEMMA MoveSlotted ==
  ASSUME TypeOK, NEW r \in Requests, NEW G \in SUBSET Queued, NEW s \in Stages,
         stage[r] # "queued", Move(r, s, G)
  PROVE  /\ s = "grading" => Slotted' = (Slotted \cup {r}) \cup G
         /\ s = "done" => Slotted' = (Slotted \ {r}) \cup G
BY DEF Move, TypeOK, Slotted, Queued

LEMMA GrantCounts ==
  ASSUME NEW S \in SUBSET Requests, NEW G \in SUBSET Queued, S \cap G = {}
  PROVE  Cardinality(S \cup G) = Cardinality(S) + Cardinality(G)
<1>1. IsFiniteSet(S) /\ IsFiniteSet(G)
  BY AdmissionAssumption, FS_Subset DEF Queued
<1>2. Cardinality(S \cap G) = 0
  BY FS_EmptySet
<1>3. Cardinality(S) \in Nat /\ Cardinality(G) \in Nat
  BY <1>1, FS_CardinalityType
<1>4. Cardinality(S \cup G) = Cardinality(S) + Cardinality(G) - Cardinality(S \cap G)
  BY <1>1, FS_Union
<1> QED BY <1>2, <1>3, <1>4

LEMMA TakeSlotAccounts ==
  ASSUME TypeOK, SlotsAccounted, NEW r \in Requests,
         stage[r] \in {"checking", "billing"}, TakeSlot(r)
  PROVE  SlotsAccounted'
<1>1. CASE Locked
  <2>1. Slotted' = Slotted
    BY <1>1 DEF TakeSlot, Slotted, TypeOK
  <2> QED BY <1>1, <2>1, SlottedUnchanged DEF TakeSlot
<1>2. CASE ~ Locked
  <2>1. Slotted' = Slotted \cup {r}
    BY <1>2 DEF TakeSlot, Slotted, TypeOK
  <2>2. r \notin Slotted
    BY DEF Slotted
  <2>3. Cardinality(Slotted') = Cardinality(Slotted) + 1
    BY <2>1, <2>2, SlottedFinite, FS_AddElement
  <2>4. permits' = permits - 1 /\ permits > 0
    BY <1>2 DEF TakeSlot, Locked, TypeOK
  <2> QED BY <2>3, <2>4, SlottedFinite, AdmissionAssumption DEF SlotsAccounted, TypeOK
<1> QED BY <1>1, <1>2

LEMMA SlotsInit == Init => SlotsAccounted
<1> SUFFICES ASSUME Init PROVE SlotsAccounted
  OBVIOUS
<1>1. Slotted = {}
  BY DEF Init, Slotted
<1>2. Cardinality(Slotted) = 0
  BY <1>1, FS_EmptySet
<1> QED BY <1>2, AdmissionAssumption DEF Init, SlotsAccounted

LEMMA SlotsStep == TypeOK /\ SlotsAccounted /\ [Next]_vars => SlotsAccounted'
<1> SUFFICES ASSUME TypeOK, SlotsAccounted, [Next]_vars PROVE SlotsAccounted'
  OBVIOUS
<1>1. ASSUME NEW r \in Requests,
             \/ Refuse(r) \/ TurnAway(r) \/ Enter(r) \/ FinishDirect(r)
             \/ Count(r) \/ Exceed(r) \/ StorageFails(r)
      PROVE SlotsAccounted'
  <2>1. Slotted' = Slotted /\ permits' = permits
    <3>1. CASE Refuse(r) \/ TurnAway(r)
      BY <3>1 DEF Refuse, TurnAway, Slotted, loopVars, TypeOK
    <3>2. CASE Enter(r) \/ FinishDirect(r)
      <4>1. permits' = permits
        BY <3>2 DEF Enter, FinishDirect, loopVars
      <4>2. /\ stage[r] \in {"checking", "serving"}
            /\ \/ stage' = [stage EXCEPT ![r] = "billing"]
               \/ stage' = [stage EXCEPT ![r] = "serving"]
               \/ stage' = [stage EXCEPT ![r] = "done"]
        BY <3>2 DEF Enter, FinishDirect
      <4>3. Slotted' = Slotted
        BY <4>2 DEF Slotted, TypeOK
      <4> QED BY <4>1, <4>3
    <3>3. CASE Count(r) \/ Exceed(r) \/ StorageFails(r)
      BY <3>3 DEF Count, Exceed, StorageFails, Slotted, loopVars
    <3> QED BY <1>1, <3>1, <3>2, <3>3
  <2> QED BY <2>1, SlottedUnchanged
<1>2. ASSUME NEW r \in Requests, Reserve(r) PROVE SlotsAccounted'
  <2>1. CASE Client(r) \in Metered
    <3>1. Slotted' = Slotted /\ permits' = permits
      BY <1>2, <2>1 DEF Reserve, Slotted, TypeOK
    <3> QED BY <3>1, SlottedUnchanged
  <2>2. CASE Client(r) \notin Metered
    BY <1>2, <2>2, TakeSlotAccounts DEF Reserve
  <2> QED BY <2>1, <2>2
<1>3. ASSUME NEW r \in Requests, ResumeBilling(r) PROVE SlotsAccounted'
  <2>1. CASE Billed(r) /\ r \notin Direct
    BY <1>3, <2>1, TakeSlotAccounts DEF ResumeBilling
  <2>2. CASE ~ (Billed(r) /\ r \notin Direct)
    <3>1. /\ stage[r] = "billing"
          /\ permits' = permits
          /\ \/ stage' = [stage EXCEPT ![r] = "serving"]
             \/ stage' = [stage EXCEPT ![r] = "done"]
      BY <1>3, <2>2 DEF ResumeBilling
    <3>2. Slotted' = Slotted
      BY <3>1 DEF Slotted, TypeOK
    <3> QED BY <3>1, <3>2, SlottedUnchanged
  <2> QED BY <2>1, <2>2
<1>4. ASSUME NEW r \in Requests, Start(r) PROVE SlotsAccounted'
  <2>1. PICK G \in SUBSET Queued :
           /\ FirstWaiters(G, permits)
           /\ Move(r, "grading", G)
           /\ permits' = permits - Cardinality(G)
    BY <1>4 DEF Start
  <2>2. r \in Slotted /\ stage[r] # "queued"
    BY <1>4 DEF Start, Slotted
  <2>3. Slotted' = Slotted \cup G
    BY <2>1, <2>2, MoveSlotted DEF Stages
  <2>4. Slotted \cap G = {} /\ Slotted \subseteq Requests
    BY DEF Slotted, Queued
  <2>5. Cardinality(Slotted') = Cardinality(Slotted) + Cardinality(G)
    BY <2>3, <2>4, GrantCounts
  <2>6. Cardinality(G) \in Nat /\ Cardinality(G) <= permits
    BY <2>1, FirstWaitersType DEF TypeOK
  <2> QED BY <2>1, <2>5, <2>6, SlottedFinite, AdmissionAssumption
          DEF SlotsAccounted, TypeOK
<1>5. ASSUME NEW r \in Requests, NEW why \in {"late", "cancelled"}, Abandon(r, why)
      PROVE SlotsAccounted'
  <2>1. Slotted' = Slotted /\ permits' = permits
    BY <1>5 DEF Abandon, Slotted, TypeOK
  <2> QED BY <2>1, SlottedUnchanged
<1>6. ASSUME NEW r \in Requests, Leave(r) PROVE SlotsAccounted'
  <2> DEFINE left == permits + (IF stage[r] = "returning" THEN 1 ELSE 0)
  <2>1. PICK G \in SUBSET Queued :
           /\ FirstWaiters(G, left)
           /\ Move(r, "done", G)
           /\ permits' = left - Cardinality(G)
    BY <1>6 DEF Leave
  <2>2. left \in Int
    BY DEF TypeOK
  <2>3. left + Cardinality(Slotted \ {r}) = MaxConcurrency
    <3>1. CASE stage[r] = "returning"
      <4>1. r \in Slotted
        BY <3>1 DEF Slotted
      <4>2. Cardinality(Slotted \ {r}) = Cardinality(Slotted) - 1
        BY <4>1, SlottedFinite, FS_RemoveElement
      <4> QED BY <3>1, <4>2, SlottedFinite, AdmissionAssumption DEF SlotsAccounted, TypeOK
    <3>2. CASE stage[r] = "leaving"
      <4>1. Slotted \ {r} = Slotted
        BY <3>2 DEF Slotted
      <4>2. left = permits
        BY <3>2 DEF TypeOK
      <4> QED BY <4>1, <4>2 DEF SlotsAccounted
    <3> QED BY <1>6, <3>1, <3>2 DEF Leave
  <2>4. Slotted' = (Slotted \ {r}) \cup G
    BY <1>6, <2>1, MoveSlotted DEF Leave, Stages
  <2>5. (Slotted \ {r}) \cap G = {} /\ (Slotted \ {r}) \subseteq Requests
    BY DEF Slotted, Queued
  <2>6. Cardinality(Slotted') = Cardinality(Slotted \ {r}) + Cardinality(G)
    BY <2>4, <2>5, GrantCounts
  <2>7. Cardinality(G) \in Nat /\ Cardinality(G) <= left
    BY <2>1, <2>2, FirstWaitersType
  <2>8. Cardinality(Slotted \ {r}) \in Nat
    BY SlottedFinite, FS_Subset, FS_CardinalityType
  <2> HIDE DEF left
  <2> QED BY <2>1, <2>2, <2>3, <2>6, <2>7, <2>8, AdmissionAssumption DEF SlotsAccounted
<1>7. ASSUME NEW r \in Requests, Finish(r) PROVE SlotsAccounted'
  <2>1. PICK G \in SUBSET Queued :
           /\ FirstWaiters(G, 1)
           /\ Move(r, "done", G)
           /\ permits' = permits + 1 - Cardinality(G)
    BY <1>7 DEF Finish
  <2>2. r \in Slotted /\ stage[r] # "queued"
    BY <1>7 DEF Finish, Slotted
  <2>3. Slotted' = (Slotted \ {r}) \cup G
    BY <2>1, <2>2, MoveSlotted DEF Stages
  <2>4. (Slotted \ {r}) \cap G = {} /\ (Slotted \ {r}) \subseteq Requests
    BY DEF Slotted, Queued
  <2>5. Cardinality(Slotted') = Cardinality(Slotted \ {r}) + Cardinality(G)
    BY <2>3, <2>4, GrantCounts
  <2>6. Cardinality(Slotted \ {r}) = Cardinality(Slotted) - 1
    BY <2>2, SlottedFinite, FS_RemoveElement
  <2>7. Cardinality(G) \in Nat /\ Cardinality(G) <= 1
    BY <2>1, FirstWaitersType
  <2> QED BY <2>1, <2>5, <2>6, <2>7, SlottedFinite, AdmissionAssumption
          DEF SlotsAccounted, TypeOK
<1>8. ASSUME NEW r \in Requests, Cancel(r) PROVE SlotsAccounted'
  <2>1. CASE Abandon(r, "cancelled")
    BY <1>5, <2>1
  <2>2. CASE ~ Abandon(r, "cancelled")
    <3>1. permits' = permits
      BY <1>8, <2>2 DEF Cancel, loopVars
    <3>2. Slotted' = Slotted
      BY <1>8, <2>2 DEF Cancel, Slotted, TypeOK
    <3> QED BY <3>1, <3>2, SlottedUnchanged
  <2> QED BY <2>1, <2>2
<1>9. CASE RollOver \/ UNCHANGED vars
  <2>1. Slotted' = Slotted /\ permits' = permits
    BY <1>9 DEF RollOver, vars, loopVars, Slotted
  <2> QED BY <2>1, SlottedUnchanged
<1> QED BY <1>1, <1>2, <1>3, <1>4, <1>5, <1>6, <1>7, <1>8, <1>9 DEF Next

\* Every permit is free or out for one request, so that at most MaxConcurrency
\* requests are graded at once and no slot is ever lost.
THEOREM SlotsSafe == Spec => []SlotsAccounted
<1>1. TypeOK /\ SlotsAccounted /\ [Next]_vars => (TypeOK /\ SlotsAccounted)'
  BY TypeStep, SlotsStep
<1> QED BY <1>1, TypeInit, SlotsInit, PTL DEF Spec
-----------------------------------------------------------------------------
(***************************************************************************)
(* The reservations.  ReservationsExact is inductive with the types: the   *)
(* set Holding gains the request that reserves, loses the request that     *)
(* releases, and no other action touches it or the two variables.          *)
(***************************************************************************)

HeldBy(t) == {r \in Holding : Client(r) = t}

LEMMA HoldingFinite ==
  /\ Holding \subseteq Requests
  /\ \A t \in Tenants : IsFiniteSet(HeldBy(t)) /\ Cardinality(HeldBy(t)) \in Nat
<1>1. \A t \in Tenants : HeldBy(t) \in SUBSET Requests
  BY DEF HeldBy, Holding
<1>2. \A t \in Tenants : IsFiniteSet(HeldBy(t))
  BY <1>1, AdmissionAssumption, FS_Subset
<1> QED BY <1>2, FS_CardinalityType DEF Holding

\* The keys of finitely many requests are finitely many.
LEMMA KeysFinite ==
  ASSUME NEW S \in SUBSET Requests
  PROVE  IsFiniteSet({KeyOf[o] : o \in S})
<1> DEFINE f == [o \in S |-> KeyOf[o]]
           T == {KeyOf[o] : o \in S}
<1>1. IsFiniteSet(S)
  BY AdmissionAssumption, FS_Subset
<1>2. f \in Surjection(S, T)
  BY DEF Surjection
<1> QED BY <1>1, <1>2, FS_Surjection

LEMMA ReservationsUnchanged ==
  ASSUME ReservationsExact, Holding' = Holding, admitted' = admitted,
         byTenant' = byTenant
  PROVE  ReservationsExact'
BY DEF ReservationsExact

LEMMA ReservationAdded ==
  ASSUME TypeOK, ReservationsExact, NEW r \in Requests,
         ~ Duplicate(r), ~ NoRoom(r),
         Holding' = Holding \cup {r},
         admitted' = admitted \cup {KeyOf[r]},
         byTenant' = [byTenant EXCEPT ![Client(r)] = @ + 1]
  PROVE  ReservationsExact'
<1>1. admitted' = {KeyOf[o] : o \in Holding'}
  BY DEF ReservationsExact
<1>2. \A p, o \in Holding' : KeyOf[p] = KeyOf[o] => p = o
  <2>1. \A o \in Holding : KeyOf[o] # KeyOf[r]
    BY DEF ReservationsExact, Duplicate
  <2> QED BY <2>1 DEF ReservationsExact
<1>3. ASSUME NEW t \in Tenants
      PROVE  /\ byTenant'[t] = Cardinality({o \in Holding' : Client(o) = t})
             /\ byTenant'[t] <= MaxAdmittedPerTenant
  <2>1. r \notin Holding
    BY DEF ReservationsExact, Duplicate
  <2>2. byTenant[t] = Cardinality(HeldBy(t)) /\ byTenant[t] <= MaxAdmittedPerTenant
    BY DEF ReservationsExact, HeldBy
  <2>3. CASE t = Client(r)
    <3>1. {o \in Holding' : Client(o) = t} = HeldBy(t) \cup {r} /\ r \notin HeldBy(t)
      BY <2>1, <2>3 DEF HeldBy
    <3>2. Cardinality(HeldBy(t) \cup {r}) = Cardinality(HeldBy(t)) + 1
      BY <3>1, HoldingFinite, FS_AddElement
    <3>3. byTenant'[t] = byTenant[t] + 1 /\ byTenant[t] < MaxAdmittedPerTenant
      BY <2>3, AdmissionAssumption DEF NoRoom, TypeOK
    <3>4. byTenant[t] \in Int
      BY DEF TypeOK
    <3> QED BY <2>2, <3>1, <3>2, <3>3, <3>4, AdmissionAssumption
  <2>4. CASE t # Client(r)
    <3>1. {o \in Holding' : Client(o) = t} = HeldBy(t)
      BY <2>4 DEF HeldBy
    <3>2. byTenant'[t] = byTenant[t]
      BY <2>4 DEF TypeOK
    <3> QED BY <2>2, <3>1, <3>2
  <2> QED BY <2>3, <2>4
<1>4. Cardinality(admitted') <= MaxConcurrency + MaxQueued
  <2>1. admitted = {KeyOf[o] : o \in Holding}
    BY DEF ReservationsExact
  <2>2. IsFiniteSet(admitted)
    BY <2>1, HoldingFinite, AdmissionAssumption, FS_Subset, KeysFinite
  <2>3. Cardinality(admitted) \in Nat /\ Cardinality(admitted') = Cardinality(admitted) + 1
    BY <2>2, FS_AddElement, FS_CardinalityType DEF Duplicate
  <2>4. Cardinality(admitted) < MaxConcurrency + MaxQueued
    BY <2>3, AdmissionAssumption DEF NoRoom
  <2> QED BY <2>3, <2>4, AdmissionAssumption
<1> QED BY <1>1, <1>2, <1>3, <1>4 DEF ReservationsExact

LEMMA ReservationRemoved ==
  ASSUME TypeOK, ReservationsExact, NEW r \in Holding,
         Holding' = Holding \ {r}, Release(r)
  PROVE  ReservationsExact'
<1>1. /\ r \in Requests
      /\ admitted' = admitted \ {KeyOf[r]}
      /\ byTenant' = [byTenant EXCEPT ![Client(r)] = @ - 1]
  BY DEF Release, Holding
<1>2. admitted' = {KeyOf[o] : o \in Holding'}
  BY <1>1 DEF ReservationsExact
<1>3. \A p, o \in Holding' : KeyOf[p] = KeyOf[o] => p = o
  BY DEF ReservationsExact
<1>4. ASSUME NEW t \in Tenants
      PROVE  /\ byTenant'[t] = Cardinality({o \in Holding' : Client(o) = t})
             /\ byTenant'[t] <= MaxAdmittedPerTenant
  <2>1. byTenant[t] = Cardinality(HeldBy(t)) /\ byTenant[t] <= MaxAdmittedPerTenant
    BY DEF ReservationsExact, HeldBy
  <2>2. CASE t = Client(r)
    <3>1. {o \in Holding' : Client(o) = t} = HeldBy(t) \ {r} /\ r \in HeldBy(t)
      BY <2>2 DEF HeldBy
    <3>2. Cardinality(HeldBy(t) \ {r}) = Cardinality(HeldBy(t)) - 1
      BY <3>1, HoldingFinite, FS_RemoveElement
    <3>3. byTenant'[t] = byTenant[t] - 1 /\ byTenant[t] \in Int
      BY <1>1, <2>2 DEF TypeOK
    <3>4. byTenant'[t] = Cardinality(HeldBy(t) \ {r})
      BY <2>1, <3>2, <3>3
    <3>5. byTenant'[t] <= MaxAdmittedPerTenant
      BY <2>1, <3>3, AdmissionAssumption
    <3> QED BY <3>1, <3>4, <3>5
  <2>3. CASE t # Client(r)
    <3>1. {o \in Holding' : Client(o) = t} = HeldBy(t)
      BY <2>3 DEF HeldBy
    <3>2. byTenant'[t] = byTenant[t]
      BY <1>1, <2>3 DEF TypeOK
    <3> QED BY <2>1, <3>1, <3>2
  <2> QED BY <2>2, <2>3
<1>5. Cardinality(admitted') <= MaxConcurrency + MaxQueued
  <2>1. IsFiniteSet(admitted) /\ Cardinality(admitted) <= MaxConcurrency + MaxQueued
    BY HoldingFinite, KeysFinite DEF ReservationsExact
  <2>2. /\ Cardinality(admitted') <= Cardinality(admitted)
        /\ Cardinality(admitted) \in Nat
        /\ Cardinality(admitted') \in Nat
    BY <1>1, <2>1, FS_Subset, FS_CardinalityType
  <2> QED BY <2>1, <2>2, AdmissionAssumption
<1> QED BY <1>2, <1>3, <1>4, <1>5 DEF ReservationsExact

LEMMA ReservationsInit == Init => ReservationsExact
<1> SUFFICES ASSUME Init PROVE ReservationsExact
  OBVIOUS
<1>1. Holding = {}
  BY DEF Init, Holding
<1>2. \A t \in Tenants : {r \in Holding : Client(r) = t} = {}
  BY <1>1
<1>3. Cardinality({}) = 0
  BY FS_EmptySet
<1> QED BY <1>1, <1>2, <1>3, AdmissionAssumption DEF Init, ReservationsExact

\* Moves of a request and its successors inside "async with reserve".
LEMMA MoveHolding ==
  ASSUME TypeOK, NEW r \in Requests, NEW G \in SUBSET Queued, NEW s \in Stages,
         stage[r] \in {"granted", "leaving", "returning", "grading"}, Move(r, s, G)
  PROVE  /\ s = "grading" => Holding' = Holding
         /\ s = "done" => Holding' = Holding \ {r}
BY DEF Move, TypeOK, Holding, Queued

LEMMA TakeSlotHolding ==
  ASSUME TypeOK, NEW r \in Requests \ Direct, TakeSlot(r)
  PROVE  Holding' = Holding \cup {r}
<1>1. \/ stage' = [stage EXCEPT ![r] = "queued"]
      \/ stage' = [stage EXCEPT ![r] = "grading"]
  BY DEF TakeSlot
<1> QED BY <1>1 DEF Holding, TypeOK

\* The end of a request that may hold a reservation.
LEMMA ReleaseHolding ==
  ASSUME TypeOK, ReservationsExact, NEW r \in Requests,
         stage[r] \in {"billing", "leaving", "returning", "grading"},
         Holding' = Holding \ {r}, Release(r)
  PROVE  ReservationsExact'
<1>1. CASE r \in Direct
  <2>1. Holding' = Holding
    BY <1>1 DEF Holding
  <2> QED BY <1>1, <2>1, ReservationsUnchanged DEF Release
<1>2. CASE r \notin Direct
  <2>1. r \in Holding
    BY <1>2 DEF Holding
  <2> QED BY <2>1, ReservationRemoved
<1> QED BY <1>1, <1>2

LEMMA ReservationsStep ==
  TypeOK /\ ReservationsExact /\ [Next]_vars => ReservationsExact'
<1> SUFFICES ASSUME TypeOK, ReservationsExact, [Next]_vars PROVE ReservationsExact'
  OBVIOUS
<1>1. ASSUME NEW r \in Requests,
             \/ Refuse(r) \/ TurnAway(r) \/ Enter(r) \/ FinishDirect(r)
             \/ Count(r) \/ Exceed(r) \/ StorageFails(r)
      PROVE ReservationsExact'
  <2>1. Holding' = Holding /\ UNCHANGED <<admitted, byTenant>>
    <3>1. CASE Refuse(r) \/ TurnAway(r)
      BY <3>1 DEF Refuse, TurnAway, Holding, loopVars, TypeOK
    <3>2. CASE Enter(r)
      <4>1. /\ r \in Direct
            /\ \/ stage' = [stage EXCEPT ![r] = "billing"]
               \/ stage' = [stage EXCEPT ![r] = "serving"]
            /\ UNCHANGED <<admitted, byTenant>>
        BY <3>2 DEF Enter, loopVars
      <4> QED BY <4>1 DEF Holding, TypeOK
    <3>3. CASE FinishDirect(r)
      BY <3>3 DEF FinishDirect, Holding, loopVars, TypeOK
    <3>4. CASE Count(r) \/ Exceed(r) \/ StorageFails(r)
      BY <3>4 DEF Count, Exceed, StorageFails, Holding, loopVars
    <3> QED BY <1>1, <3>1, <3>2, <3>3, <3>4
  <2> QED BY <2>1, ReservationsUnchanged
<1>2. ASSUME NEW r \in Requests, Reserve(r) PROVE ReservationsExact'
  <2>1. /\ r \in Requests \ Direct
        /\ stage[r] = "checking"
        /\ ~ Duplicate(r) /\ ~ NoRoom(r)
        /\ admitted' = admitted \cup {KeyOf[r]}
        /\ byTenant' = [byTenant EXCEPT ![Client(r)] = @ + 1]
    BY <1>2 DEF Reserve
  <2>2. Holding' = Holding \cup {r}
    <3>1. CASE Client(r) \in Metered
      <4>1. stage' = [stage EXCEPT ![r] = "billing"]
        BY <1>2, <3>1 DEF Reserve
      <4> QED BY <2>1, <4>1 DEF Holding, TypeOK
    <3>2. CASE Client(r) \notin Metered
      BY <1>2, <2>1, <3>2, TakeSlotHolding DEF Reserve
    <3> QED BY <3>1, <3>2
  <2> QED BY <2>1, <2>2, ReservationAdded
<1>3. ASSUME NEW r \in Requests, ResumeBilling(r) PROVE ReservationsExact'
  <2>1. CASE Billed(r)
    <3>1. UNCHANGED <<admitted, byTenant>> /\ stage[r] = "billing"
      BY <1>3, <2>1 DEF ResumeBilling
    <3>2. CASE r \in Direct
      <4>1. stage' = [stage EXCEPT ![r] = "serving"]
        BY <1>3, <2>1, <3>2 DEF ResumeBilling
      <4>2. Holding' = Holding
        BY <3>2, <4>1 DEF Holding, TypeOK
      <4> QED BY <3>1, <4>2, ReservationsUnchanged
    <3>3. CASE r \notin Direct
      <4>1. Holding' = Holding \cup {r}
        BY <1>3, <2>1, <3>3, TakeSlotHolding DEF ResumeBilling
      <4>2. r \in Holding
        BY <3>1, <3>3 DEF Holding
      <4>3. Holding' = Holding
        BY <4>1, <4>2
      <4> QED BY <3>1, <4>3, ReservationsUnchanged
    <3> QED BY <3>2, <3>3
  <2>2. CASE ~ Billed(r)
    <3>1. stage[r] = "billing" /\ stage' = [stage EXCEPT ![r] = "done"] /\ Release(r)
      BY <1>3, <2>2 DEF ResumeBilling
    <3>2. Holding' = Holding \ {r}
      BY <3>1 DEF Holding, TypeOK
    <3> QED BY <3>1, <3>2, ReleaseHolding
  <2> QED BY <2>1, <2>2
<1>4. ASSUME NEW r \in Requests, Start(r) PROVE ReservationsExact'
  <2>1. PICK G \in SUBSET Queued : Move(r, "grading", G)
    BY <1>4 DEF Start
  <2>2. stage[r] = "granted" /\ UNCHANGED <<admitted, byTenant>>
    BY <1>4 DEF Start
  <2>3. Holding' = Holding
    BY <2>1, <2>2, MoveHolding DEF Stages
  <2> QED BY <2>2, <2>3, ReservationsUnchanged
<1>5. ASSUME NEW r \in Requests, NEW why \in {"late", "cancelled"}, Abandon(r, why)
      PROVE ReservationsExact'
  <2>1. Holding' = Holding /\ UNCHANGED <<admitted, byTenant>>
    BY <1>5 DEF Abandon, Holding, TypeOK
  <2> QED BY <2>1, ReservationsUnchanged
<1>6. ASSUME NEW r \in Requests, Leave(r) \/ Finish(r) PROVE ReservationsExact'
  <2>1. PICK G \in SUBSET Queued : Move(r, "done", G)
    BY <1>6 DEF Leave, Finish
  <2>2. stage[r] \in {"leaving", "returning", "grading"} /\ Release(r)
    BY <1>6 DEF Leave, Finish
  <2>3. Holding' = Holding \ {r}
    BY <2>1, <2>2, MoveHolding DEF Stages
  <2> QED BY <2>2, <2>3, ReleaseHolding
<1>7. ASSUME NEW r \in Requests, Cancel(r) PROVE ReservationsExact'
  <2>1. CASE Abandon(r, "cancelled")
    BY <1>5, <2>1
  <2>2. CASE ~ Abandon(r, "cancelled")
    <3>1. UNCHANGED <<admitted, byTenant>>
      BY <1>7, <2>2 DEF Cancel, loopVars
    <3>2. Holding' = Holding
      BY <1>7, <2>2 DEF Cancel, Holding, TypeOK
    <3> QED BY <3>1, <3>2, ReservationsUnchanged
  <2> QED BY <2>1, <2>2
<1>8. CASE RollOver \/ UNCHANGED vars
  <2>1. Holding' = Holding /\ UNCHANGED <<admitted, byTenant>>
    BY <1>8 DEF RollOver, vars, loopVars, Holding
  <2> QED BY <2>1, ReservationsUnchanged
<1> QED BY <1>1, <1>2, <1>3, <1>4, <1>5, <1>6, <1>7, <1>8 DEF Next

\* The reservation set and the tenants' counters are exactly the requests that
\* hold a reservation, one per key and within every limit, whatever the
\* requests, keys and limits are.
THEOREM ReservationsSafe == Spec => []ReservationsExact
<1>1. TypeOK /\ ReservationsExact /\ [Next]_vars => (TypeOK /\ ReservationsExact)'
  BY TypeStep, ReservationsStep
<1> QED BY <1>1, TypeInit, ReservationsInit, PTL DEF Spec

-----------------------------------------------------------------------------
(***************************************************************************)
(* No idle slot.  NoIdleSlot is inductive with the types: a step that      *)
(* passes permits on either grants one, and the granted waiter runs next,  *)
(* or leaves no permit or no waiter.                                       *)
(***************************************************************************)

Passing == {r \in Requests : stage[r] \in {"granted", "returning"}}

LEMMA IdleKept ==
  ASSUME NoIdleSlot, permits' = permits, Queued' \subseteq Queued,
         \A o \in Passing : o \in Passing'
  PROVE  NoIdleSlot'
BY DEF NoIdleSlot, Passing, Queued

LEMMA TakeSlotIdle ==
  ASSUME TypeOK, NoIdleSlot, NEW r \in Requests, stage[r] \in {"checking", "billing"}, TakeSlot(r)
  PROVE  NoIdleSlot'
<1>1. CASE Locked
  <2>1. /\ stage' = [stage EXCEPT ![r] = "queued"] /\ permits' = permits
        /\ Queued' = Queued \cup {r} /\ Passing' = Passing
    BY <1>1 DEF TakeSlot, TypeOK, Queued, Passing
  <2>2. permits > 0 => Passing # {}
    BY <1>1 DEF Locked, NoIdleSlot, Passing, Queued, TypeOK
  <2> QED BY <2>1, <2>2 DEF NoIdleSlot, Passing
<1>2. CASE ~ Locked
  <2>1. Queued' = {}
    BY <1>2 DEF Locked, TakeSlot, TypeOK, Queued
  <2> QED BY <2>1 DEF NoIdleSlot
<1> QED BY <1>1, <1>2

\* n permits are passed on; what is left stays in permits.
LEMMA PassOn ==
  ASSUME TypeOK, NEW r \in Requests, stage[r] # "queued", NEW s \in {"grading", "done"},
         NEW n \in Int, NEW G \in SUBSET Queued, FirstWaiters(G, n), Move(r, s, G),
         permits' > 0 => permits' = n - Cardinality(G) \/ n > 0
  PROVE  NoIdleSlot'
<1>1. CASE G # {}
  <2>1. PICK g \in G : TRUE
    BY <1>1
  <2>2. g \in Requests /\ g # r
    BY <2>1 DEF Queued
  <2>3. stage'[g] = "granted"
    BY <2>1, <2>2 DEF Move
  <2> QED BY <2>2, <2>3 DEF NoIdleSlot
<1>2. CASE G = {}
  <2>1. IsFiniteSet(Queued) /\ Cardinality(Queued) \in Nat /\ Cardinality(G) = 0
    BY <1>2, AdmissionAssumption, FS_Subset, FS_CardinalityType, FS_EmptySet DEF Queued
  <2>2. n = 0 \/ Cardinality(Queued) = 0
    BY <2>1 DEF FirstWaiters
  <2>3. CASE Cardinality(Queued) = 0
    <3>1. Queued = {}
      BY <2>1, <2>3, FS_EmptySet
    <3>2. Queued' = {}
      BY <1>2, <3>1 DEF Move, Queued, TypeOK
    <3> QED BY <3>2 DEF NoIdleSlot
  <2>4. CASE n = 0
    <3>1. ~ (permits' > 0)
      BY <2>1, <2>4
    <3> QED BY <3>1 DEF NoIdleSlot
  <2> QED BY <2>2, <2>3, <2>4
<1> QED BY <1>1, <1>2

LEMMA IdleInit == Init => NoIdleSlot
BY DEF Init, NoIdleSlot, Queued

LEMMA IdleStep == TypeOK /\ NoIdleSlot /\ [Next]_vars => NoIdleSlot'
<1> SUFFICES ASSUME TypeOK, NoIdleSlot, [Next]_vars PROVE NoIdleSlot'
  OBVIOUS
<1>1. ASSUME NEW r \in Requests,
             \/ Refuse(r) \/ TurnAway(r) \/ Enter(r) \/ FinishDirect(r)
             \/ Count(r) \/ Exceed(r) \/ StorageFails(r)
      PROVE NoIdleSlot'
  <2>1. permits' = permits
    BY <1>1 DEF Refuse, TurnAway, Enter, FinishDirect, Count, Exceed, StorageFails, loopVars
  <2>2. CASE Count(r) \/ Exceed(r) \/ StorageFails(r)
    <3>1. stage' = stage
      BY <2>2 DEF Count, Exceed, StorageFails
    <3> QED BY <2>1, <3>1, IdleKept DEF Queued, Passing
  <2>3. CASE Refuse(r) \/ TurnAway(r) \/ Enter(r) \/ FinishDirect(r)
    <3>1. /\ stage[r] \in {"checking", "serving"}
          /\ \/ stage' = [stage EXCEPT ![r] = "billing"]
             \/ stage' = [stage EXCEPT ![r] = "serving"]
             \/ stage' = [stage EXCEPT ![r] = "done"]
      BY <2>3 DEF Refuse, TurnAway, Enter, FinishDirect
    <3>2. Queued' = Queued /\ Passing' = Passing
      BY <3>1 DEF Queued, Passing, TypeOK
    <3> QED BY <2>1, <3>2, IdleKept
  <2> QED BY <1>1, <2>2, <2>3
<1>2. ASSUME NEW r \in Requests, Reserve(r) PROVE NoIdleSlot'
  <2>1. CASE Client(r) \in Metered
    <3>1. Queued' = Queued /\ Passing' = Passing /\ permits' = permits
      BY <1>2, <2>1 DEF Reserve, Queued, Passing, TypeOK
    <3> QED BY <3>1, IdleKept
  <2>2. CASE Client(r) \notin Metered
    BY <1>2, <2>2, TakeSlotIdle DEF Reserve
  <2> QED BY <2>1, <2>2
<1>3. ASSUME NEW r \in Requests, ResumeBilling(r) PROVE NoIdleSlot'
  <2>1. CASE Billed(r) /\ r \notin Direct
    BY <1>3, <2>1, TakeSlotIdle DEF ResumeBilling
  <2>2. CASE ~ (Billed(r) /\ r \notin Direct)
    <3>1. /\ stage[r] = "billing" /\ permits' = permits
          /\ \/ stage' = [stage EXCEPT ![r] = "serving"]
             \/ stage' = [stage EXCEPT ![r] = "done"]
      BY <1>3, <2>2 DEF ResumeBilling
    <3>2. Queued' = Queued /\ Passing' = Passing
      BY <3>1 DEF Queued, Passing, TypeOK
    <3> QED BY <3>1, <3>2, IdleKept
  <2> QED BY <2>1, <2>2
<1>4. ASSUME NEW r \in Requests, Start(r) PROVE NoIdleSlot'
  <2>1. PICK G \in SUBSET Queued :
           /\ FirstWaiters(G, permits)
           /\ Move(r, "grading", G)
           /\ permits' = permits - Cardinality(G)
    BY <1>4 DEF Start
  <2>2. stage[r] # "queued" /\ permits \in Int
    BY <1>4 DEF Start, TypeOK
  <2> QED BY <2>1, <2>2, PassOn
<1>5. ASSUME NEW r \in Requests, NEW why \in {"late", "cancelled"}, Abandon(r, why)
      PROVE NoIdleSlot'
  <2>1. permits' = permits /\ Queued' \subseteq Queued /\ Passing \subseteq Passing'
    BY <1>5 DEF Abandon, Queued, Passing, TypeOK
  <2> QED BY <2>1, IdleKept
<1>6. ASSUME NEW r \in Requests, Leave(r) PROVE NoIdleSlot'
  <2> DEFINE left == permits + (IF stage[r] = "returning" THEN 1 ELSE 0)
  <2>1. PICK G \in SUBSET Queued :
           /\ FirstWaiters(G, left)
           /\ Move(r, "done", G)
           /\ permits' = left - Cardinality(G)
    BY <1>6 DEF Leave
  <2>2. left \in Int /\ stage[r] # "queued"
    BY <1>6 DEF Leave, TypeOK
  <2> HIDE DEF left
  <2> QED BY <2>1, <2>2, PassOn
<1>7. ASSUME NEW r \in Requests, Finish(r) PROVE NoIdleSlot'
  <2>1. PICK G \in SUBSET Queued : FirstWaiters(G, 1) /\ Move(r, "done", G)
    BY <1>7 DEF Finish
  <2>2. stage[r] # "queued"
    BY <1>7 DEF Finish
  <2> QED BY <2>1, <2>2, PassOn
<1>8. ASSUME NEW r \in Requests, Cancel(r) PROVE NoIdleSlot'
  <2>1. CASE Abandon(r, "cancelled")
    BY <1>5, <2>1
  <2>2. CASE ~ Abandon(r, "cancelled")
    <3>1. permits' = permits /\ Queued' = Queued /\ Passing' = Passing
      BY <1>8, <2>2 DEF Cancel, loopVars, Queued, Passing, TypeOK
    <3> QED BY <3>1, IdleKept
  <2> QED BY <2>1, <2>2
<1>9. CASE RollOver \/ UNCHANGED vars
  <2>1. permits' = permits /\ Queued' = Queued /\ Passing' = Passing
    BY <1>9 DEF RollOver, vars, loopVars, Queued, Passing
  <2> QED BY <2>1, IdleKept
<1> QED BY <1>1, <1>2, <1>3, <1>4, <1>5, <1>6, <1>7, <1>8, <1>9 DEF Next

\* While a request waits for a slot of acquire_active_slot no permit lies idle: it was
\* given to a waiter that has yet to run, for any number of requests and slots.
THEOREM SlotsKeepBusy == Spec => []NoIdleSlot
<1>1. TypeOK /\ NoIdleSlot /\ [Next]_vars => (TypeOK /\ NoIdleSlot)'
  BY TypeStep, IdleStep
<1> QED BY <1>1, TypeInit, IdleInit, PTL DEF Spec

-----------------------------------------------------------------------------
(***************************************************************************)
(* The quota.  QuotaExact needs how far each request is with its unit:     *)
(* none is charged before its thread ran, and what the thread answered     *)
(* says whether one was.                                                   *)
(***************************************************************************)

Counted(t, p) == {r \in Requests : charged[r] /\ period[r] = p /\ Client(r) = t}

UnitInv(r) ==
  /\ stage[r] = "checking" => verdict[r] = "none"
  /\ stage[r] \in {"checking", "billing"} => outcome[r] = "none"
  /\ verdict[r] = "none" => ~ charged[r]
  /\ verdict[r] = "counted" => charged[r]
  /\ verdict[r] = "exceeded" => ~ charged[r]
  /\ (Client(r) \in Metered
        /\ stage[r] \in {"queued", "granted", "grading", "serving"}) => charged[r]
  /\ outcome[r] \in {"invalid", "duplicate", "full", "exceeded"} => ~ charged[r]

CountersExact ==
  \A t \in Tenants, p \in Periods : used[t][p] = Cardinality(Counted(t, p))

QInv == CountersExact /\ \A r \in Requests : UnitInv(r)

LEMMA QuotaFromUnits == TypeOK /\ QInv => QuotaExact
<1> SUFFICES ASSUME TypeOK, QInv PROVE QuotaExact
  OBVIOUS
<1>1. \A t \in Tenants, p \in Periods :
        used[t][p] = Cardinality(Counted(t, p)) /\ used[t][p] <= Limit
  BY AdmissionAssumption DEF QInv, CountersExact, TypeOK
<1> QED BY <1>1 DEF QInv, UnitInv, QuotaExact, Counted

LEMMA CountersKept ==
  ASSUME CountersExact, used' = used, \A t \in Tenants, p \in Periods : Counted(t, p)' = Counted(t, p)
  PROVE  CountersExact'
BY DEF CountersExact

\* A request that was not charged can note its period without being counted.
LEMMA PeriodNoted ==
  ASSUME TypeOK, CountersExact, NEW r \in Requests, ~ charged[r], NEW d,
         period' = [period EXCEPT ![r] = d] \/ period' = period, UNCHANGED <<charged, used>>
  PROVE  CountersExact'
<1>1. \A t \in Tenants, p \in Periods : Counted(t, p)' = Counted(t, p)
  BY DEF Counted, TypeOK
<1> QED BY <1>1, CountersKept

\* The unit of one request.
LEMMA UnitCounted ==
  ASSUME TypeOK, CountersExact, NEW r \in Requests, ~ charged[r], period' = period,
         charged' = [charged EXCEPT ![r] = TRUE],
         used' = [used EXCEPT ![Client(r)][period[r]] = @ + 1]
  PROVE  CountersExact'
<1>0. Client(r) \in Tenants /\ period[r] \in Periods
  BY AdmissionAssumption DEF Client, TypeOK
<1> SUFFICES ASSUME NEW t \in Tenants, NEW p \in Periods
             PROVE  used'[t][p] = Cardinality(Counted(t, p)')
  BY DEF CountersExact
<1>1. IsFiniteSet(Counted(t, p)) /\ Cardinality(Counted(t, p)) \in Nat
  <2>1. Counted(t, p) \in SUBSET Requests
    BY DEF Counted
  <2>2. IsFiniteSet(Counted(t, p))
    BY <2>1, AdmissionAssumption, FS_Subset
  <2> QED BY <2>2, FS_CardinalityType
<1>2. used[t][p] = Cardinality(Counted(t, p))
  BY DEF CountersExact
<1>3. CASE t = Client(r) /\ p = period[r]
  <2>1. Counted(t, p)' = Counted(t, p) \cup {r} /\ r \notin Counted(t, p)
    BY <1>3 DEF Counted, TypeOK
  <2>2. Cardinality(Counted(t, p) \cup {r}) = Cardinality(Counted(t, p)) + 1
    BY <1>1, <2>1, FS_AddElement
  <2>3. used'[t][p] = used[t][p] + 1
    BY <1>0, <1>3 DEF TypeOK
  <2> QED BY <1>2, <2>1, <2>2, <2>3
<1>4. CASE ~ (t = Client(r) /\ p = period[r])
  <2>1. Counted(t, p)' = Counted(t, p)
    BY <1>4 DEF Counted, TypeOK
  <2>2. used'[t][p] = used[t][p]
    BY <1>0, <1>4 DEF TypeOK
  <2> QED BY <1>2, <2>1, <2>2
<1> QED BY <1>3, <1>4

LEMMA QuotaInit == Init => QInv
<1> SUFFICES ASSUME Init PROVE QInv
  OBVIOUS
<1>1. \A t \in Tenants, p \in Periods : Counted(t, p) = {} /\ used[t][p] = 0
  BY DEF Init, Counted
<1>2. CountersExact
  BY <1>1, FS_EmptySet DEF CountersExact
<1>3. \A r \in Requests : UnitInv(r)
  BY DEF Init, UnitInv
<1> QED BY <1>2, <1>3 DEF QInv

\* Where a move leaves the requests it wakes.
LEMMA MoveUnits ==
  ASSUME TypeOK, \A o \in Requests : UnitInv(o), NEW r \in Requests, NEW s \in {"grading", "done"},
         NEW G \in SUBSET Queued, Move(r, s, G), s = "grading" => stage[r] = "granted",
         UNCHANGED quotaVars,
         \A o \in Requests : outcome'[o] = outcome[o] \/ (o = r /\ outcome'[o] \in {"answered", "cancelled"})
  PROVE  \A o \in Requests : UnitInv(o)'
<1> SUFFICES ASSUME NEW o \in Requests PROVE UnitInv(o)'
  OBVIOUS
<1>1. UnitInv(o) /\ verdict'[o] = verdict[o] /\ charged'[o] = charged[o]
  BY DEF quotaVars
<1>2. CASE o = r
  <2>1. stage'[o] = s
    BY <1>2 DEF Move
  <2> QED BY <1>1, <1>2, <2>1 DEF UnitInv
<1>3. CASE o # r
  <2>1. stage'[o] = stage[o] \/ (stage[o] = "queued" /\ stage'[o] = "granted")
    BY <1>3 DEF Move, Queued
  <2> QED BY <1>1, <1>3, <2>1 DEF UnitInv
<1> QED BY <1>2, <1>3

LEMMA UnitElsewhere ==
  ASSUME NEW o, UnitInv(o), stage'[o] = stage[o], outcome'[o] = outcome[o],
         verdict'[o] = verdict[o], charged'[o] = charged[o]
  PROVE  UnitInv(o)'
BY DEF UnitInv

LEMMA QuotaStep == TypeOK /\ QInv /\ [Next]_vars => QInv'
<1> SUFFICES ASSUME TypeOK, QInv, [Next]_vars PROVE QInv'
  OBVIOUS
<1>u. \A r \in Requests : UnitInv(r)
  BY DEF QInv
<1>c. UNCHANGED <<charged, used, period>> => CountersExact'
  BY CountersKept DEF QInv, Counted
<1>q. UNCHANGED quotaVars => CountersExact'
  BY <1>c DEF quotaVars
<1>o. ASSUME NEW r \in Requests, CountersExact', UnitInv(r)',
             \A o \in Requests \ {r} : /\ stage'[o] = stage[o] /\ outcome'[o] = outcome[o]
                                       /\ verdict'[o] = verdict[o] /\ charged'[o] = charged[o]
      PROVE  QInv'
  <2>1. \A o \in Requests \ {r} : UnitInv(o)'
    BY <1>o, <1>u, UnitElsewhere
  <2> QED BY <1>o, <2>1 DEF QInv
<1>1. ASSUME NEW r \in Requests, Refuse(r) \/ TurnAway(r) PROVE QInv'
  <2>1. /\ stage[r] = "checking" /\ stage' = [stage EXCEPT ![r] = "done"]
        /\ UNCHANGED quotaVars /\ \E why : outcome' = [outcome EXCEPT ![r] = why]
    BY <1>1 DEF Refuse, TurnAway, End
  <2>2. UnitInv(r)'
    BY <1>u, <2>1 DEF UnitInv, TypeOK, quotaVars
  <2> QED BY <1>o, <1>q, <2>1, <2>2 DEF TypeOK, quotaVars
<1>2. ASSUME NEW r \in Requests, Reserve(r) PROVE QInv'
  <2>1. /\ stage[r] = "checking" /\ UNCHANGED <<outcome, verdict, charged, used>>
        /\ period' = [period EXCEPT ![r] = today] \/ period' = period
    BY <1>2 DEF Reserve
  <2>2. /\ Client(r) \in Metered => stage' = [stage EXCEPT ![r] = "billing"]
        /\ \/ stage' = [stage EXCEPT ![r] = "billing"]
           \/ stage' = [stage EXCEPT ![r] = "queued"]
           \/ stage' = [stage EXCEPT ![r] = "grading"]
    BY <1>2 DEF Reserve, TakeSlot
  <2>3. verdict[r] = "none" /\ ~ charged[r] /\ outcome[r] = "none"
    BY <1>u, <2>1 DEF UnitInv
  <2>4. CountersExact'
    BY <2>1, <2>3, PeriodNoted DEF QInv
  <2>5. UnitInv(r)'
    BY <2>1, <2>2, <2>3 DEF UnitInv, TypeOK
  <2> QED BY <1>o, <2>1, <2>2, <2>4, <2>5 DEF TypeOK
<1>3. ASSUME NEW r \in Requests, Enter(r) PROVE QInv'
  <2>1. /\ stage[r] = "checking" /\ UNCHANGED <<outcome, verdict, charged, used>>
        /\ period' = [period EXCEPT ![r] = today] \/ period' = period
        /\ Client(r) \in Metered => stage' = [stage EXCEPT ![r] = "billing"]
        /\ \/ stage' = [stage EXCEPT ![r] = "billing"]
           \/ stage' = [stage EXCEPT ![r] = "serving"]
    BY <1>3 DEF Enter
  <2>2. verdict[r] = "none" /\ ~ charged[r] /\ outcome[r] = "none"
    BY <1>u, <2>1 DEF UnitInv
  <2>3. CountersExact'
    BY <2>1, <2>2, PeriodNoted DEF QInv
  <2>4. UnitInv(r)'
    BY <2>1, <2>2 DEF UnitInv, TypeOK
  <2> QED BY <1>o, <2>1, <2>3, <2>4 DEF TypeOK
<1>4. ASSUME NEW r \in Requests, Count(r) \/ Exceed(r) \/ StorageFails(r) PROVE QInv'
  <2>1. /\ stage[r] = "billing" /\ verdict[r] = "none" /\ UNCHANGED <<stage, outcome, period>>
        /\ \E v \in {"counted", "exceeded", "unavailable"} : verdict' = [verdict EXCEPT ![r] = v]
        /\ \/ /\ UNCHANGED <<charged, used>> /\ verdict' # [verdict EXCEPT ![r] = "counted"]
           \/ /\ charged' = [charged EXCEPT ![r] = TRUE]
              /\ used' = [used EXCEPT ![Client(r)][period[r]] = @ + 1]
              /\ verdict' # [verdict EXCEPT ![r] = "exceeded"]
    <3>1. /\ [verdict EXCEPT ![r] = "counted"][r] = "counted"
          /\ [verdict EXCEPT ![r] = "exceeded"][r] = "exceeded"
          /\ [verdict EXCEPT ![r] = "unavailable"][r] = "unavailable"
      BY DEF TypeOK
    <3>2. CASE Count(r)
      BY <3>1, <3>2 DEF Count
    <3>3. CASE Exceed(r)
      BY <3>1, <3>3 DEF Exceed
    <3>4. CASE StorageFails(r)
      BY <3>1, <3>4 DEF StorageFails
    <3> QED BY <1>4, <3>2, <3>3, <3>4
  <2>2. ~ charged[r] /\ outcome[r] = "none"
    BY <1>u, <2>1 DEF UnitInv
  <2>3. CountersExact'
    BY <1>c, <2>1, <2>2, UnitCounted DEF QInv
  <2>4. UnitInv(r)'
    BY <2>1, <2>2 DEF UnitInv, TypeOK
  <2> QED BY <1>o, <2>1, <2>3, <2>4 DEF TypeOK
<1>5. ASSUME NEW r \in Requests, ResumeBilling(r) PROVE QInv'
  <2>1. stage[r] = "billing" /\ UNCHANGED quotaVars
    BY <1>5 DEF ResumeBilling
  <2>2. CASE Billed(r)
    <3>1. /\ outcome' = outcome
          /\ \/ stage' = [stage EXCEPT ![r] = "serving"]
             \/ stage' = [stage EXCEPT ![r] = "queued"]
             \/ stage' = [stage EXCEPT ![r] = "grading"]
      BY <1>5, <2>2 DEF ResumeBilling, TakeSlot
    <3>2. charged[r] /\ outcome[r] = "none"
      BY <1>u, <2>1, <2>2 DEF UnitInv, Billed
    <3>3. UnitInv(r)'
      BY <1>u, <2>1, <3>1, <3>2 DEF UnitInv, TypeOK, quotaVars
    <3> QED BY <1>o, <1>q, <2>1, <3>1, <3>3 DEF TypeOK, quotaVars
  <2>3. CASE ~ Billed(r)
    <3>1. /\ stage' = [stage EXCEPT ![r] = "done"]
          /\ outcome' = [outcome EXCEPT ![r] = IF cancelled[r] THEN "cancelled" ELSE verdict[r]]
      BY <1>5, <2>3 DEF ResumeBilling, End
    <3>2. outcome'[r] = "cancelled" \/ (outcome'[r] = verdict[r] /\ verdict[r] # "counted")
      BY <2>3, <3>1 DEF Billed, TypeOK
    <3>3. UnitInv(r)'
      BY <1>u, <2>1, <3>1, <3>2 DEF UnitInv, TypeOK, quotaVars
    <3> QED BY <1>o, <1>q, <2>1, <3>1, <3>3 DEF TypeOK, quotaVars
  <2> QED BY <2>2, <2>3
<1>6. ASSUME NEW r \in Requests, Start(r) PROVE QInv'
  <2>1. PICK G \in SUBSET Queued : Move(r, "grading", G)
    BY <1>6 DEF Start
  <2>2. stage[r] = "granted" /\ UNCHANGED <<outcome, quotaVars>>
    BY <1>6 DEF Start
  <2> QED BY <1>q, <1>u, <2>1, <2>2, MoveUnits DEF QInv
<1>7. ASSUME NEW r \in Requests, Leave(r) \/ Finish(r) PROVE QInv'
  <2>1. PICK G \in SUBSET Queued : Move(r, "done", G)
    BY <1>7 DEF Leave, Finish
  <2>2. UNCHANGED quotaVars
    BY <1>7 DEF Leave, Finish
  <2>3. \A o \in Requests :
          outcome'[o] = outcome[o] \/ (o = r /\ outcome'[o] \in {"answered", "cancelled"})
    BY <1>7 DEF Leave, Finish, End, TypeOK
  <2> QED BY <1>q, <1>u, <2>1, <2>2, <2>3, MoveUnits DEF QInv
<1>8. ASSUME NEW r \in Requests, NEW why \in {"late", "cancelled"}, Abandon(r, why)
      PROVE QInv'
  <2>1. /\ stage[r] \in {"queued", "granted"} /\ UNCHANGED quotaVars
        /\ \/ stage' = [stage EXCEPT ![r] = "leaving"]
           \/ stage' = [stage EXCEPT ![r] = "returning"]
        /\ outcome' = [outcome EXCEPT ![r] = why]
    BY <1>8 DEF Abandon, End
  <2>2. UnitInv(r)'
    BY <1>u, <2>1 DEF UnitInv, TypeOK, quotaVars
  <2> QED BY <1>o, <1>q, <2>1, <2>2 DEF TypeOK, quotaVars
<1>9. ASSUME NEW r \in Requests, FinishDirect(r) PROVE QInv'
  <2>1. /\ stage' = [stage EXCEPT ![r] = "done"] /\ UNCHANGED quotaVars
        /\ \E why \in {"cancelled", "answered"} : outcome' = [outcome EXCEPT ![r] = why]
    BY <1>9 DEF FinishDirect, End
  <2>2. UnitInv(r)'
    BY <1>u, <2>1 DEF UnitInv, TypeOK, quotaVars
  <2> QED BY <1>o, <1>q, <2>1, <2>2 DEF TypeOK, quotaVars
<1>10. ASSUME NEW r \in Requests, Cancel(r) PROVE QInv'
  <2>1. CASE Abandon(r, "cancelled")
    BY <1>8, <2>1
  <2>2. CASE /\ stage[r] = "checking" /\ stage' = [stage EXCEPT ![r] = "done"]
             /\ End(r, "cancelled") /\ UNCHANGED quotaVars
    <3>1. UnitInv(r)'
      BY <1>u, <2>2 DEF UnitInv, TypeOK, quotaVars, End
    <3> QED BY <1>o, <1>q, <2>2, <3>1 DEF TypeOK, quotaVars, End
  <2>3. CASE UNCHANGED <<stage, outcome, quotaVars>>
    BY <1>q, <1>u, <2>3, UnitElsewhere DEF QInv, quotaVars
  <2> QED BY <1>10, <2>1, <2>2, <2>3 DEF Cancel
<1>11. CASE RollOver \/ UNCHANGED vars
  <2>1. UNCHANGED <<stage, outcome, verdict, charged, used, period>>
    BY <1>11 DEF RollOver, vars, quotaVars
  <2> QED BY <1>c, <1>u, <2>1, UnitElsewhere DEF QInv
<1> QED BY <1>1, <1>2, <1>3, <1>4, <1>5, <1>6, <1>7, <1>8, <1>9, <1>10, <1>11 DEF Next

\* The counter of consume_evaluation_request is the number of units its requests were
\* charged and within the limit, and who evaluates was charged, for any requests,
\* tenants, limits and roll-overs.
THEOREM QuotaSafe == Spec => []QuotaExact
<1>1. TypeOK /\ QInv /\ [Next]_vars => (TypeOK /\ QInv)'
  BY TypeStep, QuotaStep
<1> QED BY <1>1, TypeInit, QuotaInit, QuotaFromUnits, PTL DEF Spec

-----------------------------------------------------------------------------
(***************************************************************************)
(* The contract.  Every step of the admission is a step of                 *)
(* AdmissionContract or a stutter.  The counters it looks at are exact by  *)
(* the invariants above; what is added is that an answer is true when it   *)
(* is given: the units were used up when the thread said so, and still     *)
(* are, and who leaves the wait was late or cancelled.                     *)
(***************************************************************************)

ReasonInv(r) ==
  /\ verdict[r] = "exceeded" => used[Client(r)][period[r]] >= Limit
  /\ stage[r] \in {"leaving", "returning"} => outcome[r] \in {"late", "cancelled"}

CInv == /\ TypeOK /\ SlotsAccounted /\ ReservationsExact /\ QInv
        /\ \A r \in Requests : ReasonInv(r)

LEMMA ReasonElsewhere ==
  ASSUME TypeOK, NEW o \in Requests, ReasonInv(o),
         verdict'[o] = verdict[o], period'[o] = period[o],
         used'[Client(o)][period[o]] >= used[Client(o)][period[o]],
         used'[Client(o)][period[o]] \in Int,
         stage'[o] \in {"leaving", "returning"} =>
           \/ outcome'[o] \in {"late", "cancelled"}
           \/ stage[o] = stage'[o] /\ outcome'[o] = outcome[o]
  PROVE  ReasonInv(o)'
<1>1. Client(o)' = Client(o) /\ Client(o) \in Tenants /\ period[o] \in Periods
  BY AdmissionAssumption DEF Client, TypeOK
<1>2. used[Client(o)][period[o]] \in Int
  BY <1>1, AdmissionAssumption DEF TypeOK
<1> QED BY <1>1, <1>2, AdmissionAssumption DEF ReasonInv

\* The counters only grow.
LEMMA CountersGrow ==
  ASSUME TypeOK, TypeOK', [Next]_vars, NEW t \in Tenants, NEW p \in Periods
  PROVE  used'[t][p] >= used[t][p] /\ used'[t][p] \in Int
<1>1. used[t][p] \in Int /\ used'[t][p] \in Int
  BY AdmissionAssumption DEF TypeOK
<1>2. \/ used' = used
      \/ \E r \in Requests : used' = [used EXCEPT ![Client(r)][period[r]] = @ + 1]
  BY DEF Next, vars, loopVars, quotaVars, Refuse, TurnAway, Reserve, Enter, Count, Exceed,
         StorageFails, ResumeBilling, Start, Abandon, Leave, Finish, FinishDirect, Cancel,
         RollOver
<1>3. ASSUME NEW r \in Requests, used' = [used EXCEPT ![Client(r)][period[r]] = @ + 1]
      PROVE used'[t][p] >= used[t][p]
  BY <1>1, <1>3, AdmissionAssumption DEF TypeOK
<1> QED BY <1>1, <1>2, <1>3

LEMMA ReasonStep ==
  ASSUME TypeOK, TypeOK', [Next]_vars, \A r \in Requests : ReasonInv(r), QInv
  PROVE  \A r \in Requests : ReasonInv(r)'
<1> SUFFICES ASSUME NEW o \in Requests PROVE ReasonInv(o)'
  OBVIOUS
<1>c. Client(o)' = Client(o) /\ Client(o) \in Tenants /\ period[o] \in Periods
  BY AdmissionAssumption DEF Client, TypeOK
<1>g. used'[Client(o)][period[o]] >= used[Client(o)][period[o]] /\ used'[Client(o)][period[o]] \in Int
  BY <1>c, CountersGrow
<1>k. ASSUME verdict'[o] = verdict[o], period'[o] = period[o],
             stage'[o] \in {"leaving", "returning"} =>
               \/ outcome'[o] \in {"late", "cancelled"}
               \/ stage[o] = stage'[o] /\ outcome'[o] = outcome[o]
      PROVE  ReasonInv(o)'
  BY <1>g, <1>k, ReasonElsewhere
<1>1. ASSUME NEW r \in Requests, Refuse(r) \/ TurnAway(r) \/ FinishDirect(r)
      PROVE ReasonInv(o)'
  <2>1. /\ stage' = [stage EXCEPT ![r] = "done"] /\ UNCHANGED quotaVars
        /\ \E why : outcome' = [outcome EXCEPT ![r] = why]
    BY <1>1 DEF Refuse, TurnAway, FinishDirect, End
  <2> QED BY <1>k, <2>1 DEF TypeOK, quotaVars
<1>2. ASSUME NEW r \in Requests, Reserve(r) \/ Enter(r) PROVE ReasonInv(o)'
  <2>1. /\ stage[r] = "checking" /\ UNCHANGED <<outcome, verdict>>
        /\ period' = [period EXCEPT ![r] = today] \/ period' = period
        /\ \E s \in {"billing", "queued", "grading", "serving"} : stage' = [stage EXCEPT ![r] = s]
    BY <1>2 DEF Reserve, Enter, TakeSlot
  <2>2. CASE o = r
    <3>1. verdict[o] = "none" /\ stage'[o] \notin {"leaving", "returning"}
      BY <2>1, <2>2 DEF QInv, UnitInv, TypeOK
    <3> QED BY <2>1, <3>1 DEF ReasonInv
  <2>3. CASE o # r
    BY <1>k, <2>1, <2>3 DEF TypeOK
  <2> QED BY <2>2, <2>3
<1>3. ASSUME NEW r \in Requests, Count(r) \/ Exceed(r) \/ StorageFails(r) PROVE ReasonInv(o)'
  <2>1. UNCHANGED <<stage, outcome, period>> /\ stage[r] = "billing"
    BY <1>3 DEF Count, Exceed, StorageFails
  <2>2. CASE o # r
    <3>1. verdict'[o] = verdict[o]
      BY <1>3, <2>2 DEF Count, Exceed, StorageFails, TypeOK
    <3> QED BY <1>k, <2>1, <3>1
  <2>3. CASE o = r /\ Exceed(r)
    <3>1. used'[Client(o)][period'[o]] >= Limit
      BY <2>3 DEF Exceed
    <3> QED BY <1>c, <2>1, <2>3, <3>1 DEF ReasonInv
  <2>4. CASE o = r /\ (Count(r) \/ StorageFails(r))
    <3>1. verdict'[o] \in {"counted", "unavailable"}
      BY <2>4 DEF Count, StorageFails, TypeOK
    <3> QED BY <2>1, <2>4, <3>1 DEF ReasonInv
  <2> QED BY <1>3, <2>2, <2>3, <2>4
<1>4. ASSUME NEW r \in Requests, ResumeBilling(r) PROVE ReasonInv(o)'
  <2>1. /\ UNCHANGED quotaVars
        /\ \E s \in {"queued", "grading", "serving", "done"} : stage' = [stage EXCEPT ![r] = s]
        /\ \/ outcome' = outcome
           \/ \E why : outcome' = [outcome EXCEPT ![r] = why]
    BY <1>4 DEF ResumeBilling, TakeSlot, End
  <2> QED BY <1>k, <2>1 DEF TypeOK, quotaVars
<1>5. ASSUME NEW r \in Requests, Start(r) \/ Leave(r) \/ Finish(r) PROVE ReasonInv(o)'
  <2>1. PICK s \in {"grading", "done"}, G \in SUBSET Queued : Move(r, s, G)
    BY <1>5 DEF Start, Leave, Finish
  <2>2. /\ UNCHANGED quotaVars
        /\ \/ outcome' = outcome
           \/ \E why : outcome' = [outcome EXCEPT ![r] = why]
    BY <1>5 DEF Start, Leave, Finish, End
  <2>3. stage'[o] = s \/ stage'[o] = "granted" \/ (o # r /\ stage'[o] = stage[o])
    BY <2>1 DEF Move
  <2> QED BY <1>k, <2>2, <2>3 DEF TypeOK, quotaVars
<1>6. ASSUME NEW r \in Requests, NEW why \in {"late", "cancelled"}, Abandon(r, why)
      PROVE ReasonInv(o)'
  <2>1. /\ UNCHANGED quotaVars
        /\ outcome' = [outcome EXCEPT ![r] = why]
        /\ \A x \in Requests \ {r} : stage'[x] = stage[x]
    BY <1>6 DEF Abandon, End, TypeOK
  <2> QED BY <1>k, <2>1 DEF TypeOK, quotaVars
<1>7. ASSUME NEW r \in Requests, Cancel(r) PROVE ReasonInv(o)'
  <2>1. CASE Abandon(r, "cancelled")
    BY <1>6, <2>1
  <2>2. CASE ~ Abandon(r, "cancelled")
    <3>1. /\ UNCHANGED quotaVars
          /\ \/ stage' = [stage EXCEPT ![r] = "done"] /\ outcome' = [outcome EXCEPT ![r] = "cancelled"]
             \/ UNCHANGED <<stage, outcome>>
      BY <1>7, <2>2 DEF Cancel, End
    <3> QED BY <1>k, <3>1 DEF TypeOK, quotaVars
  <2> QED BY <2>1, <2>2
<1>8. CASE RollOver \/ UNCHANGED vars
  BY <1>k, <1>8 DEF RollOver, vars, quotaVars
<1> QED BY <1>1, <1>2, <1>3, <1>4, <1>5, <1>6, <1>7, <1>8 DEF Next

LEMMA CInvHolds == Spec => []CInv
<1>1. Init => CInv
  <2>1. Init => \A r \in Requests : ReasonInv(r)
    BY DEF Init, ReasonInv
  <2> QED BY <2>1, TypeInit, SlotsInit, ReservationsInit, QuotaInit DEF CInv
<1>2. CInv /\ [Next]_vars => CInv'
  <2> SUFFICES ASSUME CInv, [Next]_vars PROVE CInv'
    OBVIOUS
  <2>1. TypeOK' /\ SlotsAccounted' /\ ReservationsExact' /\ QInv'
    BY TypeStep, SlotsStep, ReservationsStep, QuotaStep DEF CInv
  <2>2. \A r \in Requests : ReasonInv(r)'
    BY <2>1, ReasonStep DEF CInv
  <2> QED BY <2>1, <2>2 DEF CInv
<1> QED BY <1>1, <1>2, PTL DEF Spec

\* What the contract speaks of, in the admission's own terms.
LEMMA ContractTerms ==
  ASSUME CInv
  PROVE  /\ Contract!Waiting = Queued
         /\ Contract!Inside = Holding
         /\ Contract!KeysInside = admitted
         /\ \A t \in Tenants : Cardinality(Contract!InsideOf(t)) = byTenant[t]
         /\ \A r \in Requests :
              Cardinality(Contract!Units(Client(r), period[r])) = used[Client(r)][period[r]]
         /\ Cardinality(Contract!Slotted) <= MaxConcurrency
<1>1. Contract!Waiting = Queued
  BY DEF CInv, TypeOK, Stages, Contract!Waiting, Queued, PlaceOf
<1>2. Contract!Inside = Holding
  BY DEF CInv, TypeOK, Stages, Contract!Inside, Holding, PlaceOf
<1>3. Contract!KeysInside = admitted
  BY <1>2 DEF CInv, ReservationsExact, Contract!KeysInside
<1>4. ASSUME NEW t \in Tenants PROVE Cardinality(Contract!InsideOf(t)) = byTenant[t]
  <2>1. Contract!InsideOf(t) = {r \in Holding : Client(r) = t}
    BY <1>2 DEF Contract!InsideOf, Contract!TenantOfRequest, Client
  <2> QED BY <2>1 DEF CInv, ReservationsExact
<1>5. ASSUME NEW r \in Requests
      PROVE Cardinality(Contract!Units(Client(r), period[r])) = used[Client(r)][period[r]]
  <2>1. Client(r) \in Tenants /\ period[r] \in Periods
    BY AdmissionAssumption DEF Client, CInv, TypeOK
  <2>2. Contract!Units(Client(r), period[r]) = Counted(Client(r), period[r])
    BY DEF Contract!Units, Contract!TenantOfRequest, Counted, Client
  <2> QED BY <2>1, <2>2 DEF CInv, QInv, CountersExact
<1>6. Cardinality(Contract!Slotted) <= MaxConcurrency
  <2>1. Contract!Slotted \subseteq Slotted
    BY DEF Contract!Slotted, Slotted, PlaceOf, CInv, TypeOK, Stages
  <2>2. Cardinality(Contract!Slotted) \in Nat /\ Cardinality(Contract!Slotted) <= Cardinality(Slotted)
    BY <2>1, SlottedFinite, FS_Subset, FS_CardinalityType
  <2> QED BY <2>2, SlottedFinite, AdmissionAssumption DEF CInv, SlotsAccounted, TypeOK
<1> QED BY <1>1, <1>2, <1>3, <1>4, <1>5, <1>6

LEMMA SameCardinality == \A S : Contract!Cardinality(S) = Cardinality(S)
BY Zenon DEF Contract!Cardinality, Cardinality

\* No step leaves more requests with a slot than there are slots.
LEMMA SlotsStillSuffice ==
  ASSUME CInv'
  PROVE  Contract!SlotsSuffice
<1>1. (CInv => Cardinality(Contract!Slotted) <= MaxConcurrency)'
  BY ContractTerms, PTL
<1> QED BY <1>1, SameCardinality DEF Contract!SlotsSuffice

LEMMA GoesFromStage ==
  ASSUME TypeOK, NEW r \in Requests, NEW s \in Stages, stage' = [stage EXCEPT ![r] = s]
  PROVE  Contract!Goes(r, PlaceOf(s), {})
BY DEF Contract!Goes, TypeOK

LEMMA GoesFromMove ==
  ASSUME TypeOK, NEW r \in Requests, NEW s \in Stages, NEW G \in SUBSET Queued, Move(r, s, G)
  PROVE  Contract!Goes(r, PlaceOf(s), G)
<1>1. PlaceOf("granted") = "called"
  BY DEF PlaceOf
<1> QED BY <1>1 DEF Contract!Goes, Move, TypeOK

\* The tickets of the semaphore are the order of the line.
LEMMA LineKept ==
  ASSUME TypeOK, TypeOK', Queued' \subseteq Queued, \A o \in Queued' : ticket'[o] = ticket[o]
  PROVE  Contract!Line
<1>1. \A r \in Requests : /\ PlaceOf(stage[r]) = "waiting" <=> stage[r] = "queued"
                          /\ PlaceOf(stage'[r]) = "waiting" <=> stage'[r] = "queued"
  BY DEF TypeOK, Stages, PlaceOf
<1>2. Contract!Waiting = Queued /\ Contract!Waiting' = Queued'
  BY <1>1 DEF Contract!Waiting, Queued
<1> QED BY <1>1, <1>2 DEF Contract!Line, Queued

LEMMA LineJoined ==
  ASSUME TypeOK, TypeOK', NEW r \in Requests, stage[r] # "queued", NEW t \in Nat, NextTicket(t),
         stage' = [stage EXCEPT ![r] = "queued"], ticket' = [ticket EXCEPT ![r] = t]
  PROVE  Contract!Line
<1>1. \A o \in Requests : /\ PlaceOf(stage[o]) = "waiting" <=> stage[o] = "queued"
                          /\ PlaceOf(stage'[o]) = "waiting" <=> stage'[o] = "queued"
  BY DEF TypeOK, Stages, PlaceOf
<1>2. Contract!Waiting = Queued /\ Contract!Waiting' = Queued'
  BY <1>1 DEF Contract!Waiting, Queued
<1>3. Queued' = Queued \cup {r} /\ r \notin Queued
  BY DEF Queued, TypeOK
<1>4. \A o \in Queued : ticket'[o] = ticket[o] /\ ticket[o] < t /\ ticket[o] \in Nat
  BY <1>3 DEF TypeOK, NextTicket, Queued
<1>5. ticket'[r] = t
  BY DEF TypeOK
<1>6. {o \in Queued' : ticket'[o] < ticket'[r]} = Queued
  BY <1>3, <1>4, <1>5
<1>7. ASSUME NEW o \in Queued
      PROVE {x \in Queued' : ticket'[x] < ticket'[o]} = {x \in Queued : ticket[x] < ticket[o]}
  BY <1>3, <1>4, <1>5
<1>8. ASSUME NEW o \in Requests
      PROVE (IF stage'[o] = "queued" THEN {x \in Queued' : ticket'[x] < ticket'[o]} ELSE {})
              = IF PlaceOf(stage'[o]) # "waiting" THEN {}
                ELSE (IF PlaceOf(stage[o]) = "waiting"
                        THEN (IF stage[o] = "queued" THEN {x \in Queued : ticket[x] < ticket[o]} ELSE {})
                        ELSE Queued) \cap Queued'
  <2>1. CASE o = r
    BY <1>1, <1>3, <1>6, <2>1
  <2>2. CASE o # r /\ stage[o] = "queued"
    BY <1>1, <1>3, <1>7, <2>2 DEF Queued
  <2>3. CASE o # r /\ stage[o] # "queued"
    BY <1>1, <2>3 DEF TypeOK
  <2> QED BY <2>1, <2>2, <2>3
<1> QED BY <1>1, <1>2, <1>8 DEF Contract!Line

LEMMA FirstAreFront ==
  ASSUME TypeOK, NEW n \in Int, NEW G \in SUBSET Queued, FirstWaiters(G, n)
  PROVE  Contract!Front(G)
BY DEF Contract!Front, FirstWaiters, Queued, TypeOK

\* A place to grade in: at once, or at the end of the line.
LEMMA TakeSlotMaps ==
  ASSUME CInv, CInv', NEW r \in Requests \ Direct, stage[r] \in {"checking", "billing"}, TakeSlot(r)
  PROVE  Contract!Queues(r) /\ Contract!Line
<1> USE DEF CInv
<1>1. CASE Locked
  <2>1. PICK t \in 1 .. Cardinality(Requests) : NextTicket(t) /\ ticket' = [ticket EXCEPT ![r] = t]
    BY <1>1 DEF TakeSlot
  <2>2. t \in Nat
    BY AdmissionAssumption, FS_CardinalityType
  <2>3. stage' = [stage EXCEPT ![r] = "queued"]
    BY <1>1 DEF TakeSlot
  <2>4. Contract!Line
    BY <2>1, <2>2, <2>3, LineJoined
  <2>5. Contract!Goes(r, "waiting", {})
    <3>1. PlaceOf("queued") = "waiting"
      BY DEF PlaceOf
    <3> QED BY <2>3, <3>1, GoesFromStage DEF Stages
  <2> QED BY <2>4, <2>5 DEF Contract!Queues
<1>2. CASE ~ Locked
  <2>1. stage' = [stage EXCEPT ![r] = "grading"] /\ ticket' = ticket /\ Queued = {}
    BY <1>2 DEF TakeSlot, Locked, Queued
  <2>2. Contract!Goes(r, "grading", {})
    <3>1. PlaceOf("grading") = "grading"
      BY DEF PlaceOf
    <3> QED BY <2>1, <3>1, GoesFromStage DEF Stages
  <2>3. Queued' = {}
    BY <2>1 DEF Queued, TypeOK
  <2>4. Contract!Line
    BY <2>3, LineKept
  <2> QED BY <2>1, <2>2, <2>4, ContractTerms, SlotsStillSuffice DEF Contract!Queues
<1> QED BY <1>1, <1>2

\* The answer of a request that ends now.
LEMMA TellMaps ==
  ASSUME TypeOK, NEW r \in Requests, NEW why, stage'[r] = "done", outcome'[r] = why,
         \A o \in Requests \ {r} : /\ stage[o] = "done" <=> stage'[o] = "done"
                                   /\ outcome'[o] = outcome[o]
  PROVE  Contract!Tell(r, why)
BY DEF Contract!Tell

\* Nobody is told anything.
LEMMA NothingTold ==
  ASSUME \A o \in Requests : /\ stage[o] = "done" <=> stage'[o] = "done"
                             /\ stage[o] = "done" => outcome'[o] = outcome[o]
  PROVE  [o \in Requests |-> IF stage'[o] = "done" THEN outcome'[o] ELSE "none"]
           = [o \in Requests |-> IF stage[o] = "done" THEN outcome[o] ELSE "none"]
OBVIOUS

\* The end of a request that has not waited, and leaves nobody a permit.
LEMMA EndMaps ==
  ASSUME TypeOK, TypeOK', NEW r \in Requests, stage[r] # "queued", NEW why,
         stage' = [stage EXCEPT ![r] = "done"], End(r, why), ticket' = ticket,
         stage[r] # "done"
  PROVE  /\ Contract!Goes(r, "gone", {})
         /\ Contract!Tell(r, why)
         /\ Contract!Line
<1>1. Contract!Goes(r, "gone", {})
  <2>1. PlaceOf("done") = "gone"
    BY DEF PlaceOf
  <2> QED BY <2>1, GoesFromStage DEF Stages
<1>2. Contract!Tell(r, why)
  BY TellMaps DEF End, TypeOK
<1>3. Contract!Line
  <2>1. Queued' = Queued
    BY DEF Queued, TypeOK
  <2> QED BY <2>1, LineKept
<1> QED BY <1>1, <1>2, <1>3

Paid == {r \in Requests : charged[r]}

LEMMA TurnedAwayMaps ==
  ASSUME CInv, CInv', NEW r \in Requests, NEW why,
         stage[r] = "checking", stage' = [stage EXCEPT ![r] = "done"], End(r, why),
         UNCHANGED <<loopVars, quotaVars>>,
         \/ why \in {"invalid", "cancelled"}
         \/ /\ r \notin Direct
            /\ \/ why = "duplicate" /\ Duplicate(r)
               \/ why = "full" /\ NoRoom(r)
  PROVE  Contract!ContractNext
<1> USE DEF CInv
<1>1. /\ Contract!Goes(r, "gone", {})
      /\ Contract!Tell(r, why)
      /\ Contract!Line
  BY EndMaps DEF loopVars
<1>2. PlaceOf(stage[r]) = "arriving"
  BY DEF PlaceOf
<1>3. Paid' = Paid /\ UNCHANGED <<period, today>>
  BY DEF Paid, quotaVars
<1>4. \/ why \in {"invalid", "cancelled"}
      \/ /\ why = "duplicate" /\ r \notin Direct
         /\ \E o \in Contract!Inside : KeyOf[o] = KeyOf[r]
      \/ /\ why = "full" /\ r \notin Direct
         /\ \/ Cardinality(Contract!KeysInside) >= MaxConcurrency + MaxQueued
            \/ Cardinality(Contract!InsideOf(Contract!TenantOfRequest(r))) >= MaxAdmittedPerTenant
  <2>1. CASE why = "duplicate" /\ r \notin Direct /\ Duplicate(r)
    <3>1. \E o \in Holding : KeyOf[o] = KeyOf[r]
      BY <2>1 DEF Duplicate, ReservationsExact
    <3> QED BY <2>1, <3>1, ContractTerms
  <2>2. CASE why = "full" /\ r \notin Direct /\ NoRoom(r)
    <3>1. Contract!TenantOfRequest(r) = Client(r) /\ Client(r) \in Tenants
      BY AdmissionAssumption DEF Contract!TenantOfRequest, Client
    <3> QED BY <2>2, <3>1, ContractTerms DEF NoRoom
  <2> QED BY <2>1, <2>2
<1>5. Contract!TurnedAway(r, why)
  BY <1>1, <1>2, <1>3, <1>4, SameCardinality DEF Contract!TurnedAway, Paid
<1>6. why \in Contract!Answers
  BY DEF Contract!Answers
<1> QED BY <1>1, <1>5, <1>6 DEF Contract!ContractNext

LEMMA ReserveMaps == ASSUME CInv, CInv', NEW r \in Requests, Reserve(r) PROVE Contract!ContractNext
<1> USE DEF CInv
<1>1. /\ stage[r] = "checking" /\ r \in Requests \ Direct
      /\ ~ Duplicate(r) /\ ~ NoRoom(r)
      /\ UNCHANGED <<outcome, charged, today>>
  BY DEF Reserve
<1>2. PlaceOf(stage[r]) = "arriving" /\ PlaceOf("billing") = "entered"
  BY <1>1 DEF PlaceOf
<1>3. Contract!TenantOfRequest(r) = Client(r) /\ Client(r) \in Tenants
  BY AdmissionAssumption DEF Contract!TenantOfRequest, Client
<1>4. /\ KeyOf[r] \notin Contract!KeysInside
      /\ Contract!Cardinality(Contract!KeysInside) < MaxConcurrency + MaxQueued
      /\ Contract!Cardinality(Contract!InsideOf(Contract!TenantOfRequest(r))) < MaxAdmittedPerTenant
  <2>1. Cardinality(admitted) \in Nat
    BY HoldingFinite, KeysFinite, FS_CardinalityType DEF ReservationsExact
  <2>2. byTenant[Client(r)] \in Int
    BY <1>3 DEF TypeOK
  <2>3. Cardinality(admitted) < MaxConcurrency + MaxQueued /\ byTenant[Client(r)] < MaxAdmittedPerTenant
    BY <1>1, <2>1, <2>2, AdmissionAssumption DEF NoRoom
  <2> QED BY <1>1, <1>3, <2>3, ContractTerms, SameCardinality DEF Duplicate
<1>5. \A o \in Requests : stage'[o] = "done" <=> stage[o] = "done"
  BY <1>1 DEF Reserve, TakeSlot, TypeOK
<1>6. CASE Client(r) \in Metered
  <2>1. stage' = [stage EXCEPT ![r] = "billing"] /\ period' = [period EXCEPT ![r] = today] /\ ticket' = ticket
    BY <1>6 DEF Reserve
  <2>2. Contract!Goes(r, "entered", {})
    BY <1>2, <2>1, GoesFromStage DEF Stages
  <2>3. Contract!Line
    <3>1. Queued' = Queued
      BY <1>1, <2>1 DEF Queued, TypeOK
    <3> QED BY <2>1, <3>1, LineKept
  <2>4. Contract!LetIn(r)
    BY <1>1, <1>2, <1>4, <1>5, <2>1, <2>2, NothingTold DEF Contract!LetIn
  <2> QED BY <2>3, <2>4 DEF Contract!ContractNext
<1>7. CASE Client(r) \notin Metered
  <2>1. TakeSlot(r) /\ period' = period
    BY <1>7 DEF Reserve
  <2>2. Contract!Queues(r) /\ Contract!Line
    BY <1>1, <2>1, TakeSlotMaps
  <2>3. Contract!MayProceed(r)
    BY <1>3, <1>7 DEF Contract!MayProceed
  <2>4. Contract!LetIn(r)
    BY <1>1, <1>2, <1>4, <1>5, <2>1, <2>2, <2>3, NothingTold DEF Contract!LetIn
  <2> QED BY <2>2, <2>4 DEF Contract!ContractNext
<1> QED BY <1>6, <1>7

LEMMA EnterMaps == ASSUME CInv, CInv', NEW r \in Requests, Enter(r) PROVE Contract!ContractNext
<1> USE DEF CInv
<1>1. /\ stage[r] = "checking" /\ r \in Direct
      /\ UNCHANGED <<outcome, charged, today, ticket>>
  BY DEF Enter, loopVars
<1>2. PlaceOf(stage[r]) = "arriving" /\ PlaceOf("billing") = "entered" /\ PlaceOf("serving") = "serving"
  BY <1>1 DEF PlaceOf
<1>3. Contract!TenantOfRequest(r) = Client(r)
  BY DEF Contract!TenantOfRequest, Client
<1>4. PICK s \in {"billing", "serving"} :
        /\ stage' = [stage EXCEPT ![r] = s]
        /\ Client(r) \in Metered => s = "billing"
        /\ period' = IF s = "billing" THEN [period EXCEPT ![r] = today] ELSE period
  BY DEF Enter
<1>5. \A o \in Requests : stage'[o] = "done" <=> stage[o] = "done"
  BY <1>1, <1>4 DEF TypeOK
<1>6. Contract!Line
  <2>1. Queued' = Queued
    BY <1>1, <1>4 DEF Queued, TypeOK
  <2> QED BY <1>1, <2>1, LineKept
<1>7. Contract!Goes(r, PlaceOf(s), {})
  BY <1>4, GoesFromStage DEF Stages
<1>8. CASE s = "billing"
  <2>1. Contract!LetIn(r)
    BY <1>1, <1>2, <1>4, <1>5, <1>7, <1>8, NothingTold DEF Contract!LetIn
  <2> QED BY <1>6, <2>1 DEF Contract!ContractNext
<1>9. CASE s = "serving"
  <2>1. Contract!MayProceed(r)
    BY <1>3, <1>4, <1>9 DEF Contract!MayProceed
  <2>2. Contract!LetIn(r)
    BY <1>1, <1>2, <1>4, <1>5, <1>7, <1>9, <2>1, NothingTold DEF Contract!LetIn
  <2> QED BY <1>6, <2>2 DEF Contract!ContractNext
<1> QED BY <1>4, <1>8, <1>9

\* A step that leaves every request where it is.
LEMMA StayingPut ==
  ASSUME TypeOK, TypeOK', UNCHANGED <<stage, ticket>>,
         \A o \in Requests : outcome'[o] = outcome[o]
  PROVE  /\ Contract!Line
         /\ UNCHANGED <<[r \in Requests |-> PlaceOf(stage[r])],
                        [r \in Requests |-> IF stage[r] = "done" THEN outcome[r] ELSE "none"],
                        [r \in Requests |-> IF stage[r] = "queued"
                                              THEN {o \in Queued : ticket[o] < ticket[r]} ELSE {}]>>
<1>1. Queued' = Queued
  BY DEF Queued
<1> QED BY <1>1, LineKept

LEMMA PaysMaps ==
  ASSUME CInv, CInv', NEW r \in Requests, stage[r] = "billing", verdict[r] = "none",
         used[Client(r)][period[r]] < Limit, charged' = [charged EXCEPT ![r] = TRUE],
         UNCHANGED <<stage, outcome, loopVars, period, today>>
  PROVE  Contract!ContractNext
<1> USE DEF CInv
<1>1. PlaceOf(stage[r]) = "entered"
  BY DEF PlaceOf
<1>2. ~ charged[r]
  BY DEF QInv, UnitInv
<1>3. Contract!TenantOfRequest(r) = Client(r)
  BY DEF Contract!TenantOfRequest, Client
<1>4. {o \in Requests : charged'[o]} = {o \in Requests : charged[o]} \cup {r}
  BY DEF TypeOK
<1>5. Contract!Cardinality(Contract!Units(Contract!TenantOfRequest(r), period[r])) < Limit
  BY <1>3, ContractTerms, SameCardinality
<1>6. Contract!Line
  BY StayingPut DEF loopVars
<1>7. Contract!Pays(r)
  BY <1>1, <1>2, <1>4, <1>5, StayingPut DEF Contract!Pays, loopVars
<1> QED BY <1>6, <1>7 DEF Contract!ContractNext

LEMMA HiddenMaps ==
  ASSUME TypeOK, TypeOK', UNCHANGED <<stage, outcome, ticket, charged, period, today>>
  PROVE  UNCHANGED Contract!contractVars
BY StayingPut DEF Contract!contractVars

LEMMA ResumeMaps ==
  ASSUME CInv, CInv', NEW r \in Requests, ResumeBilling(r) PROVE Contract!ContractNext
<1> USE DEF CInv
<1>1. /\ stage[r] = "billing" /\ PlaceOf(stage[r]) = "entered"
      /\ UNCHANGED <<charged, period, today>>
  BY DEF ResumeBilling, PlaceOf, quotaVars
<1>2. Contract!TenantOfRequest(r) = Client(r)
  BY DEF Contract!TenantOfRequest, Client
<1>3. CASE Billed(r)
  <2>1. Contract!MayProceed(r)
    BY <1>3 DEF Billed, QInv, UnitInv, Contract!MayProceed
  <2>2. outcome' = outcome /\ \A o \in Requests : stage'[o] = "done" <=> stage[o] = "done"
    BY <1>1, <1>3 DEF ResumeBilling, TakeSlot, TypeOK
  <2>3. CASE r \in Direct
    <3>1. stage' = [stage EXCEPT ![r] = "serving"] /\ ticket' = ticket
      BY <1>3, <2>3 DEF ResumeBilling
    <3>2. Contract!Goes(r, "serving", {})
      <4>1. PlaceOf("serving") = "serving"
        BY DEF PlaceOf
      <4> QED BY <3>1, <4>1, GoesFromStage DEF Stages
    <3>3. Contract!Line
      <4>1. Queued' = Queued
        BY <1>1, <3>1 DEF Queued, TypeOK
      <4> QED BY <3>1, <4>1, LineKept
    <3>4. Contract!GoesOn(r)
      BY <1>1, <2>1, <2>2, <2>3, <3>2, NothingTold DEF Contract!GoesOn
    <3> QED BY <3>3, <3>4 DEF Contract!ContractNext
  <2>4. CASE r \notin Direct
    <3>1. Contract!Queues(r) /\ Contract!Line
      BY <1>1, <1>3, <2>4, TakeSlotMaps DEF ResumeBilling
    <3>2. Contract!GoesOn(r)
      BY <1>1, <2>1, <2>2, <3>1, NothingTold DEF Contract!GoesOn
    <3> QED BY <3>1, <3>2 DEF Contract!ContractNext
  <2> QED BY <2>3, <2>4
<1>4. CASE ~ Billed(r)
  <2>1. stage' = [stage EXCEPT ![r] = "done"] /\ ticket' = ticket
    BY <1>4 DEF ResumeBilling
  <2>2. PICK why \in {"cancelled", "unavailable", "exceeded"} :
          End(r, why) /\ (why = "exceeded" => verdict[r] = "exceeded")
    BY <1>4 DEF ResumeBilling, Billed, TypeOK
  <2>3. /\ Contract!Goes(r, "gone", {})
        /\ Contract!Tell(r, why)
        /\ Contract!Line
    BY <1>1, <2>1, <2>2, EndMaps
  <2>4. verdict[r] = "exceeded" =>
          /\ ~ charged[r]
          /\ Contract!Cardinality(Contract!Units(Contract!TenantOfRequest(r), period[r])) >= Limit
    BY <1>2, ContractTerms, SameCardinality DEF QInv, UnitInv, ReasonInv
  <2>5. Contract!Unpaid(r, why)
    BY <1>1, <2>2, <2>3, <2>4 DEF Contract!Unpaid
  <2>6. why \in Contract!Answers
    BY <2>2 DEF Contract!Answers
  <2> QED BY <2>3, <2>5, <2>6 DEF Contract!ContractNext
<1> QED BY <1>3, <1>4

\* A request moves on and wakes the waiters of G.
LEMMA MoveMaps ==
  ASSUME CInv, CInv', NEW r \in Requests, stage[r] # "queued", NEW s \in {"grading", "done"},
         NEW n \in Int, NEW G \in SUBSET Queued, FirstWaiters(G, n), Move(r, s, G), ticket' = ticket
  PROVE  /\ Contract!Front(G)
         /\ Contract!Goes(r, PlaceOf(s), G)
         /\ Contract!SlotsSuffice
         /\ Contract!Line
         /\ G \in SUBSET Contract!Waiting
<1> USE DEF CInv
<1>1. Contract!Line
  <2>1. Queued' \subseteq Queued
    BY DEF Move, Queued
  <2> QED BY <2>1, LineKept
<1> QED BY <1>1, FirstAreFront, GoesFromMove, SlotsStillSuffice, ContractTerms DEF Stages

LEMMA StartMaps == ASSUME CInv, CInv', NEW r \in Requests, Start(r) PROVE Contract!ContractNext
<1>1. PICK G \in SUBSET Queued : FirstWaiters(G, permits) /\ Move(r, "grading", G)
  BY DEF Start
<1>2. /\ stage[r] = "granted" /\ permits \in Int
      /\ UNCHANGED <<outcome, ticket, charged, period, today>>
  BY DEF Start, CInv, TypeOK, quotaVars
<1>3. PlaceOf(stage[r]) = "called" /\ PlaceOf("grading") = "grading"
  BY <1>2 DEF PlaceOf
<1>4. /\ Contract!Front(G) /\ Contract!Goes(r, "grading", G)
      /\ Contract!SlotsSuffice /\ Contract!Line /\ G \in SUBSET Contract!Waiting
  BY <1>1, <1>2, <1>3, MoveMaps
<1>5. \A o \in Requests : stage'[o] = "done" <=> stage[o] = "done"
  BY <1>1, <1>2 DEF Move, Queued
<1>6. Contract!Starts(r, G)
  BY <1>2, <1>3, <1>4, <1>5, NothingTold DEF Contract!Starts
<1> QED BY <1>4, <1>6 DEF Contract!ContractNext

LEMMA AbandonMaps ==
  ASSUME CInv, CInv', NEW r \in Requests, NEW why, Abandon(r, why) PROVE Contract!ContractNext
<1> USE DEF CInv
<1>1. /\ stage[r] \in {"queued", "granted"}
      /\ UNCHANGED <<charged, period, today>>
      /\ ticket' = [ticket EXCEPT ![r] = 0]
      /\ outcome' = [outcome EXCEPT ![r] = why]
  BY DEF Abandon, End, quotaVars
<1>2. PICK s \in {"leaving", "returning"} : stage' = [stage EXCEPT ![r] = s]
  BY DEF Abandon
<1>3. PlaceOf(stage[r]) \in {"waiting", "called"} /\ PlaceOf(s) = "leaving"
  BY <1>1 DEF PlaceOf
<1>4. Contract!Goes(r, "leaving", {})
  BY <1>2, <1>3, GoesFromStage DEF Stages
<1>5. Contract!Line
  <2>1. Queued' \subseteq Queued /\ \A o \in Queued' : ticket'[o] = ticket[o]
    BY <1>1, <1>2 DEF Queued, TypeOK
  <2> QED BY <2>1, LineKept
<1>6. \A o \in Requests : /\ stage[o] = "done" <=> stage'[o] = "done"
                          /\ stage[o] = "done" => outcome'[o] = outcome[o]
  BY <1>1, <1>2 DEF TypeOK
<1>7. Contract!GivesUp(r)
  BY <1>1, <1>3, <1>4, <1>6, NothingTold DEF Contract!GivesUp
<1> QED BY <1>5, <1>7 DEF Contract!ContractNext

LEMMA LeaveMaps == ASSUME CInv, CInv', NEW r \in Requests, Leave(r) PROVE Contract!ContractNext
<1> DEFINE left == permits + (IF stage[r] = "returning" THEN 1 ELSE 0)
<1>1. PICK G \in SUBSET Queued : FirstWaiters(G, left) /\ Move(r, "done", G)
  BY DEF Leave
<1>2. /\ stage[r] \in {"leaving", "returning"} /\ left \in Int
      /\ UNCHANGED <<outcome, ticket, charged, period, today>>
  BY DEF Leave, CInv, TypeOK, quotaVars
<1> HIDE DEF left
<1>3. PlaceOf(stage[r]) = "leaving" /\ PlaceOf("done") = "gone"
  BY <1>2 DEF PlaceOf
<1>4. /\ Contract!Front(G) /\ Contract!Goes(r, "gone", G)
      /\ Contract!SlotsSuffice /\ Contract!Line /\ G \in SUBSET Contract!Waiting
  BY <1>1, <1>2, <1>3, MoveMaps
<1>5. Contract!Tell(r, outcome[r])
  <2>1. /\ stage'[r] = "done" /\ outcome'[r] = outcome[r]
        /\ \A o \in Requests \ {r} : /\ stage[o] = "done" <=> stage'[o] = "done"
                                     /\ outcome'[o] = outcome[o]
    BY <1>1, <1>2 DEF Move, Queued
  <2> QED BY <2>1 DEF Contract!Tell, CInv
<1>6. outcome[r] \in {"late", "cancelled"}
  BY <1>2 DEF CInv, ReasonInv
<1>7. Contract!Departs(r, outcome[r], G) /\ outcome[r] \in Contract!Answers
  BY <1>2, <1>3, <1>4, <1>5, <1>6 DEF Contract!Departs, Contract!Answers
<1> QED BY <1>4, <1>7 DEF Contract!ContractNext

LEMMA FinishMaps ==
  ASSUME CInv, CInv', NEW r \in Requests, Finish(r) PROVE Contract!ContractNext
<1>1. PICK G \in SUBSET Queued : FirstWaiters(G, 1) /\ Move(r, "done", G)
  BY DEF Finish
<1>2. /\ stage[r] = "grading" /\ UNCHANGED <<ticket, charged, period, today>>
  BY DEF Finish, quotaVars
<1>3. PICK why \in {"cancelled", "answered"} : outcome' = [outcome EXCEPT ![r] = why]
  BY DEF Finish, End
<1>4. PlaceOf(stage[r]) = "grading" /\ PlaceOf("done") = "gone"
  BY <1>2 DEF PlaceOf
<1>5. /\ Contract!Front(G) /\ Contract!Goes(r, "gone", G)
      /\ Contract!SlotsSuffice /\ Contract!Line /\ G \in SUBSET Contract!Waiting
  BY <1>1, <1>2, <1>4, MoveMaps
<1>6. Contract!Tell(r, why)
  <2>1. /\ stage'[r] = "done" /\ outcome'[r] = why
        /\ \A o \in Requests \ {r} : /\ stage[o] = "done" <=> stage'[o] = "done"
                                     /\ outcome'[o] = outcome[o]
    BY <1>1, <1>3 DEF Move, Queued, CInv, TypeOK
  <2> QED BY <2>1, TellMaps DEF CInv
<1>7. Contract!Departs(r, why, G) /\ why \in Contract!Answers
  BY <1>2, <1>4, <1>5, <1>6 DEF Contract!Departs, Contract!Answers
<1> QED BY <1>5, <1>7 DEF Contract!ContractNext

LEMMA FinishDirectMaps ==
  ASSUME CInv, CInv', NEW r \in Requests, FinishDirect(r) PROVE Contract!ContractNext
<1>1. /\ stage[r] = "serving" /\ stage' = [stage EXCEPT ![r] = "done"]
      /\ UNCHANGED <<ticket, charged, period, today>>
  BY DEF FinishDirect, loopVars, quotaVars
<1>2. PICK why \in {"cancelled", "answered"} : End(r, why)
  BY DEF FinishDirect
<1>3. Contract!Goes(r, "gone", {}) /\ Contract!Tell(r, why) /\ Contract!Line
  BY <1>1, <1>2, EndMaps DEF CInv
<1>4. PlaceOf(stage[r]) = "serving"
  BY <1>1 DEF PlaceOf
<1>5. Contract!Front({}) /\ {} \in SUBSET Contract!Waiting
  BY DEF Contract!Front
<1>6. Contract!Departs(r, why, {}) /\ why \in Contract!Answers
  BY <1>1, <1>3, <1>4, <1>5, SlotsStillSuffice DEF Contract!Departs, Contract!Answers
<1> QED BY <1>3, <1>5, <1>6 DEF Contract!ContractNext

LEMMA StepKeepsContract ==
  CInv /\ CInv' /\ [Next]_vars => [Contract!ContractNext]_(Contract!contractVars)
<1> SUFFICES ASSUME CInv, CInv', [Next]_vars
             PROVE  Contract!ContractNext \/ UNCHANGED Contract!contractVars
  OBVIOUS
<1> USE DEF CInv
<1>1. ASSUME NEW r \in Requests, Refuse(r) \/ TurnAway(r) PROVE Contract!ContractNext
  <2>1. PICK why \in {"invalid", "duplicate", "full"} :
          /\ End(r, why)
          /\ \/ why \in {"invalid", "cancelled"}
             \/ /\ r \notin Direct
                /\ \/ why = "duplicate" /\ Duplicate(r)
                   \/ why = "full" /\ NoRoom(r)
    BY <1>1 DEF Refuse, TurnAway
  <2>2. /\ stage[r] = "checking" /\ stage' = [stage EXCEPT ![r] = "done"]
        /\ UNCHANGED <<loopVars, quotaVars>>
    BY <1>1 DEF Refuse, TurnAway
  <2> QED BY <2>1, <2>2, TurnedAwayMaps
<1>2. ASSUME NEW r \in Requests, Count(r) \/ Exceed(r) \/ StorageFails(r)
      PROVE Contract!ContractNext \/ UNCHANGED Contract!contractVars
  <2>1. /\ stage[r] = "billing" /\ verdict[r] = "none"
        /\ UNCHANGED <<stage, outcome, loopVars, period, today>>
    BY <1>2 DEF Count, Exceed, StorageFails
  <2>2. \/ charged' = charged
        \/ used[Client(r)][period[r]] < Limit /\ charged' = [charged EXCEPT ![r] = TRUE]
    BY <1>2 DEF Count, Exceed, StorageFails
  <2> QED BY <2>1, <2>2, PaysMaps, HiddenMaps DEF loopVars
<1>3. ASSUME NEW r \in Requests, Cancel(r)
      PROVE Contract!ContractNext \/ UNCHANGED Contract!contractVars
  <2>1. CASE /\ stage[r] = "checking" /\ stage' = [stage EXCEPT ![r] = "done"]
             /\ End(r, "cancelled") /\ UNCHANGED <<cancelled, loopVars, quotaVars>>
    BY <2>1, TurnedAwayMaps
  <2>2. CASE UNCHANGED <<stage, outcome, loopVars, quotaVars>>
    BY <2>2, HiddenMaps DEF loopVars, quotaVars
  <2> QED BY <1>3, <2>1, <2>2, AbandonMaps DEF Cancel
<1>4. CASE RollOver
  <2>1. /\ today < MaxPeriod /\ today' = today + 1
        /\ UNCHANGED <<stage, outcome, ticket, charged, period>>
    BY <1>4 DEF RollOver, loopVars
  <2>2. Contract!Line /\ Contract!NextPeriod
    BY <2>1, StayingPut DEF Contract!NextPeriod
  <2> QED BY <2>2 DEF Contract!ContractNext
<1>5. CASE UNCHANGED vars
  BY <1>5, HiddenMaps DEF vars, loopVars, quotaVars
<1> QED BY <1>1, <1>2, <1>3, <1>4, <1>5, ReserveMaps, EnterMaps, ResumeMaps, StartMaps,
           AbandonMaps, LeaveMaps, FinishMaps, FinishDirectMaps DEF Next

LEMMA InitKeepsContract == Init => Contract!ContractInit
<1> SUFFICES ASSUME Init PROVE Contract!ContractInit
  OBVIOUS
<1>1. PlaceOf("checking") = "arriving"
  BY DEF PlaceOf
<1> QED BY <1>1 DEF Init, Contract!ContractInit

\* _GradingAdmission and the quota keep the contract of the admission for any requests,
\* tenants, keys and limits: who is let in, called, charged and turned away, in which
\* order and for which reason.
THEOREM AdmissionKeepsContract == Spec => KeepsAdmissionContract
BY StepKeepsContract, InitKeepsContract, CInvHolds, PTL
   DEF Spec, KeepsAdmissionContract, Contract!ContractSpec
=============================================================================
