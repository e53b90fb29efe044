------------------------- MODULE SandboxRecoveryProofs -------------------------
(***************************************************************************)
(* Proofs about SandboxRecovery for every attempt cap and every set of     *)
(* policies.  RInv is the inductive strengthening of the two invariants:   *)
(* what the outage in the state is to the attempts so far, and where the   *)
(* run of setup errors that is being counted began.                        *)
(***************************************************************************)
EXTENDS SandboxRecovery, TLAPS

Running == phase \in {"attempting", "loading"}

\* The cap in effect follows from the policy.
CapInv ==
  /\ recover => policy # 0
  /\ cap = IF loaded /\ policy # 0 THEN policy ELSE DefaultMax

\* The current attempt has not ended while it runs.
EndedInv ==
  /\ \A n \in Numbers : n > number => ended[n] = "none"
  /\ \A n \in Numbers : n < number => ended[n] # "none"
  /\ Running => ended[number] = "none"
  /\ phase = "retrying" => ended[number] # "none"
  /\ \A n \in Numbers : ended[n] = "loss" => policy # 0

\* An identity is the number of an attempt that was lost before the attempts
\* that carry it, and only a carried one is acknowledged.
NamesInv ==
  /\ \A k \in Numbers : carried[k] # 0 =>
       carried[k] < k /\ k <= number /\ ended[carried[k]] = "loss"
  /\ \A x \in recorded : \E k \in Numbers : carried[k] = x
  /\ outage # 0 => /\ outage <= number
                   /\ outage \notin recorded
                   /\ ended[outage] = "loss"

\* What the current attempt hands to the next one.
HandInv ==
  /\ (carried[number] # 0 /\ carried[number] \notin recorded) => outage = carried[number]
  /\ (ended[number] = "loss" /\ carried[number] \notin recorded) => outage # 0
  /\ outage # 0 => outage = carried[number]
                   \/ (outage = number /\ ended[number] = "loss")

\* The run of setup errors began with the first attempt or after a loss.
ErrorsInv ==
  /\ Running => /\ errors < number
                /\ errors # number - 1 => ended[number - 1 - errors] = "loss"
  /\ phase = "retrying" => /\ errors <= number
                           /\ errors # number => ended[number - errors] = "loss"

RInv == /\ TypeOK /\ CapInv /\ EndedInv /\ NamesInv /\ HandInv /\ ErrorsInv
        /\ OutageIdentityKept /\ RetriesHaveACause
-----------------------------------------------------------------------------
\* The invariant holds before the first attempt.
LEMMA InitRInv == Init => RInv
<1> SUFFICES ASSUME Init PROVE RInv
  OBVIOUS
<1>1. TypeOK
  <2>1. /\ carried \in [Numbers -> Outages]
        /\ ended \in [Numbers -> Causes]
    BY DEF Init, Outages, Causes
  <2>2. cap \in Numbers /\ number \in Numbers /\ errors \in 0 .. DefaultMax - 1
        /\ outage \in Outages
    BY RecoveryAssumption DEF Init, Numbers, Outages
  <2> QED
    BY <2>1, <2>2 DEF Init, TypeOK
<1>2. CapInv /\ EndedInv /\ NamesInv /\ HandInv /\ ErrorsInv
  BY DEF Init, CapInv, EndedInv, NamesInv, HandInv, ErrorsInv, Running, Numbers
<1>3. OutageIdentityKept
  BY DEF Init, OutageIdentityKept, Numbers
<1>4. RetriesHaveACause
  BY RecoveryAssumption DEF Init, RetriesHaveACause, Numbers
<1> QED
  BY <1>1, <1>2, <1>3, <1>4 DEF RInv

\* The attempt in flight ends with one of the two causes, or the call ends: what
\* the outage in the state and the counted run of errors must satisfy then.
LEMMA EndOfAttempt ==
  ASSUME RInv, Running, phase' \in {"retrying", "done"},
         NEW cause \in {"loss", "error"},
         \/ /\ phase' = "retrying"
            /\ ended' = [ended EXCEPT ![number] = cause]
            /\ \/ cause = "loss" /\ policy # 0 /\ errors' = 0
                  /\ outage' = (IF outage = 0 THEN number ELSE outage)
               \/ cause = "error" /\ errors' = errors + 1 /\ outage' = outage
         \/ phase' = "done" /\ UNCHANGED <<ended, errors, outage>>,
         UNCHANGED <<policy, number, carried, recorded>>,
         TypeOK', CapInv'
  PROVE RInv'
<1> USE DEF TypeOK, Numbers, Outages
<1>0. TypeOK /\ CapInv /\ EndedInv /\ NamesInv /\ HandInv /\ ErrorsInv
      /\ OutageIdentityKept /\ RetriesHaveACause
  BY DEF RInv
<1>a. ASSUME phase' = "done"
      PROVE EndedInv' /\ NamesInv' /\ HandInv' /\ ErrorsInv'
            /\ OutageIdentityKept' /\ RetriesHaveACause'
  <2>0. UNCHANGED <<policy, number, carried, recorded, ended, errors, outage>>
    BY <1>a
  <2>1. EndedInv'
    BY <1>0, <1>a, <2>0 DEF EndedInv, Running
  <2>2. NamesInv'
    BY <1>0, <2>0 DEF NamesInv
  <2>3. HandInv'
    BY <1>0, <2>0 DEF HandInv
  <2>4. ErrorsInv'
    BY <1>a DEF ErrorsInv, Running
  <2>5. OutageIdentityKept'
    BY <1>0, <2>0 DEF OutageIdentityKept
  <2>6. RetriesHaveACause'
    BY <1>0, <2>0 DEF RetriesHaveACause
  <2> QED
    BY <2>1, <2>2, <2>3, <2>4, <2>5, <2>6
<1>b. ASSUME phase' = "retrying"
      PROVE EndedInv' /\ NamesInv' /\ HandInv' /\ ErrorsInv'
            /\ OutageIdentityKept' /\ RetriesHaveACause'
  <2>0. /\ ended' = [ended EXCEPT ![number] = cause]
        /\ number' = number /\ carried' = carried /\ recorded' = recorded
        /\ policy' = policy
        /\ cause = "loss" => policy # 0 /\ errors' = 0
                             /\ outage' = (IF outage = 0 THEN number ELSE outage)
        /\ cause = "error" => errors' = errors + 1 /\ outage' = outage
    BY <1>b
  <2>1. /\ ended'[number] = cause
        /\ \A n \in Numbers : n # number => ended'[n] = ended[n]
    BY <2>0, <1>0
  <2>2. ended[number] = "none"
    BY <1>0 DEF EndedInv
  <2>3. EndedInv'
    BY <1>0, <1>b, <2>0, <2>1 DEF EndedInv, Running
  <2>4. number \notin recorded
    BY <1>0 DEF NamesInv
  <2>5. NamesInv'
    <3>1. \A x \in Numbers : ended[x] = "loss" => ended'[x] = "loss"
      BY <2>1, <2>2
    <3>2. outage' # 0 => /\ outage' <= number
                         /\ outage' \notin recorded
                         /\ ended'[outage'] = "loss"
      <4>1. CASE cause = "loss" /\ outage = 0
        BY <4>1, <2>0, <2>1, <2>4
      <4>2. CASE cause = "error" \/ outage # 0
        BY <4>2, <2>0, <1>0, <3>1 DEF NamesInv
      <4> QED
        BY <4>1, <4>2
    <3>3. \A k \in Numbers : carried[k] # 0 =>
            carried[k] < k /\ k <= number /\ ended'[carried[k]] = "loss"
      BY <1>0, <3>1 DEF NamesInv
    <3>4. \A x \in recorded : \E k \in Numbers : carried[k] = x
      BY <1>0 DEF NamesInv
    <3> QED
      BY <3>2, <3>3, <3>4, <2>0 DEF NamesInv
  <2>6. HandInv'
    <3>1. CASE cause = "loss"
      <4>1. outage' = (IF outage = 0 THEN number ELSE outage) /\ ended'[number] = "loss"
        BY <3>1, <2>0, <2>1
      <4>2. outage = 0 => ~ (carried[number] # 0 /\ carried[number] \notin recorded)
        BY <1>0 DEF HandInv
      <4>3. outage # 0 => outage = carried[number]
        BY <1>0, <2>2 DEF HandInv
      <4> QED
        BY <4>1, <4>2, <4>3, <2>0, <1>0 DEF HandInv
    <3>2. CASE cause = "error"
      BY <3>2, <1>0, <2>0, <2>1, <2>2 DEF HandInv
    <3> QED
      BY <3>1, <3>2
  <2>7. ErrorsInv'
    <3>1. CASE cause = "loss"
      BY <3>1, <1>b, <2>0, <2>1, <1>0 DEF ErrorsInv, Running
    <3>2. CASE cause = "error"
      <4>1. /\ errors < number
            /\ errors # number - 1 => ended[number - 1 - errors] = "loss"
        BY <1>0 DEF ErrorsInv
      <4>2. errors # number - 1 => /\ number - 1 - errors \in Numbers
                                   /\ number - 1 - errors # number
        BY <4>1, <1>0
      <4>3. errors' = errors + 1
        BY <3>2, <2>0
      <4>4. errors' <= number
        BY <4>1, <4>3, <1>0
      <4>5. errors' # number => ended'[number - errors'] = "loss"
        <5>1. number - errors' = number - 1 - errors
          BY <4>3, <1>0
        <5>2. errors' # number => errors # number - 1
          BY <4>3, <1>0
        <5> QED
          BY <5>1, <5>2, <4>1, <4>2, <2>1
      <4> QED
        BY <4>4, <4>5, <1>b, <2>0 DEF ErrorsInv, Running
    <3> QED
      BY <3>1, <3>2
  <2>8. OutageIdentityKept'
    BY <1>0, <2>0, <2>1, <2>2 DEF OutageIdentityKept, NamesInv
  <2>9. RetriesHaveACause'
    <3>1. \A n \in Numbers : ended'[n] # "none" \/ ended'[n] = ended[n]
      BY <2>1
    <3>2. \A n \in Numbers : ended[n] = "loss" => ended'[n] = "loss"
      BY <2>1, <2>2
    <3>3. \A n \in Numbers : ended'[n] = "loss" => policy # 0
      BY <2>0, <2>1, <1>0 DEF EndedInv
    <3>4. \A n \in Numbers : n < number => ended'[n] # "none"
      BY <2>1, <1>0 DEF EndedInv
    <3>5. \A n \in Numbers : n + DefaultMax <= number =>
            \E m \in n .. n + DefaultMax - 1 : ended'[m] = "loss"
      <4>1. SUFFICES ASSUME NEW n \in Numbers, n + DefaultMax <= number
                     PROVE \E m \in n .. n + DefaultMax - 1 : ended'[m] = "loss"
        OBVIOUS
      <4>2. PICK m \in n .. n + DefaultMax - 1 : ended[m] = "loss"
        BY <4>1, <1>0 DEF RetriesHaveACause
      <4>3. m \in Numbers
        BY <4>1, <4>2, <1>0, RecoveryAssumption
      <4> QED
        BY <4>2, <4>3, <3>2
    <3> QED
      BY <3>3, <3>4, <3>5, <2>0 DEF RetriesHaveACause
  <2> QED
    BY <2>3, <2>5, <2>6, <2>7, <2>8, <2>9
<1> QED
  BY <1>a, <1>b DEF RInv

\* Steps of the operation and the callback that leave the attempt as it is.
LEMMA QuietStep ==
  ASSUME RInv, TypeOK', CapInv',
         UNCHANGED <<policy, number, errors, carried, ended, outage, recorded>>,
         phase' = phase \/ phase' = "done"
  PROVE RInv'
<1>0. TypeOK /\ CapInv /\ EndedInv /\ NamesInv /\ HandInv /\ ErrorsInv
      /\ OutageIdentityKept /\ RetriesHaveACause
  BY DEF RInv
<1>1. EndedInv'
  BY <1>0 DEF EndedInv, Running
<1>2. NamesInv'
  BY <1>0 DEF NamesInv
<1>3. HandInv'
  BY <1>0 DEF HandInv
<1>4. ErrorsInv'
  BY <1>0 DEF ErrorsInv, Running
<1>5. OutageIdentityKept'
  BY <1>0 DEF OutageIdentityKept
<1>6. RetriesHaveACause'
  BY <1>0 DEF RetriesHaveACause
<1> QED
  BY <1>1, <1>2, <1>3, <1>4, <1>5, <1>6 DEF RInv

\* The step after which the handler of a loss has decided.
LEMMA LossStep ==
  ASSUME RInv, Running, NEW may \in BOOLEAN, NEW limit \in Numbers,
         may => policy # 0,
         Recover(may, limit),
         UNCHANGED <<policy, number, carried, recorded>>,
         loaded' \in BOOLEAN, recover' \in BOOLEAN, cap' \in Numbers, CapInv'
  PROVE RInv'
<1>0. TypeOK
  BY DEF RInv
<1>1. CASE may /\ number < limit
  <2>1. /\ phase' = "retrying" /\ errors' = 0 /\ outcome' = outcome
        /\ ended' = [ended EXCEPT ![number] = "loss"]
        /\ outage' = (IF outage = 0 THEN number ELSE outage)
    BY <1>1 DEF Recover, RecordLoss
  <2>2. ended' \in [Numbers -> Causes]
    BY <1>0, <2>1 DEF TypeOK, Causes
  <2>3. outage' \in Outages /\ errors' \in 0 .. DefaultMax - 1
    BY <1>0, <2>1, RecoveryAssumption DEF TypeOK, Numbers, Outages
  <2>4. TypeOK'
    BY <1>0, <2>1, <2>2, <2>3 DEF TypeOK
  <2> QED
    BY <1>1, <2>1, <2>4, EndOfAttempt
<1>2. CASE ~ (may /\ number < limit)
  <2>1. phase' = "done" /\ outcome' = "raised" /\ UNCHANGED <<errors, outage, ended>>
    BY <1>2 DEF Recover, Done
  <2>2. TypeOK'
    BY <1>0, <2>1 DEF TypeOK
  <2> QED
    BY <2>1, <2>2, QuietStep
<1> QED
  BY <1>1, <1>2

\* Every step of the loop preserves the invariant.
LEMMA NextRInv == RInv /\ [Next]_vars => RInv'
<1> SUFFICES ASSUME RInv, [Next]_vars PROVE RInv'
  OBVIOUS
<1>0. TypeOK /\ CapInv /\ EndedInv /\ NamesInv /\ HandInv /\ ErrorsInv
      /\ OutageIdentityKept /\ RetriesHaveACause
  BY DEF RInv
<1>p. policy \in Numbers \cup {0}
  BY <1>0, RecoveryAssumption DEF TypeOK, Numbers
<1>l. ASSUME Load, policy' = policy
      PROVE loaded' \in BOOLEAN /\ recover' \in BOOLEAN /\ cap' \in Numbers /\ CapInv'
            /\ (recover' => policy # 0)
  <2>1. loaded' = TRUE /\ recover' = (policy # 0)
        /\ cap' = (IF policy = 0 THEN cap ELSE policy)
    BY <1>l DEF Load
  <2>2. cap' \in Numbers
    BY <2>1, <1>p, <1>0 DEF TypeOK
  <2> QED
    BY <2>1, <2>2, <1>l, <1>0 DEF CapInv
<1>1. CASE Retrieve
  <2>1. /\ Load
        /\ UNCHANGED <<policy, phase, number, errors, outage, carried, recorded,
                       ended, outcome>>
    BY <1>1 DEF Retrieve, outageVars
  <2>2. TypeOK' /\ CapInv'
    BY <2>1, <1>l, <1>0 DEF TypeOK
  <2> QED
    BY <2>1, <2>2, QuietStep
<1>2. ASSUME NEW k \in Numbers, MarkReady(k) PROVE RInv'
  <2>1. /\ carried[k] # 0 /\ carried[k] = outage /\ k <= number
        /\ recorded' = recorded \cup {carried[k]} /\ outage' = 0
        /\ UNCHANGED <<policy, loaded, recover, cap, phase, number, errors,
                       carried, ended, outcome>>
    BY <1>2 DEF MarkReady, taskVars
  <2>2. TypeOK'
    BY <1>0, <2>1 DEF TypeOK, Numbers, Outages
  <2>3. CapInv' /\ EndedInv' /\ ErrorsInv' /\ RetriesHaveACause'
    BY <1>0, <2>1 DEF CapInv, EndedInv, ErrorsInv, RetriesHaveACause, Running
  <2>4. NamesInv'
    BY <1>0, <2>1 DEF NamesInv
  <2>5. HandInv'
    <3>1. carried[number] \notin recorded' => carried[number] # outage
      BY <2>1
    <3>2. (carried[number] # 0 /\ carried[number] \notin recorded')
            => outage = carried[number]
      BY <1>0, <2>1 DEF HandInv
    <3>3. (ended[number] = "loss" /\ carried[number] \notin recorded')
            => carried[number] = 0 /\ outage # 0
      BY <3>1, <3>2, <2>1
    <3>4. outage # 0 /\ carried[number] = 0 => outage = number
      BY <1>0 DEF HandInv
    <3>5. outage # number
      BY <2>1, <1>0 DEF NamesInv, TypeOK, Numbers, Outages
    <3> QED
      BY <2>1, <3>1, <3>2, <3>3, <3>4, <3>5 DEF HandInv
  <2>6. OutageIdentityKept'
    BY <1>0, <2>1 DEF OutageIdentityKept, Numbers, TypeOK
  <2> QED
    BY <2>2, <2>3, <2>4, <2>5, <2>6 DEF RInv
<1>3. CASE Succeed
  <2>1. TypeOK' /\ CapInv' /\ phase' = "done"
        /\ UNCHANGED <<policy, number, errors, carried, ended, outage, recorded>>
    BY <1>3, <1>0 DEF Succeed, Done, taskVars, outageVars, TypeOK, CapInv
  <2> QED
    BY <2>1, QuietStep
<1>4. CASE Lose
  <2>0. /\ phase = "attempting" /\ Running
        /\ UNCHANGED <<policy, loaded, recover, cap, number, carried, recorded>>
    BY <1>4 DEF Lose, taskVars, Running
  <2>1. CASE loaded
    <3>1. Recover(recover, cap)
      BY <2>1, <1>4 DEF Lose
    <3>2. CapInv' /\ cap \in Numbers /\ recover \in BOOLEAN /\ (recover => policy # 0)
      BY <2>0, <1>0 DEF CapInv, TypeOK
    <3>3. cap' \in Numbers /\ recover' \in BOOLEAN /\ loaded' \in BOOLEAN
      BY <2>0, <1>0 DEF TypeOK
    <3> QED
      BY <2>0, <3>1, <3>2, <3>3, LossStep
  <2>2. CASE ~ loaded
    <3>1. phase' = "loading" /\ UNCHANGED <<errors, outage, ended, outcome>>
      BY <2>2, <1>4 DEF Lose
    <3>2. TypeOK' /\ CapInv'
      BY <2>0, <3>1, <1>0 DEF TypeOK, CapInv
    <3>3. EndedInv' /\ NamesInv' /\ HandInv' /\ ErrorsInv'
      BY <2>0, <3>1, <1>0 DEF EndedInv, NamesInv, HandInv, ErrorsInv, Running
    <3>4. OutageIdentityKept' /\ RetriesHaveACause'
      BY <2>0, <3>1, <1>0 DEF OutageIdentityKept, RetriesHaveACause
    <3> QED
      BY <3>2, <3>3, <3>4 DEF RInv
  <2> QED
    BY <2>1, <2>2
<1>5. CASE LoadForLoss
  <2>1. /\ Running /\ Load /\ Recover(recover', cap')
        /\ UNCHANGED <<policy, number, carried, recorded>>
    BY <1>5 DEF LoadForLoss, Running
  <2> QED
    BY <2>1, <1>l, LossStep
<1>6. CASE LoadFails
  <2>1. TypeOK' /\ CapInv' /\ phase' = "done"
        /\ UNCHANGED <<policy, number, errors, carried, ended, outage, recorded>>
    BY <1>6, <1>0 DEF LoadFails, Done, taskVars, outageVars, TypeOK, CapInv
  <2> QED
    BY <2>1, QuietStep
<1>7. CASE SetupFails
  <2>0. /\ Running
        /\ UNCHANGED <<policy, loaded, recover, cap, number, outage, carried, recorded>>
    BY <1>7 DEF SetupFails, taskVars, outageVars, Running
  <2>c. CapInv'
    BY <2>0, <1>0 DEF CapInv
  <2>1. CASE MayRetry
    <3>1. /\ phase' = "retrying" /\ errors' = errors + 1 /\ outcome' = outcome
          /\ ended' = [ended EXCEPT ![number] = "error"]
      BY <2>1, <1>7 DEF SetupFails
    <3>2. errors' \in 0 .. DefaultMax - 1
      BY <2>1, <3>1, <1>0, RecoveryAssumption DEF MayRetry, TypeOK
    <3>3. ended' \in [Numbers -> Causes]
      BY <3>1, <1>0 DEF TypeOK, Causes
    <3>4. TypeOK'
      BY <2>0, <3>1, <3>2, <3>3, <1>0 DEF TypeOK
    <3> QED
      BY <2>0, <2>c, <3>1, <3>4, EndOfAttempt
  <2>2. CASE ~ MayRetry
    <3>1. phase' = "done" /\ outcome' = "raised" /\ UNCHANGED <<errors, ended>>
      BY <2>2, <1>7 DEF SetupFails, Done
    <3>2. TypeOK'
      BY <2>0, <3>1, <1>0 DEF TypeOK
    <3> QED
      BY <2>0, <2>c, <3>1, <3>2, QuietStep
  <2> QED
    BY <2>1, <2>2
<1>8. CASE Fail
  <2>1. TypeOK' /\ CapInv' /\ phase' = "done"
        /\ UNCHANGED <<policy, number, errors, carried, ended, outage, recorded>>
    BY <1>8, <1>0 DEF Fail, Done, taskVars, outageVars, TypeOK, CapInv
  <2> QED
    BY <2>1, QuietStep
<1>10. CASE UNCHANGED vars
  <2>1. TypeOK' /\ CapInv'
    BY <1>10, <1>0 DEF vars, TypeOK, CapInv
  <2> QED
    BY <2>1, <1>10, QuietStep DEF vars
<1>9. CASE Again
  <2>0. /\ phase = "retrying"
        /\ UNCHANGED <<policy, loaded, recover, cap, errors, outage, recorded, ended>>
    BY <1>9 DEF Again, taskVars
  <2>c. CapInv'
    BY <2>0, <1>0 DEF CapInv
  <2>1. CASE ~ (number < cap)
    <3>1. phase' = "done" /\ outcome' = "assertion" /\ UNCHANGED <<number, carried>>
      BY <2>1, <1>9 DEF Again, Done
    <3>2. TypeOK'
      BY <2>0, <3>1, <1>0 DEF TypeOK
    <3> QED
      BY <2>0, <2>c, <3>1, <3>2, QuietStep
  <2>2. CASE number < cap
    <3> USE DEF Numbers, Outages
    <3>1. /\ number' = number + 1 /\ phase' = "attempting" /\ outcome' = outcome
          /\ carried' = [carried EXCEPT ![number + 1] = outage]
      BY <2>2, <1>9 DEF Again
    <3>2. number + 1 \in Numbers /\ number \in Numbers
      BY <2>2, <1>0 DEF TypeOK
    <3>3. /\ carried'[number + 1] = outage
          /\ \A n \in Numbers : n # number + 1 => carried'[n] = carried[n]
      BY <3>1, <3>2, <1>0 DEF TypeOK
    <3>4. carried' \in [Numbers -> Outages]
      BY <3>1, <1>0 DEF TypeOK
    <3>5. TypeOK'
      BY <2>0, <3>1, <3>2, <3>4, <1>0 DEF TypeOK
    <3>6. EndedInv'
      BY <2>0, <3>1, <3>2, <1>0 DEF EndedInv, Running, TypeOK
    <3>7. carried[number + 1] = 0
      BY <3>2, <1>0 DEF NamesInv, TypeOK
    <3>8. NamesInv'
      <4>1. \A k \in Numbers : carried'[k] # 0 =>
              carried'[k] < k /\ k <= number + 1 /\ ended[carried'[k]] = "loss"
        <5>1. SUFFICES ASSUME NEW k \in Numbers, carried'[k] # 0
                       PROVE carried'[k] < k /\ k <= number + 1
                             /\ ended[carried'[k]] = "loss"
          OBVIOUS
        <5>2. CASE k = number + 1
          BY <5>1, <5>2, <3>2, <3>3, <1>0 DEF NamesInv, TypeOK
        <5>3. CASE k # number + 1
          BY <5>1, <5>3, <3>2, <3>3, <1>0 DEF NamesInv, TypeOK
        <5> QED
          BY <5>2, <5>3
      <4>2. \A x \in recorded : \E k \in Numbers : carried'[k] = x
        <5>1. SUFFICES ASSUME NEW x \in recorded PROVE \E k \in Numbers : carried'[k] = x
          OBVIOUS
        <5>2. PICK k \in Numbers : carried[k] = x
          BY <1>0 DEF NamesInv
        <5>3. x # 0
          BY <1>0 DEF TypeOK
        <5> QED
          BY <5>2, <5>3, <3>3, <3>7
      <4>3. outage # 0 => outage <= number + 1 /\ outage \notin recorded
                          /\ ended[outage] = "loss"
        BY <3>2, <1>0 DEF NamesInv, TypeOK
      <4> QED
        BY <2>0, <3>1, <4>1, <4>2, <4>3 DEF NamesInv
    <3>9. ended[number + 1] = "none"
      BY <3>2, <1>0 DEF EndedInv
    <3>10. HandInv'
      BY <2>0, <3>1, <3>3, <3>9 DEF HandInv
    <3>11. ErrorsInv'
      BY <2>0, <3>1, <3>2, <1>0 DEF ErrorsInv, Running, TypeOK
    <3>12. OutageIdentityKept'
      <4>1. SUFFICES ASSUME NEW n \in Numbers, n + 1 <= number + 1
                     PROVE
              /\ (carried'[n] # 0 /\ carried'[n] \notin recorded) => carried'[n + 1] = carried'[n]
              /\ (ended[n] = "loss" /\ carried'[n] \notin recorded) => carried'[n + 1] # 0
              /\ carried'[n + 1] # 0 => ended[carried'[n + 1]] = "loss" /\ carried'[n + 1] <= n
        BY <2>0, <3>1 DEF OutageIdentityKept
      <4>2. CASE n = number
        <5>1. carried'[n] = carried[n] /\ carried'[n + 1] = outage
          BY <4>2, <3>2, <3>3
        <5> QED
          BY <5>1, <4>2, <1>0 DEF HandInv, NamesInv
      <4>3. CASE n # number
        <5>1. n + 1 \in Numbers /\ n + 1 <= number
          BY <4>1, <4>3, <3>2
        <5>2. carried'[n] = carried[n] /\ carried'[n + 1] = carried[n + 1]
          BY <4>1, <4>3, <5>1, <3>2, <3>3
        <5> QED
          BY <5>1, <5>2, <1>0 DEF OutageIdentityKept
      <4> QED
        BY <4>2, <4>3
    <3>13. RetriesHaveACause'
      <4>1. \A n \in Numbers : n < number + 1 => ended[n] # "none"
        BY <2>0, <3>2, <1>0 DEF EndedInv, TypeOK
      <4>2. (\E n \in Numbers : ended[n] = "loss") => policy # 0
        BY <1>0 DEF RetriesHaveACause
      <4>3. ASSUME NEW n \in Numbers, n + DefaultMax <= number + 1
            PROVE \E m \in n .. n + DefaultMax - 1 : ended[m] = "loss"
        <5>1. CASE n + DefaultMax <= number
          BY <4>3, <5>1, <1>0 DEF RetriesHaveACause
        <5>2. CASE n + DefaultMax = number + 1
          <6>1. errors <= number /\ (errors # number => ended[number - errors] = "loss")
            BY <2>0, <1>0 DEF ErrorsInv
          <6>2. errors \in 0 .. DefaultMax - 1
            BY <1>0 DEF TypeOK
          <6>3. number - errors \in n .. n + DefaultMax - 1 /\ errors # number
            BY <6>1, <6>2, <5>2, <3>2, RecoveryAssumption
          <6> QED
            BY <6>1, <6>3
        <5> QED
          BY <4>3, <5>1, <5>2, <3>2, RecoveryAssumption
      <4> QED
        BY <2>0, <3>1, <4>1, <4>2, <4>3 DEF RetriesHaveACause
    <3> QED
      BY <2>c, <3>5, <3>6, <3>8, <3>10, <3>11, <3>12, <3>13 DEF RInv
  <2> QED
    BY <2>1, <2>2
<1> QED
  BY <1>1, <1>2, <1>3, <1>4, <1>5, <1>6, <1>7, <1>8, <1>9, <1>10 DEF Next
-----------------------------------------------------------------------------
LEMMA SpecRInv == Spec => []RInv
<1> QED
  BY InitRInv, NextRInv, PTL DEF Spec

\* For every cap and policy the loop's variables keep their types; the run of
\* setup errors stays below the caller's cap (client.py record_attempt_error).
THEOREM TypeCorrect == Spec => []TypeOK
<1>1. RInv => TypeOK
  BY DEF RInv
<1> QED
  BY <1>1, SpecRInv, PTL

\* For every cap and policy one interruption keeps one identity from the lost
\* attempt until the benchmark acknowledges it (client.py record_loss, attempt).
THEOREM OneIdentityPerOutage == Spec => []OutageIdentityKept
<1>1. RInv => OutageIdentityKept
  BY DEF RInv
<1> QED
  BY <1>1, SpecRInv, PTL

\* For every cap and policy an attempt is made again only for a loss under a
\* policy, or for a setup error within the run the caller allowed.
THEOREM EveryRetryHasACause == Spec => []RetriesHaveACause
<1>1. RInv => RetriesHaveACause
  BY DEF RInv
<1> QED
  BY <1>1, SpecRInv, PTL

\* For every cap and policy no attempt starts beyond the cap in effect.
THEOREM CapsHold == Spec => AttemptsCapped
<1>1. RInv /\ [Next]_vars =>
        [number' # number =>
           number' <= IF loaded /\ policy # 0 THEN policy ELSE DefaultMax]_vars
  <2> SUFFICES ASSUME RInv, [Next]_vars, number' # number
               PROVE number' <= IF loaded /\ policy # 0 THEN policy ELSE DefaultMax
    OBVIOUS
  <2>1. Again /\ number < cap /\ number' = number + 1
    BY DEF Next, vars, Retrieve, MarkReady, Succeed, Lose, LoadForLoss, LoadFails,
           SetupFails, Fail, Again, outageVars
  <2>2. number' <= cap
    BY <2>1, RecoveryAssumption DEF RInv, TypeOK, Numbers
  <2> QED
    BY <2>2 DEF RInv, CapInv
<1> QED
  BY <1>1, SpecRInv, PTL DEF Spec, AttemptsCapped

\* For every cap and policy an acknowledged outage is never handed out again.
THEOREM AcknowledgedOnce == Spec => AcknowledgedOutageIsOver
<1>1. RInv /\ [Next]_vars =>
        [\A k \in Numbers : (k <= number' /\ k > number) => carried'[k] \notin recorded]_vars
  <2> SUFFICES ASSUME RInv, [Next]_vars, NEW k \in Numbers, k <= number', k > number
               PROVE carried'[k] \notin recorded
    OBVIOUS
  <2>0. TypeOK /\ NamesInv
    BY DEF RInv
  <2>1. Again /\ number < cap /\ number' = number + 1
        /\ carried' = [carried EXCEPT ![number + 1] = outage]
    BY <2>0 DEF Next, vars, Retrieve, MarkReady, Succeed, Lose, LoadForLoss, LoadFails,
           SetupFails, Fail, Again, outageVars, TypeOK, Numbers
  <2>2. k = number + 1
    BY <2>0, <2>1 DEF TypeOK, Numbers
  <2>3. carried'[k] = outage
    BY <2>0, <2>1, <2>2 DEF TypeOK
  <2>4. outage \notin recorded
    BY <2>0 DEF NamesInv, TypeOK
  <2> QED
    BY <2>3, <2>4
<1> QED
  BY <1>1, SpecRInv, PTL DEF Spec, AcknowledgedOutageIsOver
=============================================================================
