--------------------------- MODULE AdmissionContract ---------------------------
(***************************************************************************)
(* What the admission of /v1/evaluate promises, without reservations,      *)
(* counters, permits, tickets or threads: who is let in and for what       *)
(* reason somebody is turned away, that who uses a slot has paid for it    *)
(* and kept its turn in the line, and that a unit is never given back.     *)
(* GradingAdmission.tla implements it.                                     *)
(***************************************************************************)
EXTENDS Integers, FiniteSets

CONSTANTS
  Requests, KeyOf, TenantOf, Direct, Metered, Limit, MaxPeriod,
  Slots,             \* how many may be graded at once
  Places,            \* how many may be inside
  PlacesPerTenant    \* how many of one tenant

VARIABLES
  place,      \* where a request is
  answer,     \* what it was told in the end
  ahead,      \* who joined the line before it and still waits
  paid,       \* the requests a unit was taken for
  countedIn,  \* the period it is counted in
  today       \* the current period

TenantOfRequest(r) == TenantOf[KeyOf[r]]
Waiting == {r \in Requests : place[r] = "waiting"}
Slotted == {r \in Requests : place[r] \in {"called", "grading"}}
Inside == {r \in Requests \ Direct :
             place[r] \in {"entered", "waiting", "called", "grading", "leaving"}}
InsideOf(t) == {r \in Inside : TenantOfRequest(r) = t}
KeysInside == {KeyOf[r] : r \in Inside}
Units(t, p) == {r \in paid : countedIn[r] = p /\ TenantOfRequest(r) = t}
MayProceed(r) == TenantOfRequest(r) \in Metered => r \in paid

ContractInit ==
  /\ place = [r \in Requests |-> "arriving"]
  /\ answer = [r \in Requests |-> "none"]
  /\ ahead = [r \in Requests |-> {}]
  /\ paid = {}
  /\ countedIn = [r \in Requests |-> 0]
  /\ today = 0

\* Request r goes to place p, and the waiters of G are called to a slot.
Goes(r, p, G) ==
  place' = [o \in Requests |-> IF o = r THEN p
                               ELSE IF o \in G THEN "called" ELSE place[o]]

\* The line: who joins stands behind everybody who waits, who leaves it is gone.
Line ==
  ahead' = [r \in Requests |->
              IF place'[r] # "waiting" THEN {}
              ELSE (IF place[r] = "waiting" THEN ahead[r] ELSE Waiting) \cap Waiting']

\* Slots go to those at the front of the line.
Front(G) == \A g \in G : ahead[g] \subseteq G
SlotsSuffice == Cardinality(Slotted') <= Slots

Tell(r, why) == answer' = [answer EXCEPT ![r] = why]

\* A request is told why it is not let in, and the reason is true.
TurnedAway(r, why) ==
  /\ place[r] = "arriving"
  /\ \/ why \in {"invalid", "cancelled"}
     \/ /\ why = "duplicate" /\ r \notin Direct
        /\ \E o \in Inside : KeyOf[o] = KeyOf[r]
     \/ /\ why = "full" /\ r \notin Direct
        /\ \/ Cardinality(KeysInside) >= Places
           \/ Cardinality(InsideOf(TenantOfRequest(r))) >= PlacesPerTenant
  /\ Goes(r, "gone", {})
  /\ Tell(r, why)
  /\ UNCHANGED <<paid, countedIn, today>>

\* A slot at once while nobody waits, or a place in the line.
Queues(r) ==
  /\ r \notin Direct
  /\ \/ Waiting = {} /\ Goes(r, "grading", {}) /\ SlotsSuffice
     \/ Goes(r, "waiting", {})

\* One request per key is let in while there is room.
LetIn(r) ==
  /\ place[r] = "arriving"
  /\ r \notin Direct => /\ KeyOf[r] \notin KeysInside
                        /\ Cardinality(KeysInside) < Places
                        /\ Cardinality(InsideOf(TenantOfRequest(r))) < PlacesPerTenant
  /\ \/ Goes(r, "entered", {}) /\ countedIn' = [countedIn EXCEPT ![r] = today]
     \/ MayProceed(r) /\ Queues(r) /\ UNCHANGED countedIn
     \/ MayProceed(r) /\ r \in Direct /\ Goes(r, "serving", {}) /\ UNCHANGED countedIn
  /\ UNCHANGED <<answer, paid, today>>

\* One unit, of the period the request entered in, while there is one.
Pays(r) ==
  /\ place[r] = "entered"
  /\ r \notin paid
  /\ Cardinality(Units(TenantOfRequest(r), countedIn[r])) < Limit
  /\ paid' = paid \cup {r}
  /\ UNCHANGED <<place, answer, countedIn, today>>

GoesOn(r) ==
  /\ place[r] = "entered"
  /\ MayProceed(r)
  /\ Queues(r) \/ (r \in Direct /\ Goes(r, "serving", {}))
  /\ UNCHANGED <<answer, paid, countedIn, today>>

\* A request that did not pay is told so only when the units were used up.
Unpaid(r, why) ==
  /\ place[r] = "entered"
  /\ \/ why \in {"cancelled", "unavailable"}
     \/ /\ why = "exceeded" /\ r \notin paid
        /\ Cardinality(Units(TenantOfRequest(r), countedIn[r])) >= Limit
  /\ Goes(r, "gone", {})
  /\ Tell(r, why)
  /\ UNCHANGED <<paid, countedIn, today>>

\* The grade begins; free slots may go to others.
Starts(r, G) ==
  /\ place[r] = "called"
  /\ Front(G)
  /\ Goes(r, "grading", G)
  /\ SlotsSuffice
  /\ UNCHANGED <<answer, paid, countedIn, today>>

\* One that has not begun gives up; it is still inside.
GivesUp(r) ==
  /\ place[r] \in {"waiting", "called"}
  /\ Goes(r, "leaving", {})
  /\ UNCHANGED <<answer, paid, countedIn, today>>

\* A request is answered and goes; only who never began is told it was too late.
Departs(r, why, G) ==
  /\ \/ place[r] = "leaving" /\ why \in {"late", "cancelled"}
     \/ place[r] = "grading" /\ why \in {"answered", "cancelled"}
     \/ place[r] = "serving" /\ why \in {"answered", "cancelled"} /\ G = {}
  /\ Front(G)
  /\ Goes(r, "gone", G)
  /\ SlotsSuffice
  /\ Tell(r, why)
  /\ UNCHANGED <<paid, countedIn, today>>

NextPeriod ==
  /\ today < MaxPeriod
  /\ today' = today + 1
  /\ UNCHANGED <<place, answer, paid, countedIn>>

Answers == {"invalid", "duplicate", "full", "exceeded", "unavailable", "late",
            "answered", "cancelled"}

ContractNext ==
  /\ \/ \E r \in Requests, why \in Answers : TurnedAway(r, why) \/ Unpaid(r, why)
     \/ \E r \in Requests : LetIn(r) \/ Pays(r) \/ GoesOn(r) \/ GivesUp(r)
     \/ \E r \in Requests, why \in Answers, G \in SUBSET Waiting : Departs(r, why, G)
     \/ \E r \in Requests, G \in SUBSET Waiting : Starts(r, G)
     \/ NextPeriod
  /\ Line

contractVars == <<place, answer, ahead, paid, countedIn, today>>
ContractSpec == ContractInit /\ [][ContractNext]_contractVars
=============================================================================
