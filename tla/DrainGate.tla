------------------------------ MODULE DrainGate ------------------------------
(***************************************************************************)
(* What draining promises to a deployment controller, without the store,   *)
(* the middleware or the threads: a gate that lets work begin only while   *)
(* it is open, and a controller that may believe the service idle only     *)
(* while no admitted work is left.  Drain.tla implements it.               *)
(***************************************************************************)
CONSTANT Requests

VARIABLES
  gate,     \* TRUE while new work may begin
  working,  \* work that began and has not ended (it may be about to run)
  idle      \* the controller holds a report that still says "closed and idle"

gateVars == <<gate, working, idle>>

GateTypeOK == /\ gate \in BOOLEAN
              /\ working \subseteq Requests
              /\ idle \in BOOLEAN

GateInit == gate = FALSE /\ working = {} /\ idle = FALSE

Begin(r) == /\ gate
            /\ r \notin working
            /\ working' = working \cup {r}
            /\ UNCHANGED <<gate, idle>>

\* Requests end by themselves, or together when their worker dies.
End(R) == /\ R # {}
          /\ R \subseteq working
          /\ working' = working \ R
          /\ UNCHANGED <<gate, idle>>

\* Every new command makes the reports taken before it obsolete.
Command(a) == /\ gate' = a
              /\ \E b \in BOOLEAN : /\ b => ~a /\ working = {}
                                    /\ idle' = b
              /\ UNCHANGED working

Report(b) == /\ b => ~gate /\ working = {}
             /\ idle' = b
             /\ UNCHANGED <<gate, working>>

\* The store of this gate is gone: nothing begins any more, and no report about
\* it is obtained any more.
Remove == /\ gate' = FALSE
          /\ UNCHANGED <<working, idle>>

GateNext == \/ \E r \in Requests : Begin(r)
            \/ \E R \in SUBSET Requests : End(R)
            \/ \E a \in BOOLEAN : Command(a)
            \/ \E b \in BOOLEAN : Report(b)
            \/ Remove

GateSpec == GateInit /\ [][GateNext]_gateVars

\* A controller that believes the service idle is right: nothing is left.
IdleIsTrue == idle => ~gate /\ working = {}
=============================================================================
