------------------------------ MODULE DrainRetry ------------------------------
(***************************************************************************)
(* A draining container together with clients that retry its refusals:     *)
(* BenchmarkServiceClient._http_request and ._connect_websocket around the *)
(* server of Drain.tla.  A call is one request of the caller; each of its  *)
(* tries is a request of its own for the server.                           *)
(***************************************************************************)
EXTENDS Drain

CONSTANTS
  Calls,      \* the calls made by callers
  WsCalls,    \* those that open a websocket, the others are plain HTTP
  MaxTries    \* bound: how many tries fit into the retry window

ASSUME RetryAssumption == /\ WsCalls \subseteq Calls
                          /\ MaxTries \in Nat \ {0}
                          /\ Requests = Calls \X (1 .. MaxTries)

VARIABLES
  call,      \* what the caller's coroutine does
  tries,     \* tries sent so far
  expired    \* the retry deadline has passed

clientVars == <<call, tries, expired>>
allVars == <<vars, clientVars>>

\* "refused" is the drain response itself, handed to the caller after the window.
Outcomes == {"answered", "refused", "failed"}

RetryTypeOK == /\ TypeOK
               /\ call \in [Calls -> {"idle", "sent", "pausing"} \cup Outcomes]
               /\ tries \in [Calls -> 0 .. MaxTries]
               /\ expired \in [Calls -> BOOLEAN]

RetryInit == /\ Init
             /\ call = [c \in Calls |-> "idle"]
             /\ tries = [c \in Calls |-> 0]
             /\ expired = [c \in Calls |-> FALSE]

Try(c) == <<c, tries[c]>>

Send(c) == /\ tries[c] < MaxTries
           /\ call' = [call EXCEPT ![c] = "sent"]
           /\ tries' = [tries EXCEPT ![c] = @ + 1]
           /\ \E w \in Workers : Arrive(<<c, tries[c] + 1>>, w)
           /\ UNCHANGED expired

Call(c) == call[c] = "idle" /\ Send(c)

\* Mutant: every denial is taken for a drain rejection.
IsAnyDenial(answer) == answer \in {"draining", "denied", "dropped"}

\* is_drain_rejection: a 503 that carries the drain header, and nothing else.
IsDrainRejection(answer) == answer = "draining"

\* The response of the current try: only a drain rejection is tried again, any
\* other denial or error is raised to the caller.
Receive(c) ==
  LET answer == reply[Try(c)] IN
  /\ call[c] = "sent"
  /\ answer # "none"
  /\ call' = [call EXCEPT ![c] =
       CASE IsDrainRejection(answer) -> "pausing"
         [] answer = "answered" -> "answered"
         [] OTHER -> "failed"]
  /\ UNCHANGED <<vars, tries, expired>>

\* The connection breaks or times out while the server may be working.
ConnectionLost(c) ==
  /\ call[c] = "sent"
  /\ call' = [call EXCEPT ![c] = "failed"]
  /\ UNCHANGED <<vars, tries, expired>>

\* The window opens at the first refusal for HTTP, before the first try for a
\* websocket.
WindowOpen(c) == \/ c \in WsCalls /\ call[c] \in {"sent", "pausing"}
                 \/ call[c] = "pausing"
                 \/ call[c] = "sent" /\ tries[c] > 1

Expire(c) == /\ WindowOpen(c)
             /\ ~ expired[c]
             /\ expired' = [expired EXCEPT ![c] = TRUE]
             /\ UNCHANGED <<vars, call, tries>>

\* After the pause: give up once the deadline has passed, else try again.
Wake(c) ==
  /\ call[c] = "pausing"
  /\ IF expired[c]
       THEN /\ call' = [call EXCEPT ![c] = "refused"]
            /\ UNCHANGED <<vars, tries, expired>>
       ELSE Send(c)

\* Only a websocket can be refused without the drain header.
ServerStep ==
  /\ UNCHANGED clientVars
  /\ \/ \E r \in Requests :
          \/ Admit(r) \/ AdmitRaises(r) \/ Resume(r) \/ Cancel(r)
          \/ Complete(r) \/ CompleteRaises(r)
          \/ \E a \in {"answered", "dropped"} : Finish(r, a)
          \/ Reject(r, "draining")
          \/ r[1] \in WsCalls /\ Reject(r, "denied")
     \/ \E k \in Commands : SetAdmission(k[1], k[2])
     \/ \E w \in Workers : WorkerDies(w) \/ WorkerStarts(w)

ClientStep(c) == Call(c) \/ Receive(c) \/ ConnectionLost(c) \/ Expire(c) \/ Wake(c)

RetryNext == ServerStep \/ \E c \in Calls : ClientStep(c)

RetrySpec == RetryInit /\ [][RetryNext]_allVars

\* The server's fairness is Drain's; a client's own steps run when they can and
\* its clock advances.  A new worker process replaces a dead one.
RetryFairSpec ==
  /\ RetrySpec
  /\ \A r \in Requests : WF_allVars(Serve(r) /\ UNCHANGED clientVars)
  /\ \A c \in Calls : WF_allVars(Receive(c)) /\ WF_allVars(Expire(c)) /\ WF_allVars(Wake(c))
  /\ \A w \in Workers : WF_allVars(WorkerStarts(w) /\ UNCHANGED clientVars)
-----------------------------------------------------------------------------
(* Properties *)

\* Retrying is safe: however often a call is tried, and whatever happens to its
\* connection, the application sees at most one of its tries.
AtMostOneStart ==
  \A c \in Calls : Cardinality({n \in 1 .. MaxTries : <<c, n>> \in ran}) <= 1

\* Every call ends: refusals do not keep a client trying for ever.
CallsSettle == \A c \in Calls : (call[c] = "sent") ~> (call[c] \in Outcomes)
=============================================================================
